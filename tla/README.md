# meshprovision in TLA+

TLA+ models of [meshprovision](../src/README.md), a command-line tool that provisions a fleet of
Meshtastic LoRa radios from a spreadsheet: it reads a device, plans changes, writes them over a
flaky link, reads the result back, and records the node - and its private key - in an ODS file
other people have open in LibreOffice. What a unit test hardly reaches is the subject here: a kill
between any two steps, a device that reboots, renumbers itself or is another one, a second command
or a second program on the same file, a lock-free refresh beside a save.

## Modules

| module | models | main code (`map` in `PROJECT.json` has every line) |
|---|---|---|
| `ApplyPlan` | one `apply_plan` call against one radio of several | `provisioning/apply.py`, `apply_session.py`, `device_write.py` |
| `ApplyContract` | what a caller of `apply_plan` may rely on | (abstract) |
| `Provision` | repeated `mesh provision` and `mesh db renumber` runs: who holds a private key | `cli/provision*.py`, `provisioning/plan*.py`, `persist.py`, `renumbered.py`, `db/pending_keys.py`, `db/renumber.py` |
| `OdsStore` | commands loading, locking, checking, backing up and replacing the database | `db/ods.py`, `db/locking.py`, `db/atomic_writer.py`, `cli/common.py`, `cli/db_cmd.py` |
| `SharedFile` | what commands promise one another about the file | (abstract) |
| `KnownGood` | the lock-free known-good copy and its sidecar | `db/known_good.py`, `cli/db_cmd.py` |
| `Backups` | creating and pruning timestamped backups, under the lock and without it | `db/backups.py`, `db/fs_primitives.py`, `db/atomic_writer.py` |
| `HttpCache` | commands sharing one cache directory: entries, retries, the 429 cool-downs | `cache/http.py`, `datasources/base.py`, `datasources/json_store.py` |
| `Registry` | the Nodes and Keys sheets of a fleet under adopts, provisions, imports, forgets and renumbers | `provisioning/adopt.py`, `key_registry.py`, `admin_custody.py`, `persist.py`, `db/renumber.py`, `db/nodes.py`, `db/keys.py`, `cli/admin.py`, `cli/db_cmd.py` |
| `DevicePlan` | what a provision plans to change of a device, and what its row becomes | `provisioning/plan*.py`, `plan_security.py`, `plan_admin_keys.py`, `detect.py` |
| `Readback` | the verdict on every field that was written, as firmware keeps it | `provisioning/readback.py`, `plan_types.py` |
| `NodeNames` | patterns and the allocation of free names | `name_pattern.py`, `provisioning/pipeline.py`, `db/nodes.py` |
| `PeerSync` | giving a device the nodes of its fleet, one message at a time | `provisioning/peers.py`, `cli/peers_sync.py` |
| `DeviceTold` | what `DevicePlan`, `Readback` and `PeerSync` promise together of a device | |
| `Connecting` | which device a command opens, and how it closes it | `cli/transport.py`, `provisioning/discovery.py`, `connection.py` |
| `WeakKeys` | the audit of a node's keys, and the blocklist with its cache | `crypto/weakkeys.py`, `crypto/known_bad_keys.py` |
| `Sheets` | the book between `mesh` and an operator at LibreOffice | `db/schema.py`, `ods_read.py`, `ods.py`, `ods_write.py`, `cell_validation.py`, `node_record.py`, `header_diff.py`, `sorting.py`, `keys.py` |
| `DbVerify` | what `mesh db verify` finds | `db/verify.py` |
| `Hours` | hour buckets: merging an answer into the stored hours, the retention | `network/buckets.py`, `health/history.py` |
| `RegionStore` | the day files of the regions, refreshed by commands without a lock | `network/store.py`, `network/refresh.py` |
| `HistoryStore` | the history file of each node, likewise | `health/store.py`, `health/refresh.py` |
| `RelayGraph` | cuts and disjoint ways of the relay graph | `network/graph.py` |
| `RelayMemory` | which node a relay byte stands for, and the memory of it | `network/resolve.py`, `network/store.py` |
| `KeyScan` | the keys heard of each node, and clones and moves among them | `network/keys.py`, `network/keystore.py` |
| `RegionTraffic` | the counts of a region's packets, and who depends on whom | `network/rawpackets.py`, `buckets.py`, `relays.py`, `impact.py` |
| `RegionSearch` | the search for a node among lorastats' regions | `datasources/lorastats.py`, `region_memo.py` |
| `RegionList` | the shared list of those regions | `datasources/lorastats_regions.py` |
| `Loranet` | loranet's dump, its memo, its age, its entries | `datasources/loranet.py`, `base.py`, `models.py` |
| `NodeStatus` | the merge of sources, the learned interval, staleness, trends | `status/merge.py`, `cadence.py`, `trend.py`, `report.py` |
| `NodeHealth` | metrics, findings, verdicts and reliance of a fleet | `health/metrics.py`, `rules.py`, `report.py` |
| `CopiesMC`, `FleetMC`, `RecordsMC`, `HealthMC`, `NetworkMC` | several components in parts (see below) | |
| `ProvisionMC`, `HttpCacheMC`, `*.cfg` | the other instances TLC checks | |
| `ApplyPlan_proofs` | theorems about `ApplyPlan` | |
| `HistoryStore_proofs` | theorems about `HistoryStore`, `NodeStatus` and `NodeHealth` | |
| `Provision_proofs` | theorems about `Provision`, `DevicePlan`, `Readback`, `PeerSync` and `Connecting` | |
| `Shared_proofs` | theorems about `OdsStore`, `Registry`, `RelayMemory`, `RegionSearch` and `RegionList` | |
| `Caches_proofs` | theorems about `HttpCache` and `WeakKeys` | |
| `Copies_proofs` | theorems about `KnownGood` and `Backups` | |
| `Records_proofs` | theorems about `RegionStore`, `DbVerify` and `Loranet` | |
| `Hours_proofs` | lemmas about `Hours` | |

**Parts.** Five MC modules gather components that share no state. Their variable `part` says which
one a behaviour is about: its initial states are that component's, its steps are that component's
actions, and everything else stands still at one state. This is a disjoint union of specifications,
not their product: a property of one part holds of the union exactly when it holds of that
component on its own. `CopiesMC` has `Backups` and `KnownGood`, whose fairness is asked of its own part
only; `FleetMC` has `OdsStore`, `Registry`, `DevicePlan`, `Readback`, `NodeNames`, `PeerSync`,
`Connecting`, `WeakKeys`; `RecordsMC` has `RegionStore`, `Loranet`, `Sheets`, `DbVerify`; `HealthMC`
has `HistoryStore`, `NodeStatus`, `NodeHealth`; `NetworkMC` has `RelayGraph`, `RelayMemory`,
`KeyScan`, `RegionTraffic`, `RegionSearch`, `RegionList`.

How they compose: `ApplyPlan` implements `ApplyContract` (property `KeepsContract`), and
`Provision` uses the contract's own actions `Send` and `End` for the apply phase of a run, so what
holds for a run rests on exactly what was checked of the call. `OdsStore` implements `SharedFile`
(`KeepsSharedFile`); `Provision` takes a save as one step, and runs as mutually exclusive, because
of it. `KnownGood` and `Backups` share the database lock with `OdsStore` but keep only what they
need of it: `OdsStore` never prunes, `Backups` says what pruning may take away. `Registry` takes a
command as one step for the reason `Provision` takes a save as one, and looks at all rows where
`Provision` looks at one key's custody. `RegionStore` and `HistoryStore` are two stores over the
same arithmetic, `Hours`; `NodeHealth` extends `NodeStatus`, as the health report starts from the
status it judges again. `Sheets` says what loading reports to `DbVerify`, `WeakKeys` what the audit
of one key finds; in `DbVerify` both are inputs.

### ApplyPlan

`pc` names the next step of `apply_plan`: `start`, `name` (`_run_name_phase`), `write`
(`_write_in_order` inside the transaction), `commit`, `reconnect` and `identify` (only when
security was deferred past the commit), `deferred` (the second write pass), `verify` and `readback`
(`_verify_after_apply`), `abort` (the `finally` clause under an exception), `done`. `todo`, `stop`,
`attempted`, `results` are the function's locals of these names. The device side is `txOpen`,
`staged`, `saved`, `newKey`, `reports`; every library call is a choice between the outcomes
`Receive` and `ReceiveCommit` allow (nothing arrived, part arrived, all arrived) and between
returning and raising, independently. `Interrupt` is Ctrl-C between or in any two steps, `Reboot` a
reboot that drops what was staged, `Connects(d)` lets any device on the transport answer.
Field values are abstracted to "holds what the plan wants, or not".

### Provision

`Gather` is `_gather_plan_inputs` and `build_plan` up to the key decision: matching the device to a
row, refusing a renumbered one (`MoveFirst`), finding a pending keypair (`PendingIds`), and the
branches of `plan_node_keypair` in their order (`Decide`). `WriteAhead` stores the generated keypair
before any device write; `ApplyNames`, `ApplySend`, `ApplyEnd` are the apply phase by its contract;
`Persist` / `PersistFails` / `NotPersisted` are `persist_result` and what the caller does with its
result; `ClearPending` and `ClearOwnerPending` follow the save. `DbRenumber`, `CopyPending`,
`DropPending` are `mesh db renumber`. `Kill` may strike between any two. Between runs a device is
upgraded to firmware 2.8 (its id becomes derived from its key) or is given a new key by its owner.
`factory` holds the devices whose names are still the default ones.

Abstractions: a keypair is one value, and doubles as the id firmware 2.8 derives from it; a key is
durable on the device as soon as it is taken; no row is archived or observed; a row's admin alias is
not named; the extra save that records a proven private key on a run that otherwise persists
nothing is left out; peers, names and the other sections of a plan are left out.

### OdsStore

A file's content is the set of edits it carries, so "an update is lost" is a set difference. `Lock`
and `LockTimesOut` are the polling loop of `locking.py`; `CheckUnmodified` is
`_check_not_concurrently_modified` (identity, else hash); `CreateBackup`, `Replace` and `SaveFails`
are `atomic_write`; `StartRestore` is `mesh db restore`, whose backup is chosen before the lock;
`DbBackup` takes no lock; `OutsideOpen` / `OutsideSave` are LibreOffice. `dropped` and `unseen` are
history: what the other program's saves threw away, which no check on this side can prevent.

### KnownGood

Every load and save calls `refresh_known_good` with the bytes and `fstat` it read: `FastPath`,
`WriteTemp`, `CheckSuperseded`, `ReplaceCopy`, `WriteSidecar` are its steps, each interleaved with
everyone else's. `ChooseKnownGood` / `RestoreKnownGood` are `mesh db restore --known-good` before
and after its prompt. Other programs may save broken content, in place, keeping the mtime; somebody
may overwrite the copy; a directory may be copied wholesale with another database's copy in it.

### Backups

`create_backup` step by step: `ChooseName` (the clock, or just past the newest backup), `Copy`,
`Claim` (a hard link into the first free name), `Stat`, then `prune_backups`: `ListForPrune` decides,
`Delete` unlinks one name at a time, newest of the doomed first. A save (`StartSave` ... `Replace`)
does it under the lock; `DbBackup` does it at any time. The directory knows backups by name, so a
name freed by one prune may be taken again before another prune unlinks it; `nth` and `begun` are
history that tells which of two backups was complete before the other was begun. Left out: writers
other than `mesh` (see `OdsStore`), a listing that is torn by a concurrent deletion, a second
spelling of the database's name.

### HttpCache

A call is `Hit`, or `Ask` and then an answer: `Retry` and `AskAgain` (a 5xx or a transport error),
`GiveUp`, `RateLimited` (the instance remembers the host's cool-down, reads the file) and `Persist`
(writes back what it read with its own added, without a lock), or `Fetched`, `WriteEntry` and the
judgement of `get_json`, which may `Evict`. A call that is refused during a cool-down changes
nothing and is no action. `Restart` ends a command, or kills it, and the next is a new instance with
an empty memory. `Lose` is an entry that is deleted or unreadable. `told`, `kept` and `dropped` are
history: what the instance was told, what was stored and not overwritten by a command that had read
the file before, and which bodies were evicted. Looking an entry up, checking the cool-down and
sending the first request are one step: nothing in the code waits between them. Left out: a clock
that is set back, redirects, size limits, the deletion of the file by hand.

### Registry

A database is `rows` (per id: whose key, which references it authorizes, which keys it lists as
unregistered, whether it is observed or archived) and `pub`, `priv` (per owner of a reference).
`Adopt`, `ProvisionKeeping` and `ProvisionRegenerating`, `AdminImport`, `DbForget`, `DbRenumber` are
whole commands: one save, or a refusal that saves nothing. `RefFor` mints the short, then the wide
observed reference of a digest; `Preferred` picks among owners of one key. `Upgrades`, `KeyChanges`,
`AdminsChange` and `TemplateChanges` are firmware, other programs and the operator. A row may have been written by an older version with keys
it lists as unregistered (`Legacy`). Provisioning leaves that list on the row although the template
replaces the device's keys (docs/database.md:33 knows such leftovers, for re-adoption to drain), so a
later import of such a key adds its reference to the row; and an observed row deliberately protects no key: a node
that is only watched does not stop the owner of a key from replacing it.

### DevicePlan, Readback, NodeNames

`DevicePlan`: `BuildPlan` is `build_plan` from a live device, its row, the template and the
options, by parts (names, fields, modules, channel, PIN, key, admin keys, lockdown), unless it is
`PlanRefused`; `Applied` gives the device afterwards, `ToRecord` the row, and the second run is planned
from those. Fields of the config sections are compared alike and stand for one another. The PIN that
is drawn for a row without one is an option; it may happen to be the device's.

`Readback`: `Write` is a device that takes each part of a plan as its firmware does (cuts a name at
a byte limit and a character boundary, keeps a float in four bytes, shows a key in the security
section, in the node database, or in both) or does not take it; `JudgeAll` judges. What firmware does
is external to the source. `--no-reconnect` skips the section: its results would prove nothing.

`NodeNames`: `Render` and `ParseIndex` convert between indices and names, positional by slots;
`Allocate` takes the first index free without regard to case, for both patterns together when it
can; names also come from elsewhere (`ComesNamed`), and rows are archived and back.

### PeerSync, Connecting, WeakKeys

`PeerSync` steps are planning (`Begin`, from the database and the device as read), one step per
message (`AddContact`, `SetFavorite`, `RemoveFavorite`), and the read-back with the report; `Hears`
and `Forgets` are the device's own. A message fails with an error (`SendFails`) or is lost unnoticed
(`Dropped`). A key heard between the read and the pin is pinned though nobody screened it, so
`PinsAreSound` speaks of runs in which nothing new is heard, and `PinsAreScreened` of the others (see
the disagreements); after the read-back contacts whose keys are weak or differ are no longer counted
as remaining (cli/peers_sync.py:145-146).

`Connecting`: `ListPorts`, `Scan`, `Select`, the questions (`Confirm`, `Chooses`, `TypeHost`),
`Connect`, `Works` and the end of the close or of the wait for it (`CloseEnds`, `Waits`, `Leaves`)
are steps between which devices come and go (`Moves`). A listing is any sequence of what is there in
the sort's order, of which there is one. The BLE library's import is a lookup that fails; an
interrupt inside the wait of the close, letter case and spaces around a target are left out.

`WeakKeys`: a key is a sequence of few narrow bytes, so that all keys can be looked at. An audit
locates the blocklist file, reads it or takes the cached one, and judges a node; an editor rewrites
the file at any step of an audit (what it writes between two, it may as well write before the later
one looks). The cache key is path, time and size (known_bad_keys.py:257), so a rewrite that brings
back both is missed, although known_bad_keys.py:98-101 says that "a rewritten blocklist file is picked up
on the next call"; `ListIsCurrent` excludes such a rewrite by name (`twice`). base64, clamping and the order of findings
are left out; the curve is the constant function `PublicOf`.

### Sheets, DbVerify

`Sheets`: a book is two sheets of rows of cells with repeats, as in the file. The operator types,
moves and renames columns, inserts and clears rows; LibreOffice compresses rows and cells as it
likes (`ComeBack`); `mesh` loads (`LoadSheets`: rows, warnings, refusals), changes rows and saves. LibreOffice is
external, and takes turns with `mesh`. Merged cells read as blank; columns the schema does not have
are dropped without a word at the next save; identical rows beyond `MAX_ROW_REPEAT` are truncated and
then refused as duplicates; timestamps and `unregistered_admin_keys` are not among the kinds whose
coercion is warned of. What the code diffs of a wrong header with `difflib` is a common beginning and
a common ending here.

`DbVerify`: one operator per check, the report their union. An owner may be spelled in another
letter case, and an admin's label may hold a node's key. The check that malformed material fails the
weak-key audit cannot be reached: loading refuses such a cell.

### Hours, RegionStore, HistoryStore

An hour holds the ticks in which something was heard and until when it was asked for; `Merge` is
what both stores do with an answer. The refresh of a region is `Begin` (due or not), `ReadDay` and
`WriteDay` file by file, `WriteState`, and a sweep; of a fleet, `ReadFile` and `WriteFile` node by
node, then the sweep.
Every write re-reads its file, may fail, and is interleaved with the other command's; a kill may
come between any two.

Assumptions: one clock that only moves on, no skew, a request answered at once, a packet one
reception, lorastats deleting whole hours once they are `Assumed` old and not before. The in-memory
`_refreshed_at` of one command is left out.

`HoursAreRight` says what holds however two commands cross: no stored hour holds anything else than
what was heard until it was asked for, and every hour that nobody will ask for again was once
written whole (`WrittenWhole`), or was taken by a bound (`dropped`), or has an excuse that is named. That it
still *is* whole is claimed of the hours that had not begun when two commands refreshed the same
region or node at once (`overlapped`). Of the others it is false, and `BothLeaveAll` is the statement
that fails (see the disagreements). Two more consequences of the code the properties leave room
for by name (`excused`): in the network store a day file whose write failed while the state file's succeeded
loses that hour's completion for good (the history store keeps both in one file and loses nothing);
and a reception that reaches lorastats after the first refresh past its hour is never counted
(buckets.py:3-6 says so).

### RelayGraph, RelayMemory, KeyScan, RegionTraffic

`RelayGraph` runs the code's iterative depth-first search step by step (`Discover`, `LookBack`,
`Leave`) and its augmenting searches (`Widen`, `Push`), neighbours in any order, and compares
with reachability without a node and with Menger's separators. `RelayMemory` is a run of a region:
the time of the fetch (`Look`), the resolution (`ResolveWindow`, `Recall`), and `Remember`, two at
once without a lock. `KeyScan` keeps the first and last sighting and the hours of each key of each id;
`Findings` is the scan, a state function. Whether a region is due was looked up before the fetch
reads when it was last asked, and may have changed by then; the model asks at any time. A kill between
the write of the hours and of the keys (network/refresh.py:252-253) and a failed write lose what one
refresh heard for good (`missed`), and so do two commands that write keys.json at once (`overwrote`; see
`BothLeaveTheirs` among the disagreements). Of such behaviours the passing property only asks that no
sighting is made up. `RegionTraffic` counts a region's uplinks in bags, hour by hour, over
requests that overlap by a margin: a packet with all its receptions in the hour of the first, a link it
tells of in the hour of its first decoded row, which a gateway without the key does not have. The views
are functions of the sum. Radio levels and the rows of the relay table are left out.

### RegionSearch, RegionList, Loranet

`RegionSearch` looks first where the memo points, then asks whether the node is known at all, then
goes through the regions. A record without a date ends the search, and a stale record of the first
region asked wins over it. `RegionList`: readers load the file, fetch the page when it is due, write.
Nothing locks the file: a reader whose request failed writes the list it had read, and a fresh one
stored meanwhile is lost (lorastats_regions.py:286,426). `ListIsSpared` leaves those runs out by name
(`crossed`), `PageIsSpared` does not (see the disagreements). `Loranet`: the dump through the cache, once per source; entries and fields parsed on
their own. `reported_neighbors` would keep an older as-of after a forced or failed fetch on the same
source object, which no caller does; `mesh status --watch` forces only the first poll
(cli/status.py:347).

### NodeStatus, NodeHealth

Pure: an initial state is a sight of a node (what two sources answered, failed to or answered in
part, its history, its row, its readings), and one step computes what `mesh status` shows;
likewise a fleet and `mesh health`. Hours are whole, an interval counts units of an hour fine enough
for its mean and a quarter of it; thresholds are the code's or scaled with the hours.
Hours after the last one heard do not count, "so an outage does not stretch its own interval"
(docs/commands.md:405). The learning window slides, though (status/cadence.py:198-205): as early hours
leave it, the mean of the gaps left may grow during an outage, up to the longest of them.
`JudgedByItsGaps` is about the longest gap, of nodes whose hours are all still in the window.


## Runs

| run | instance | distinct states |
|---|---|---|
| `apply_plan` | two devices, two config sections, one retry, all plans | 103,788 |
| `provision` | two devices (one with a weak old key, one whose key backs an admin reference), five fresh keys, two faults, `--force-regenerate-key` allowed | 406,818 |
| `copies` | two commands, retention two, four backups, a clock showing 1 or 4 at any time, one fault; two commands, three writes (the second broken), one fault | 1,107,157 |
| `http_cache` | two commands, two hosts, one retry, one body, three instants, a TTL of 1 and cool-downs of 2 | 2,408,847 |
| `records` | two commands on two regions, six ticks, one kind of fault; dumps of two nodes; two rows and a key under two edits; some thousands of databases to verify | 716,022 |
| `health` | two commands on two fleets of three nodes, one kind of fault; families of sights and of fleets of three | 1,464,307 |
| `network` | graphs of four and five nodes; two runs for two relays and gateways; two scanners, three ids, two keys; three stations; three regions; two readers, six days | 1,425,704 |
| `fleet` | two sessions, two edits, one outside save, one restore, one fault; two devices and four keys under two outside events; families of setups and of plans; three nodes and two patterns; three peers; three ports and two radios; keys of four two-bit bytes, two edits | 651,444 |
| `provision_names`, `fleet_refs`, `region_race`, `history_race` | the disagreements below | (stops at the violation) |

What they show:

- **apply_plan** - nothing of the plan reaches another device, whoever answers a reconnect
  (`OnlyTargetWritten`); security leaves last, after everything else was sent without a failure
  (`SecurityLast`); no exit leaves a written transaction open (`TransactionClosed`); the report is
  true (`ReportIsTrue`): a section reported skipped was not sent (`SkippedMeansUnsent`), all that was
  planned is accounted for (`EverythingAccounted`), an outcome that does not count security as
  attempted means the key never left the host (`UnattemptedMeansKeyless`, which allows the pending
  file to be deleted), and a record is made only of what the target durably holds, under the id it
  now reports (`RecordedMeansHeld`); the call ends (`Terminates`) and keeps its contract
  (`KeepsContract`).
- **provision** - a generated key a device holds is always on record (`Custody`), is not replaced
  unless asked, and its origin is honest (`NoSpuriousRegeneration`); a save records what the device
  holds under the id it reports, and no device gets two rows (`RowsAreTrue`); a key backing an admin
  reference survives (`AdminKeysSurvive`); running the command again and again settles every device
  (`Converges`).
- **copies** - a save about to replace the database has a backup of what it replaces
  (`ReplacedIsBackedUp`); a prune keeps what was created last (`KeepsTheLatest`); when all is quiet
  the retention is reached (`QuietMeansPruned`). What restore calls verified was once loaded cleanly
  from this database (`VerifiedIsOurs`); the copy catches up with the file once faults stop
  (`CopyHeals`, which is `Heals` for the copy's part of the run).
- **http_cache** - nobody asks a host it was told not to ask, and a stored cool-down stops the calls
  of every command across restarts and other hosts' 429s (`CooldownHonoured`); what is served from
  the cache answers the call, is fresh, and was never evicted (`ServedIsUsable`).
- **records** - a stored hour holds what was heard in it until it was asked for, is silent only when
  lorastats still answered for it, and is whole once nobody will ask again, unless two refreshes of
  the region crossed after it began, when it was at least written whole once (`HoursAreRight`); day
  files stay readable and the sweep's bounds are kept (`QuietMeansBounded`). A dump is as old as it is
  said to be, is not downloaded too often, and a bad entry costs that entry (`LoranetIsTold`). No row
  or cell is dropped, shifted or counted twice through LibreOffice's repeats, a changed text is
  warned of at the row the operator sees, a refusal names the row to mend, and a save reads back
  (`SheetsAreWhole`). A clean `db verify` means a fleet in order, a later refusal of `provision` is
  foretold, two nodes with one key are told and an alias is not (`VerifyIsRight`).
- **health** - the hours likewise; a sweep never takes a node of a fleet, nor a history just written
  (`SweepsAreRight`). A node is judged by its own gaps, no source makes it look less alive, a trend is
  not drawn across an outage, and a quiet exit means nobody is missing (`StatusIsRight`). Health never
  contradicts status, a node judged again is judged as one judged anew, a gap in the history is no
  silence, a power supply no low battery, and a node that others rely on is important
  (`HealthIsRight`).
- **network** - the search finds exactly what each removal cuts off, and the count of disjoint ways
  is the size of the least separator (`GraphIsRight`); a byte is credited to a node heard, from
  evidence a run had, and no older evidence overwrites newer that was read within its age
  (`RelaysAreRight`); keys' clones and moves, counts, links and impacts follow from the receptions alone (`CountsAreRight`); a search
  ends at the freshest record at the least cost, and the list's page is spared (`RegionsAreAsked`).
- **fleet** - a checked save contains all the file does (`CheckedIsCurrent`); all that was ever
  saved is in the file or a backup, but for what the other program drops or writes in the documented
  window (`Recoverable`); commands do not undo one another (`KeepsSharedFile`). Every reference names a key, an observed key has one owner, a private key fits its
  public one, and a row's admin keys go on meaning what they meant (`RegistryIsSound`); a key others
  use as an admin's is not lost to any command but an overwriting import (`AdminKeysKeepTheirNode`).
  A second provision plans nothing, a lockdown leaves a key that unlocks, and the row is true
  (`PlanIsRight`); nothing the device refused is confirmed and nothing it took is doubted
  (`ReadbackIsTrue`); a quiet sync left every sound node pinned (`PeersAreSynced`). The three are
  checked as one, `DeviceIsAsTold`. Names given are free in every case and given while there are
  any (`NamesAreRight`). The device opened is the one named or the only one there could be, and a
  hanging close hides nothing of the work (`ConnectsAsTold`). A key is compromised by its structure, the list,
  its partner, its firmware or its fleet and by nothing else (`AuditsAreRight`).

**Bounds.** Two commands suffice for every pairwise interleaving, and each may run any number of
times, or as often as named. A second device is what a wrong reconnect, a duplicate key and an admin
reference to another row need; five fresh keys allow a regeneration after a forced one on each
device. `MaxFaults` counts kills and failed writes together: two lets a run be killed and its
recovery be killed as well. In `KnownGood` three writes are the least for a copy that is newer than a
read and older than the file. In `Backups` four backups are two more than the retention, so each
command's prune has something to take from the other, and two times let the clock fall behind the
newest name and catch up with it. `ReplacedIsBackedUp` needs no more commands at
once than the retention keeps backups: with three at once, retention two and three equal timestamps,
two prunes can take each other's survivors and leave nothing. The default retention is 20. In `HttpCache` two
hosts let one host's 429 overwrite the other's, three instants let an entry of TTL 1 be fresh, at its
limit and stale, and a cool-down of 2 (a longer delay, cut to the maximum) end; one body suffices for
it to be stored by one command, served to the other and evicted by both. `MaxTries = 2` reaches a
failed and a repeated connect.

`region_race` and `history_race` are the stores alone and without faults.

In the stores two refreshes of two ticks to an hour let an hour be asked for half and whole, by both
commands, and expire; one day file is cut (`DayMax`), a region is, and all are. `HistoryStore` has
three nodes, a cap of one and two fleets, so that either command's nodes exceed it. `Sheets` allows
two edits, one to make a block of repeats and one to disturb it, over a file with every kind of
column. `RelayGraph` takes all graphs of four nodes for cuts, and for disjoint ways the graphs of
five in which a way taken has to be undone; with four it never is. `RegionTraffic` and `KeyScan` need
three stations or ids so that one is neither a packet's origin nor its gateway; its packets have up to two
rows across an hour's end, each encrypted or decoded. `Registry` needs four
keys: two whose short references collide, one to be generated, one listed by an old row; two outside
events reach a renumbered node whose key somebody replaced. `NodeNames` has four indices to a pattern
and three nodes with foreign names, enough to run out. `WeakKeys` looks at every key of four bytes of
two bits, and two edits bring a file back to a size it had within one timestamp. In `RelayMemory` the
fourth tick lets a remembered relay pass its age while a run with an older fetch is about to write. The families of `DevicePlan`, `Readback`, `NodeStatus` and `NodeHealth` each vary what the
code tells apart together (key and row; admin keys, template and lockdown; fields; names) and keep
the rest plain: the code computes those groups apart.

**Fairness.** `ApplyPlan`: the host keeps executing (each library call returns or raises; the
library has its own timeouts). `Provision`: a started run proceeds; the operator keeps provisioning
every device and follows a refusal's instruction to run `db renumber`. The strong fairness is the
operator's, not the code's: `Converges` says that the way out the program names always leads out.
`KnownGood`: a started refresh proceeds, a prompt is answered, the database keeps being loaded.
Kills, faults, reboots and other programs are never fair. All the others assume none: only safety is
checked. A wait for the lock ends because the timeout of `locking.py` is enabled as long as the lock
is held; there is nothing more to it.

`CHECK_DEADLOCK FALSE`: a fleet's database stands still at its bounds, the stores stop when the clock, the refreshes or the edits are used up, a
pure part when its one answer is computed.

## Where code and documentation disagree

- `provision_names` (`Custody`): the factory-default branch of `plan_node_keypair` precedes the
  recovered pending keypair. A device with no row whose names read empty after a reboot is
  regenerated although it holds the pending key, and the file with that key is overwritten.
- `fleet_refs` (`NoRefIsLost`): when a write renumbers a node, `persist_result` renames every
  reference to its key rows (persist.py:250), then saves the record it had built from the row before
  that, into which only the row's notes were taken over (persist.py:160). If the template names no
  admin nodes the record carries the row's own `authorized_admin_keys` along
  (plan_types.py:745-753), and a device that listed its own key among its admin keys is left naming
  a reference that is gone. docs/commands.md:108-110 and db/renumber.py:13 promise that references
  move with the node. `RefsResolve` holds of everything else.

Two more are of what is read, then changed and written with nothing locked in between:

- `region_race` and `history_race` (`BothLeaveAll`): network/store.py:19-22 says that two processes
  refreshing the same region at once "both leave a complete store", health/store.py:10-14 that two
  refreshing a node "both leave a complete history; at worst one refresh's data is fetched again".
  `merge` replaces each hour of the refresh whatever is stored of it (network/buckets.py:334-335,
  health/history.py:545-547), and the newer of the two fetches is recorded (network/store.py:256-258,
  health/history.py:554). A refresh that asked late in an hour, and stores after one that asked in the
  next, leaves half of the hour and the later time of fetch, from whose hour on the next refresh
  counts: the hour stays short for good. Two that read the same file before either writes lose whole
  hours as well.

Three of the same kind are stated in the modules, each beside the weaker property its run keeps. No
run of the project has them; TLC refutes each when it is named as an INVARIANT of the instance given
here:

- `BothLeaveTheirs` (`KeyScan`, in `network`): network/keystore.py:13-16 says "two processes both leave
  their sightings". Two that load keys.json before either replaces it leave those of the later
  (`KeyStore.update`, keystore.py:103). What the earlier had read beyond the margin of an hour is not
  asked for again: the fetch is recorded before the keys, so a second process may start from the first
  one's fetch and still be the last to write. It takes a process that is held up between its two writes.
- `PageIsSpared` (`RegionList`, in `network`): datasources/lorastats_regions.py:17-23 promises a request
  of the page "at most once per" week and that the stale list is kept. A failed request writes back the
  list that was there before the request (`_record_failure`, 426-438), over the fresh one another
  command has stored, and the next day the page is requested again.
- `PinsAreScreened` (`PeerSync`, in `fleet`, with `MaxHeard = 2`): provisioning/peers.py:29-33 says that
  no key that fails the audit or is shared is ever pinned, whether the database records it or the device
  holds it. What is screened is what the device held when it was read; `apply_peers` (peers.py:576)
  pins what it holds by then.

Three more, seen in earlier instances of these modules and not run any more:

- `_superseded` protects only a known-good copy that mirrors the target as it is now. Load 0, save 1
  with its refresh, outside save 2: the load puts 0 back.
- The comment in `create_backup` says another command's prune can take the new backup only with a
  retention of 1. With 2, a command that is slow to copy under a name it chose early loses it to a
  command that makes two backups meanwhile, and the `stat` that follows raises an error
  `create_backup` does not translate.
- The cool-down file is read once a call, not before every request: a command that backs off after a
  5xx sends its retry although another has stored a cool-down for the host meanwhile. For a call's
  first request `CooldownHonoured` holds, except for a cool-down that is lost to a race:
  `_persist_cooldown` reads the file again to keep other commands' cool-downs, but without a lock
  what another stores between its read and its write is overwritten. `kept` leaves exactly those out.

Limits the documents do not contradict, beyond those named with their modules: `Heals` holds when the
last write has an mtime of its own, since the fast path compares the file's mtime and size with the
copy's, and the sidecar with what was read, never the copy's bytes. `restore --known-good` checks the
provenance before its prompt but reads the copy after it. A provision that fails in its second save
(`capture_proven_private_key`) can leave the private key of an alias as it was. `admin import` of
material that is there already does nothing, under whatever reference.

## Proofs

TLAPS proves, for every value of the constants:

| module | theorem | statement |
|---|---|---|
| `ApplyPlan_proofs` | `TypeCorrect` | `Spec => []TypeOK` |
| | `TargetOnly` | `Spec => []OnlyTargetWritten` |
| | `AlwaysCommitted` | `Spec => []TransactionClosed` |
| | `SkippedIsUnsent` | `Spec => []SkippedMeansUnsent` |
| | `KeylessUnlessAttempted` | `Spec => []UnattemptedMeansKeyless` |
| | `SecurityIsLast` | `Spec => []SecurityLast` |
| | `TheReportIsTrue` | `Spec => []ReportIsTrue` |
| | `ImplementsContract` | `Spec => KeepsContract` |
| `Provision_proofs` | `TypeCorrect` | `Spec => []TypeOK` |
| | `AdminKeysAreKept` | `Spec => AdminKeysSurvive` |
| | `RowsStayTrue` | `Spec => []RowsAreTrue` |
| | `KeysStayInCustody` | `~NamesVanish => (Spec => []Custody)` |
| | `NoKeyIsReplacedUnasked` | `~NamesVanish => (Spec => []NoSpuriousRegeneration)` |
| | `PeersStaySynced` | `PeersSpec => []PeersAreSynced` (of `PeerSync`) |
| | `ConnectionStaysTold` | `ConnectSpec => []ConnectsAsTold` |
| | `PlanStaysRight` | `PlanSpec => []PlanIsRight` (of `DevicePlan`) |
| | `ReadbackStaysTrue` | `ReadbackSpec => []ReadbackIsTrue` (of `Readback`) |
| | `DeviceStaysAsTold` | `PlanSpec /\ ReadbackSpec /\ PeersSpec => []DeviceIsAsTold` |
| `Shared_proofs` | `TypeCorrect` | `Spec => []TypeOK` (of `OdsStore`) |
| | `MutualExclusion` | `Spec => []LockHeld` |
| | `SaveIsCurrent` | `Spec => []CheckedIsCurrent` |
| | `NothingLost` | `Spec => []Recoverable` |
| | `KeepsTheFile` | `Spec => KeepsSharedFile` |
| | `RegistryStaysSound` | `RegistrySpec => []RegistryIsSound` |
| | `AdminKeysAreGuarded` | `RegistrySpec => AdminKeysKeepTheirNode` |
| | `RelaysStayRight` | `MemorySpec => RelaysAreRight` |
| | `RegionsStayAsked` | `SearchSpec /\ ListSpec => []RegionsAreAsked` |
| `Copies_proofs` | `CopyTypeCorrect` | `CopySpec => []CopyTypeOK` (of `KnownGood`) |
| | `VerifiedWasLoaded` | `CopySpec => []VerifiedIsOurs` |
| | `TypeCorrect` | `Spec => []TypeOK` (of `Backups`) |
| | `LatestKept` | `Spec => []KeepsTheLatest` |
| | `QuietIsPruned` | `Spec => []QuietMeansPruned` |
| | `SavesAreBackedUp` | `Spec => []ReplacedIsBackedUp`, if `Retention = 0` or `Procs` are no more than it |
| `Caches_proofs` | `TypeCorrect` | `Spec => []TypeOK` (of `HttpCache`) |
| | `CooldownKept` | `Spec => CooldownHonoured` |
| | `ServedUsable` | `Spec => ServedIsUsable` |
| | `BlocklistIsCurrent` | `AuditSpec => [](audit.step = "judged" => DuplicatesAgree /\ ListIsCurrent)` |
| | `AuditsStayRight` | `AuditSpec => []AuditsAreRight` |
| | `AuditTypeCorrect` | `AuditSpec => []AuditTypeOK` (of `WeakKeys`) |
| `Records_proofs` | `TypeCorrect` | `Spec => []TypeOK` (of `RegionStore`) |
| | `HoursStayRight` | `Spec => []HoursAreRight` |
| | `QuietIsBounded` | `Spec => []QuietMeansBounded` |
| | `VerifyAnswers` | `VerifySpec => []VerifyIsRight` |
| | `LoranetStaysTold` | `LoranetSpec => []LoranetIsTold` |
| `HistoryStore_proofs` | `TypeCorrect` | `Spec => []TypeOK` |
| | `HoursStayRight` | `Spec => []HoursAreRight` |
| | `SweepsStayRight` | `Spec => []SweepsAreRight` |
| | `StatusStaysRight` | `StatusSpec => []StatusIsRight` (of `NodeStatus`) |
| | `HealthStaysRight` | `HealthSpec => []HealthIsRight` (of `NodeHealth`) |

Assumptions: only the named `ASSUME`s of each module (the target is a device, section names are
distinct, bounds are naturals, `None` is no process and no value, there are finitely many nodes,
gateways, regions and keys, as many rows in a database as a sheet has, the margin of distances is not
zero; host names and numbers are words other than the marks of a TCP target, and an IP address has no
brackets and never just one colon; a node's keys are keys or absent, its fleet is finite and has
no absent key, a power within a byte is twice the one below (of powers the provers know nothing); a dump is finite, its entries have the fields that are read, and
nothing missing or unreadable is a number; a device that is planned for has the fields a plan reads
and its switches are true or false; a plan to read back names fields of sections, of which no float
loses more on the wire than the tolerance, and names of characters no longer than what the firmware
may cut; and of the status and health reports what the next paragraph says), for two theorems `~NamesVanish`, and for
`SavesAreBackedUp` finitely many commands, no more than the backups kept unless none is ever deleted.

What a report starts from (`SightsAssumption`, `ViewsAssumption`) is what the stores hand over: a
history with one entry for an hour (`NodeHistory` merges by hour, `learned_interval` keys by it) and
one report for a time (`_by_time`), all of it finite, with numbers for times, and one clock for all
nodes of a report. Nothing unknown is a number or a battery trend. The
thresholds are in the order of the code's constants, the window of history judged is no shorter than
that of battery readings (`--days` is at least one day, and so is `BATTERY_FRESH_SECONDS`), and what
counts as a change of a trend is more than nothing.

*ApplyPlan.* Only the first write pass and the deferred one send. The first runs on the interface
the call was given; the second only after `Identify` has seen the target's own id, and `conn` does
not change in between: `OnlyTargetWritten` follows from "`conn` is the target in every step before a
reconnect and in the deferred pass". `TransactionClosed` needs that `closed` is set on every edge
out of the commit, and that steps that send inside a transaction can only be left through it.
`SkippedMeansUnsent` needs the disjointness of what is still to do, what was sent and what was
reported: sections not yet handled have no result, and a deferred one is unsent until the deferred
pass. `SecurityLast` adds that a planned item is ahead of the call, was sent, or has a result
that says why not (`AheadInv`), and that nothing is ahead once security was sent
(`NothingAfterSecurity`). The remaining parts of `ReportIsTrue` follow from the same at the end of a
call (`EndedInv`), and from what is saved on the target when the transaction is over, so that a
certain read-back of the target's own connection tells what it durably holds (`RecordInv`). The refinement of `ApplyContract` maps a step that sends to `Send`, one that ends the
call to `End`, every other to a stutter; `Provision` uses those very actions.

*Provision.* Keys and devices are tied by an assignment `own` of one device to each key, which exists
in every state (`HasAffinity`): a key stays its device's once it was made, and one not yet made may
become any device's. All that is filed under an id is then of one device. `RunInv` says what a run
between two of its steps may rely on of the device it read; `RowInv`, that a device's row is under
the id it reports or is found by the key of its pending file or Keys row (`RowFound`), and that there
is one such row (`OneRow`). A device whose key some step left without a record is `strayed`, and
`RowsAreTrue` claims nothing of it: an owner may install a key of their own, and a run the operator
forces may overwrite the only pending file of the key it replaces (`GivesUpKey`); if that run is
killed after the write and the device's firmware then derives a new id, nothing in the database
points from the old row to the device, and a later run gives it a second one. `Custody` is
`RecordedAtItsId` and its kin, one lemma per step that removes a file, a row or a key. It needs that
a device with a generated key is not taken for a factory-fresh one, which `~NamesVanish` says; the
run `provision_names` shows that it fails otherwise.

*OdsStore.* `TypeOK` and `LockHeld` (past the lock, one command at a time) are inductive alone.
`CheckedIsCurrent` is not: it needs that a command past its load sees a version that was the file's
(`ViewIsPast`), that equal versions mean equal content, that an absent file is empty
(`AbsentIsEmpty`), and that the purpose of a command fits where it stands (`RightPurpose`). The
refinement maps each step to one of `SharedFile` or a stutter, using the same invariant.

*Registry.* What a row says is kept if a command that gives a reference another key finds no row
naming it but those that `repointed` allows. `RegistryInv` adds to the parts of `RegistryIsSound`
that only nodes' and operators' references have private keys (`Bare`) and that an id without a row
has nothing a new row could take over (`GapsAreEmpty`). A row outside `repointed` names keys only
(`MeantRowsAreClean`), so it names no reference that is still free; and the rows that name a node
whose key no managed row and no template needs are those `Unprotected` lists
(`NamersAreUnprotected`): what `node_key_admin_refs` refuses and what it lets through is exactly
that. Each command is then a composition of steps with a lemma of its own: giving a reference a key
(`RekeyedIs`), registering what has none (`RegistersThem`), moving a row (`MovedIs`), writing the
planned one (`RecordIs`). An adoption registers its admin keys in a fold over the set of them; that
the fold exists and keeps what each step keeps is by well-foundedness of the strict subsets of a
finite set (`FoldExists`, `RegisteredIs`). The proof showed one step the model had wrong, out of the
bounds' reach: the reference that a provision's renumbering leaves behind (see `NoRefIsLost`) is
renamed like any other when its id is, so `DbRenumber` moves `strays` too.

*KnownGood.* `VerifiedIsOurs` follows from two facts every step keeps: a refresh in progress holds a
content that was loaded (`ReadIsLoaded`), and so does a sidecar that names this database
(`SidecarIsLoaded`); a copy whose hash matches such a sidecar is that content.

*Backups.* A prune compares names, the property compares lifetimes. The bridge is `InOrder`: of two
backups in the directory, one complete before the other was begun has the earlier time in its name.
To keep it while a backup is being made, `DraftLast` says the same of the draft: its time, chosen
past everything there at that moment, stays past all of that; what others claim meanwhile is not
older than the draft by the counters in `Counted`. `QuietMeansPruned` counts: leaving out the
backups somebody is about to unlink and those claimed by a command that has yet to list, no more than
the retention are left.

`ReplacedIsBackedUp` is false for more commands than the retention (see the bounds), so its theorem
has that one hypothesis. Backups made one after the other are told apart by their names, so a prune
can only go wrong among backups whose making overlapped; and those are few. `Crowd` says it: of every
moment, the backups begun and not yet claimed then, the drafts begun by then and the commands that
have claimed by then and not yet returned are no more than the commands. A prune that took the newest
backup of the current database would keep the retention's number, its own included, all named no
earlier; each was begun before any other was claimed (`InOrder`), and with the one taken they are one
more than the crowd (`PruneSpares`). So whatever is doomed is older than what a save relies on
(`Spared`), and the first to delete a backup of that leaves a newer one (`DeleteSpares`). What a save
relies on, from the name it chose on, is its own draft or a backup of the current content at least as
new (`Guarded`), and what stands for older content was begun before the last replace (`Marked`).

*HttpCache.* Two invariants over `Typed`. Cool-downs (`CoolInv`): what an instance was told is in its
memory or over (`Remembers`), and of a host it is asking it is over - a retry needs that, since it
checks nothing; what was stored and not lost is in the file or over (`FileKeeps`). Bodies
(`BodyInv`): only its receiver has a body before it is written (`NotWritten`), and one body is in no
two hosts' entries, nor with a command that called another host (`OneHost`), so evicting the entry
of the host one called evicts the body (`DroppedIsGone`).

*RegionStore, HistoryStore.* `Hours_proofs` says what merging an answer into stored hours and the
retention do to `Sound` hours: an hour holds what was heard in it until its as-of. `IInv` adds that
every hour no refresh will ask for again was written by one that asked when it was over, or has its
excuse (`Covered`), and that the recorded time never runs ahead of that. That it is stored like that
still is a second layer over it, `TInv`: as long as no two refreshes of a region crossed after the
hour began, a refresh that has something of it in hand is alone with the region (`Alone`), asked no
earlier than anything written of the hour (`Turn`) and read what is stored (`ReadAsStored`), so what is stored is the newest ever
written unless a bound has taken it (`Kept`). For hours in `overlapped` the theorems say only what
`IInv` does: they were written whole once. The bounds are a second
invariant over `IInv`: whatever a command has listed and is about to delete aside, the rest fits.

*DbVerify.* The check answers once, so the invariant is the answer's definition; what takes proving
is that its counting of holders of a key by cardinality, and by aliases, is the pairwise statement of
the property (`TwoAreTwo`), which needs the finiteness of a sheet.

*Loranet.* `CacheInv`: of every sound download, the cache still holds it or a later one, unless a
later download was no dump; so a download that is due tells that the last one is long enough ago.
`AnswerInv` and `PublishedInv`: an answer is what the index in memory parses to, and that index is a
dump the service published. What an entry says then follows for any entry of the shape
`ServingsAssumption` gives a dump (finite, of these fields): a latest time is the latest of what is
left of its parts (`LastSeenIs`), and the k-th usable neighbour exists because each usable place has a
rank of its own (`NthIs`).

*RelayMemory.* That a high resolution leaves no other (`SoleHigh`) is arithmetic: a candidate that
covers half of what was relayed leaves no other a third of its own coverage, and of two neither can
be farther than the other by a margin (`TwiceFarther`). It needs that the receptions at some gateways
are no more than at all, in whatever order a sum takes them (`TotalGrows`, `AnyLast`). Of the memory,
`MemoryInv` says what a run holds: what it is sure of it was sure of as of a fetch it saw, and what it
is about to replace it read as older, or too old to be read. The proof found the property too strong:
`learned_relays` drops an entry past its age before comparing, so an older one may then replace it,
and the three ticks the run had could not show it. The property now speaks of entries within their
age, and the run has four.

*NodeStatus.* The one step computes the report from what there is to know, so the invariant is that
the report shown is the one of the sight it was made of (`Reported`); what takes proving is that the
code's way of computing agrees with what the property says. Of an interval learned: that hours that
all gaps leave in between span at least, and no more than, so many gaps of a size, by induction on how
many there are (`Reach`), and what a mean rounded and capped then says of them (`Quotient`,
`LearnedIs`). Of a trend: among finitely many readings every rank is taken by one (`SomeHasBelow`), so
the median has half of them on either side (`MedianIs`). Of a merge: that the first of the latest
sources has the latest time of all (`LastSeenIs`). A quiet exit is then the absence of any line that
says otherwise.

*NodeHealth.* Again the report shown is that of the fleet it was made of (`Assessed`), and each of
its parts is compared with the property (`Said`): a node judged again from its refreshed history
stands as if it had been judged from that alone (`JudgedAnew`); the silence found is that since the
last sign of life of either kind (`SilenceIs`); a run of quiet hours is an interval, so its
cardinality is its length (`RunIs`); the newest fresh reading is the only one of its time
(`NewestIs`), so what is said of the battery is said of one reading (`BatteryCurrent`); sums are
numbers, by induction over the subsets of what is summed (`PositionsCount`). `ReliedOn` and
`FasterAffords` are the advice's conditions, `QuietHealth` the exit's.

*WeakKeys.* `ListInv`: a stamp in the cache was a file's (`StampsWereSeen`: of no later edit, and of a
size that file had, if it still has that time), so one that is a file's now stands for what it lists
(`MemoIsTrue`), unless a file came back to a time and a size it had had. Here too the proof corrected
the model: one edit, as the run had it, cannot bring a file back to an earlier size, and the property
excluded only a rewrite of equal size. The model now keeps the sizes a file had at its time, and the
run has two edits. That the search from one node and the fleet's agree (`Sharers`) needs a finite
fleet: of a set of more than one, each element has another.
`AuditsStayRight` is about keys of any size. The checks of the code look at a key as it is,
`Untrusted` says how one is made: that the distances between neighbours are all one step exactly
where the key is written from its first byte on (`RunIs`) needs an induction along the key, for which
the least byte that is off serves (`ByInduction`: the library's theorem takes an operator), and the
arithmetic of a byte (`BytesAre`); that too many bits are too few of the complement (`UnbalancedIs`),
that the two have all bits between them (`WeightsAddUp`), each bit of the one being the other's
opposite (`OtherBits`). The proof found `KeyIsJudged` wrong of a node whose private key equals its
public one: the code finds it inconsistent, and the property did not look at it.

*PeerSync.* `PeerInv`: what a run still has to do is part of the plan for what it saw (`PlanIsKept`);
while the device hears nothing new it is as the run saw it but for what the plan adds and pins
(`OnlyAsPlanned`), and the plan adds only screened keys; a quiet run has seen a device it would do
nothing to (`QuietIsDone`), and from an empty plan follows that all is pinned.

*Connecting.* `ConnectInv`: what was listed and asked fits the options (`Asks`, `ListsFit`: a forced
transport leaves the other list empty, a scan the ports), so what `select_backend` makes of it does
(`SelectIs`, which needs that more than one named target is refused, `FewNamed`), and the device
picked stays so (`Picks`); a device that was opened is left only past the start of its close
(`Closes`). `TargetsAreExact` is about texts of any length: what `parse_tcp_target` accepts is a host
without brackets and a port (`ParsedIs`), the one `]` of a shown target in brackets closes its host
(`BracketsReadBack`), and where the host has no colon, the last colon is the one before the port
(`PlainReadsBack`).

*DevicePlan.* A second plan is computed from what the first run left, so the proof goes part by part:
a name recorded without the white space around it is taken for the live one (`NamesStay`); a field,
module or channel that differed was written and one that did not still does not (`FieldsStay`, where
the lockdown asked for must be what the lockdown in force asks for again); the admin keys wanted of a
device that has them are those (`AdminsAre`); a key that is kept or was generated is sound, and its
row says where it came from, so nothing makes the second run replace it (`KeyIs`, `KeyStays`). What
refused the first would have refused it already (`AgainAccepted`). The proof found one claim of the
property false: a PIN that was drawn for a row without any is recorded when it is written, and it is
not written if the device happens to have it (`PinStays`). The property and the run now have that
case.

*Readback.* Each verdict is one of five kinds (`VerdictsAre`), told apart by section and field
(`PartsDiffer`). That a long name is taken for cut needs that the firmware keeps all but a part of one
character: what fits is greatest (`GreatestOf`), one character more is at most `MaxCut + 1` bytes more
(`CharMore`), so what is kept misses the limit by no more than `MaxCut` (`KeptIs`). That admin keys
compared by how often each occurs are the same but for the order is a bijection, put together of one
for each key (`Reordered`).

*RegionSearch, RegionList.* `SearchInv` says what each phase of a lookup knows: going through the
regions, that what was found is stale and no region already asked has a later record (`NoneLater`),
unless the search has ended at a record of today or one without a date (`EndedEarly`); and that what
was asked and what is still ahead are no more than the regions and the status. `ListIsSpared` is
inductive as it stands.

Only model-checked: liveness (`Terminates`, `Heals`, `Converges`), which is out of the proof
system's reach; `ReplacedIsBackedUp` of `Backups` without the hypothesis of its theorem;
`SheetsAreWhole`; in `network` all but `RelayMemory`, `RegionSearch`
and `RegionList`; and `NamesAreRight` of `fleet`. Of these, what a pure
function computes over bounded inputs (`RelayGraph`'s reference
definitions, `Sheets`) is compared exhaustively there; sums and folds
(`NodeNames`, `RegionTraffic`) would need, like the folds of `Registry` and `RelayMemory`, an
induction of their own over sets for all inputs; those over sequences and recursive definitions are
out of reach.

## Inventory

State, operations, interactions and difficulties of every part; what makes it correct.

| part | state | operations and difficulty | correct when |
|---|---|---|---|
| apply (`provisioning/apply*`, `device_write`, `repair`) | a session, a device's transaction | sectioned writes, commit, reboot, reconnect, read-back; failure at every call | see `ApplyPlan`, `Readback` |
| provisioning session (`cli/provision*`, `provisioning/plan*`, `persist`, `renumbered`, `detect`) | rows, keys, pending file, device | plan, write ahead, apply, save, clear; crashes | see `Provision`, `DevicePlan` |
| name allocation (`pipeline.allocate_names`, `name_pattern`) | used names | next free name of a pattern; exhaustion, letter case | see `NodeNames` |
| admin custody (`plan_admin_keys`, `admin_custody`) | admin references | choose up to three keys for a device; foreign keys on the device | see `DevicePlan`, `Registry` |
| adoption, key registry (`adopt`, `key_registry`) | Keys sheet references | adopt a device, canonical reference of a key | see `Registry` |
| admin import, bootstrap (`cli/admin`, `cli/init_cmd`, `cli/setup`) | template, Keys sheet | import an admin key, create the database | see `Registry` (import only) |
| peers (`peers`, `cli/peers*`) | a device's node database | add and remove contacts one by one | see `PeerSync` |
| connection, discovery (`connection`, `discovery`, `cli/transport`) | open interface | list, ask, connect, close | see `Connecting` |
| database store (`ods`, `locking`, `atomic_writer`) | file, lock, in-memory sheets | load, check, save; other programs | see `OdsStore` |
| known-good (`known_good`) | copy, sidecar | lock-free refresh, restore | see `KnownGood` |
| backups (`backups`) | directory of timestamped copies | create, prune to retention, list; concurrent creation | see `Backups` |
| pending keys (`pending_keys`, `fs_primitives`) | one file per node | write, load, clear, move; stale temporaries | see `Provision` |
| codecs, sheets (`schema`, `ods_read`, `ods_write`, `node_record`, `nodes`, `keys`, `sorting`, `cell_validation`) | rows | parse, validate, upsert, sort | see `Sheets` |
| verify (`verify`, `cli/db_cmd`) | none | checks across sheets | see `DbVerify` |
| HTTP cache (`cache/http`) | entry files, cool-down file | fetch, retry, evict; several processes | see `HttpCache` |
| network statistics (`network/*`) | hour files, relay memory, key store | merge, sweep, resolve relays, graph, impact | see `RegionStore`, `RelayGraph`, `RelayMemory`, `KeyScan`, `RegionTraffic` |
| health statistics (`health/*`) | history files | merge, sweep, rules | see `HistoryStore`, `NodeHealth` |
| status (`status/*`) | none | merge sources, cadence, trend | see `NodeStatus` |
| data sources (`datasources/*`) | region memo, list, dump | fetch, page, parse | see `RegionSearch`, `RegionList`, `Loranet` |
| keys (`crypto/*`) | blocklist cache | generate, audit, redact | see `WeakKeys` |
| configuration (`config/*`) | settings, template | read, validate, trust an `.env` | - |
| command line, rendering | none | parse, print | - |

Hazards, each at its line with the properties that cover it, are listed in `PROJECT.json`.

## Not modelled

- Encoding, decoding and arithmetic of keys; the text of device backup files; settings, templates and
  `.env` files: pure functions of a text, without a state that another step could find changed.
- Command line, rendering, logging, exception classes; the note `maintenance.py` prints; the rows of
  the relay table, radio levels, positions; field-level parsing of packets.
- `init` and the setup's questions, which only create files that were not there; the sweep of stale
  temporary files, guarded by an age that nothing running reaches.
- An HTTP clock that is set back, body and host limits, redirects; what `mesh` reads from a directory
  of an older version.
- The scan of radio bands itself, and the Meshtastic library beyond what its calls return or raise.

## Plan

1. *Done*: every module above, their runs, eight proof modules.
2. *Next, proofs*: the sightings of `KeyScan`; the book's own steps of `Sheets`.
3. *Open*: the composition of a whole session with `Registry` at the grain of `Provision`'s steps (a
   kill between a fleet-wide save and the clearing of a pending file).
