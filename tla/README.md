# Traffic Cone: TLA+ specifications

Traffic Cone keeps client certificates and SSH keys in an encrypted store. A
daemon, `coned`, signs with them on behalf of other programs; the `cone` command
line tool manages the store. This directory holds TLA+ models of the parts where
order, concurrency and failure matter, TLC configurations that check them on
small instances, and TLAPS proofs of what matters most for every instance.

All paths below are relative to the repository; line numbers are those of the
commit the models were written against.

## 1. The system

| Component | Source | State | Operations |
|---|---|---|---|
| Start-up | `crates/coned/src/main.rs`, `hardening.rs` | the step it is at | seven steps, each may fail; spawns two threads and joins them |
| IPC server | `crates/coned/src/ipc.rs` | listener, the connection it serves | ping, status, lock, list, sign: one request per connection, from a verified peer |
| SSH agent | `crates/coned/src/ssh_agent.rs` | listener, the connection it serves | identities, sign: any number of requests per connection |
| Store state | `crates/cone-store/src/store.rs` | locked, or unlocked with a connection and the passphrase | unlock, lock |
| Store files | `store.rs`, `db.rs`, `crypto.rs` of `crates/cone-store/src` | the salt file, the encrypted database, its schema version | first run, open, migrate |
| Routing | `crates/coned/src/routing.rs`, `resolve_route` in `cone-store/src/list.rs` | none of its own: reads tables, `/proc` and the monitor | which certificate a PID is to present |
| Process monitor | `crates/coned/src/process_monitor.rs` | cache of process entries by PID | resolve, get_connections, invalidate, cleanup_stale |
| Tables | `crates/cone-store/src/db.rs`, `list.rs`, `import.rs`, `export.rs` | certs, keys, apps, routes, (ca_certs, ssh_keys, ssh_routes, integrity, audit_log) | import, remove, add, backup, restore |
| Integrity | `crates/cone-store/src/integrity.rs` | the table integrity; the daemon's map of known hashes | record, verify_all, load_known_hashes |
| PKCS#11 module | `crates/cone-p11/src/` | the list of certificates, the find position, the signing key, one cached connection | C_* calls, from any thread of the host program |
| CLI | `crates/cone-cli/src/` | none | one command per process |

How they interact:

- The two servers run on threads of their own and share one `Arc<Mutex<Store>>`.
  A handler takes the guard with `lock().unwrap()` and drops it before it writes
  the answer. A panic under the guard poisons the mutex.
- The IPC server asks the process monitor which binary its peer runs, and for a
  sign request which binary the named PID runs; the monitor caches.
- The CLI is another process. Almost all its commands open the database
  themselves, so they share tables with the daemon, and with each other, through
  SQLite. No command opens a transaction.
- Every process that works on the store unlocks it for itself: it reads the salt
  file or makes it, opens the database and migrates it. Two of them may do so at
  the same time, the first time too.
- Package scriptlets record hashes in the store; the daemon checks them once, when
  it starts, and from then on accepts peers by the map it loaded.
- The PKCS#11 module is loaded by other programs (browsers), all of whose threads
  share its state and its one connection to the daemon.
- The operating system moves between any two reads of `/proc`.

What is hard here: a lock arriving while another thread signs; threads that wait
for clients without a timeout; panics under a mutex; a start-up whose order is
its safety; PID reuse, exec and upgrades between reads; tables that change
between the queries of one look-up; commands that stop between two statements and
are run again; a first run that is cut off or overlaps with another one; an answer
that is left in a connection, or read by another thread; a binary that is replaced
or recorded while it is checked. `PROJECT.json` lists these hazards line by line with the
properties that cover them.

Correctness, component by component:

- Start-up: no secret before the hardening, no socket before the checks.
- Servers: to their clients the two of them are one service that handles a request at
  a time; no key in memory without the guard of an unlocked store; nothing
  signed that was asked after a lock; requests of clients that hang up at last are
  settled whatever others do, but for a thread that loses every race for the store;
  no server waits for the other in vain; who has run no registered program is not heard.
- Routing: the answer is a best route of the table for the connection it is for, as
  the tables were at one instant of its look-up; no removed route is used.
- Monitor: an answer about a live process is of a binary that it ran, in no older
  version.
- Store files: only the passphrase the store was made with opens it, and it does
  after any crash; an unlocked store has its whole schema.
- Integrity: a hash the daemon accepts was on disk in the course of its check, and so
  was the hash of a record that is marked as verified. (Not every such record was
  compared: the code lets through what is recorded during the check.)
- PKCS#11: an answer is to the call's own request; a search finds every object; no
  calls wait for each other, and a call that does not return waits for coned or is
  passed over by other threads for ever.
- Tables: references hold; an id never gets another row; a certificate has its key; a
  restore brings back all that the backup has, takes nothing away and fails for two
  reasons only.

## 2. Modules

| Module | Models | Kind |
|---|---|---|
| `SigningService` | what the daemon promises: one request at a time, against a store that is open or not | abstract specification |
| `Coned` | start-up, IPC server, SSH agent, store state, clients, systemd | component; refines `SigningService` |
| `RouteMatching` | candidate, specificity, better | operators |
| `RouteChoice` | what one look-up promises, in one step | abstract specification |
| `RouteResolution` | `resolve_for_pid` and `resolve_route`, query by query, against the CLI | component; refines `RouteChoice` |
| `ProcessMonitor` | the monitor and its cache against the operating system | component |
| `ConeStore` | the commands of the CLI on the tables, statement by statement | component |
| `Vault` | what unlocking the store promises | abstract specification |
| `StoreUnlock` | `Store::unlock`, by several processes that may be cut off | component; refines `Vault` |
| `Integrity` | `record`, `verify_all`, `load_known_hashes` while binaries are replaced | component |
| `P11Module` | the `C_*` functions of `cone-p11` on several threads, and their connection | component |
| `MC*` | model values, symmetry sets and tables for TLC | model checking |
| `*Proofs` | theorems of the seven components; `StoreAloneProofs` has those of `ConeStore` that need one command at a time | proofs |

Operators named as mutants in comments are plausible bugs: each is put in place of
the definition below it to see that the property meant to catch it does.

### Coned

State: the step of `main` and the checks `passed`; `unlocked`, `mutex`,
`poisoned` for the shared store; `pc`, `client`, `reply`, `key` for each server
thread; `backlog`, `conn`, `ask`, `ans` for the sockets; the ghosts `late` (the
request in `ask` was sent when the store was locked) and `ran` (what the peer of an
IPC connection has run). A connection stands for its client too and is used once; an
IPC connection has one request, an SSH connection any number.

| Code | Actions |
|---|---|
| `main` steps 1-6 | `StartupStep`, `StartupFails` |
| `main` step 7, joins | `Spawn`, `MainReturns` |
| `bind_abstract_socket`, `listener.incoming()` | `Bind`, `BindFails`, `Accept` |
| `get_peer_credentials`, `verify_traffic_cone_binary` | `PeerCredFails`, `Verified`, `Rejected` |
| `read_request`, `Ping`, a request that does not parse | `IpcRead` |
| `store.lock().unwrap()`, end of the guard's scope | `TakeStore`, `TakePoisonedStore`, `Release` |
| the arms of `handle_connection` | `IpcStatus`, `IpcLock`, `IpcList`, `IpcLoadKey`, `IpcCannotSign`, `IpcSign`, `IpcSignPanics` |
| `send_response`, end of the stream's scope | `IpcReply` |
| `handle_message`, its two handlers | `SshRead`, `SshDrop`, `SshIdentities`, `SshLoadKey`, `SshCannotSign`, `SshSign`, `SshReply` |
| `Restart=on-failure` | `SystemdRestarts` |

The guard is dropped after the key: in `sign_data` the key ends with the
function, in `handle_sign_request` it is declared after the guard. Therefore
`IpcSign` and `SshSign` clear `key`, and `Release` is a later step. An IPC
signature may panic because `sign_rsa` uses `Signer::sign`, which panics if the
key is too short for the digest, and `detect_key_algorithm` accepts an RSA key of
any length; the SSH agent never signs with RSA, for `list_ssh_keys` gives every
key the algorithm Ed25519.

What the tables hold is left to nondeterminism: a sign request is signed or
refused, a list is full or not. `Registered` are the connections whose peer has
the daemon's uid and first runs a program with the path and hash of an integrity
record; which records there are is data of the store (the source has
`integrity::record` for an installer to call and no command that calls it). A peer may
change its program at any time (`PeerChanges`: it execs, exits and leaves its PID to
another process, or is upgraded), and `verify_traffic_cone_binary` may find any program
it has run, the last one or one that the monitor has cached; `ProcessMonitor` has the
reads of that look-up. So `Verified` needs a peer that has run a registered program,
`Rejected` one that has run another or is gone. What is promised is about peers that
never ran a registered program. One that was verified and has become something else by
the time its request is read is heard (`ipc.rs:180`). In the same way the SSH agent is
modelled for stores that have SSH keys, although the command that would add one
is still a TODO. Abstract socket addresses are not modelled: a connection reaches
its server.

`SigningService` has what clients can tell: whether the service has begun and its
store is open, and per connection the request, the answer decided and the answer
delivered. The store is opened before the service begins, and then no more.
`ImplementsService` maps to them: `serving` is `main` having spawned its threads, `open`
is `unlocked`, `ask` and `ans` are the sockets, and the answer decided on a connection is the `reply` of the thread whose
client it is (`Due`). So the step that builds an answer, under the guard if it is
about the store, is `Handle`, the instant at which the request takes effect; writing it is `Deliver`;
accepting, verifying, taking and dropping the guard and loading a key are
stuttering. A server that drops a connection, panics or ends is `Lose`, the end of
the process `Stop`.

### RouteMatching, RouteChoice, RouteResolution

State: the tables `routes` and `apps`; the request `proc` and `conns`; `at`, the
connection being tried; the loop's `listed`, `app`, `k`, `best`; `chosen` and
`outcome`. `seen` and `then` are ghosts: the routes there have been since the request
began, and the id the app had when the routes were listed.

| Code | Actions |
|---|---|
| `resolve_for_pid` steps 1-3 | `Start` |
| `list_routes`, `list_apps`, their errors | `ListRoutes`, `ListApps`, `QueryFails` |
| the loop of `resolve_route` | `Scan` |
| its result, steps 4 and 5 | `Found`, `NextConn`, `Refused` |
| `cone route add`, `route remove`, `app add` | `RouteAdd`, `RouteRemove`, `AppAdd` |

Rows with equal priority and creation time come in any order (`ListsOf`): SQLite
promises none. `TwoQueriesActAsOne` says that `list_apps`, though it is a second query
and the CLI writes in between, answers as if it had been one with `list_routes`: an app
that is added in between has an id no listed route can have, and no command changes
the id of an exe. A route with `require_both` and no pattern is a candidate in step 5
and for any address: a NULL half always matches (`list.rs:333`). `remote_host` is always `None` in the daemon, so a host name
pattern never matches; `cone test`, which passes one, is not modelled. The CLI
writes no `ip_cidr` row; the operators have the case, with `Covers` for its
string test, and the configurations leave `Covers` empty.

`RouteChoice` says: a question, which is the table as one query listed it, an app
and an address, is answered in one step by the first of the best candidates, or by
none. `ImplementsChoice` is the refinement, with `Question` for `question` and
`chosen` for `choice`.

### ProcessMonitor

State of the world: `clock`, `proc` (alive, start time, path, version it runs),
`disk` (version of each binary), `net`; ghost `ran`, which process ran which binary in
which version. State of the
code: `cache`, and `pc`, `pid`, `start`, `exe`, `hash` for each thread in
`resolve`. Each read of `/proc` or of a file is a step (`ReadStat`, `ReadExe`,
`HashFile`), so is each use of the cache under its mutex (`CacheHit`,
`CacheMiss`, `Insert`); the world moves between them (`Spawn`, `Exit`, `Exec`,
`Replace`, `Dial`). A hash is the version of the file it was taken of.

Every read of `resolve` may fail, the hashing included (`ReadFails`). `coned` calls
`resolve` from its IPC thread alone; the instance has two threads because `ProcessMonitor`
locks its cache for any number of callers, and the theorems hold for all of them.

One assumption is the code's own (`process_monitor.rs:185`): a PID that is reused
has a new start time. `Spawn` ticks the clock each time.

### ConeStore

State: the tables `certs`, `keys` (rows per certificate), `apps`, `routes`; the
backup `file`; for each running command its next statement `pc` and what it has
in hand. `onEmpty`, `misread` (a look-up of the restore failed), `gone` and `torn`
(certificates whose command was cut off before their key) are ghosts. Each SQL statement is an action, for
SQLite makes one statement atomic and no command opens a transaction. A statement
that meets a UNIQUE or REFERENCES constraint ends the command and leaves its
earlier statements in place; `Fail` is any other end (a busy database, a full
disk, a kill); `Wipe` is the machine wipe that a backup is for. One error does not end
its command: a restore whose `SELECT COUNT(*)` fails takes the row for absent
(`unwrap_or(false)`, `export.rs:248`) and goes on to the INSERT (`LookUp`).

Left out: `ca_certs`, `ssh_keys`, `ssh_routes` (no command fills them, so they are
empty in every backup too); labels (not unique: a look-up may return any row, and
so the actions take any); parsing and encryption, which come before the first
statement; the text of `audit_log` (its INSERT is kept, since it may fail after
everything else is done). The id of a new route is drawn when its command starts
rather than just before the INSERT: ids are random, so only being new matters.
`create_backup` writes its audit row before the caller writes the file, and so do
`Audit`, `EmptyFile` and `WriteFile`: `fs::write` empties the file before it writes, so
a kill in between, `Fail`, leaves no backup.

### StoreUnlock, Vault

State: the files, which are `salt`, the key `dbKey` the database is encrypted
with, `schema` and `tables`; for each process in `unlock` its step `pc`, passphrase
`word` and salt in hand `mine`. A key is a pair of passphrase and salt, for Argon2
gives two keys for two pairs; a random salt is one that nobody has. `raced` is a
ghost: two processes were between `exists()` and the end of `write()` at once.

| Code | Actions |
|---|---|
| `load_or_create_db_salt` (`store.rs:88`) | `SaltExists`, `ReadSalt`, `CreateSalt`, `WriteSalt` |
| `db::open` | `OpenDb`, `Wal` |
| `migrate`, `migration_001` | `VersionTable`, `VersionRow`, `ReadVersion`, `CreateTable`, `SetVersion` |
| `Store::unlock`, `lock`, drop | `Unlock`, `SetVersion` or `ReadVersion`, `Lock` |
| an error of a step, a kill | `CutOff` |

`std::fs::write` creates or empties the file before it writes, hence two steps. An
empty database takes any key, and `PRAGMA journal_mode` is the first statement to
write to it, so whoever gets there first owns it. `Vault` has an owner, who is the
first to make it, and an `Unlock` that only the owner's passphrase gets through.

### P11Module

State: the list `certs` (its length), `signHandle`, `position`, and who holds the
mutexes `STATE` and `CONNECTION` (`stateBy`, `lineBy`); the cached connection
`conn` as a stream; per thread `pc`, `call`, `asked`. `mixed`, `disorder`,
`search` and `found` are ghosts of what the host did: whether requests overlapped,
whether `C_Finalize` overlapped with another call, and what a search that nobody
disturbed has found.

| Code | Actions |
|---|---|
| the host calls a function | `Call` |
| `C_Initialize`, `C_FindObjectsInit` (`pkcs11_impl.rs`) | `LockState`, then an exchange, then `Rewind` for the second |
| `C_FindObjects`, `C_SignInit`, `C_Sign` | `FindObjects`, `SignInit`, `Sign` and an exchange |
| `C_Finalize` | `HangUp`, `Clear` |
| `get_connection`, `send_request`, `recv_response` (`ipc.rs`) | `Connect`, `Send`, `Receive`, `Read` |
| the daemon (external) | `DaemonAnswers`, `DaemonCloses` |

`CONNECTION` is locked for each of the four steps of an exchange and free between
them, while the listing functions hold `STATE` over the whole exchange. What coned
does is left open, within what `Coned` has it do: one answer, of any kind, and
then it closes. The functions that read the state and give it out (attributes, slot
and token data) change nothing and are left out, and with them the sessions, whose
handles the module does not check.

### Integrity

State: `disk`, the build each binary is of; the `rows` of the table; the row
`record` has hashed and not yet inserted; for the daemon and for `cone verify`
where they are in the check, and the ids still to compare; `known`, the daemon's
map. The ghosts `had` and `pending` are the builds a binary has had in the course of a
check, and what `record` had hashed and not inserted when the check listed the rows. A
check stands for a record (`Stands`) if its hash is one of `had`, or of `pending`.

| Code | Actions |
|---|---|
| `record`, called by an installer | `Hash`, `Insert` |
| `list_records`, `verify_record`, the `UPDATE` of `verify_all` | `List`, `Compare`, `Stamp` |
| `load_known_hashes` (`list_records` once more) | `Load` |
| a failed check, the end of a process | `Compare`, `Ends` |
| package manager, anything else | `Replace` |

## 3. What TLC checks

Every run that passes finishes its whole state space. Sizes are distinct states.

| Run | Instance | Shows | States |
|---|---|---|---|
| `coned_safety` | 1 registered IPC client, 1 stranger, either of which may change its program, 1 SSH client with any number of requests; all faults; 1 restart | `TypeOK`, `SecretsOnlyAfterChecks`, `StrangersAreNotHeard`, `KeyOnlyUnderGuard`, `OnlyClientsKeepServersWaiting`, `NoSignatureAfterLock`, `ImplementsService` | 2.8M |
| `coned_live` | 1 IPC client, 2 SSH clients that may ask without end, signatures may panic | `SshRequestsSettle`, `IpcRequestsSettle`, `LockTakesEffect` | 410K |
| `route_lookup` | up to 3 routes out of 7, 2 apps, 2 connections, 1 change of the tables | `TypeOK`, `AnswerIsWholeTable`, `NoRouteOfThePast`, `TwoQueriesActAsOne`, `ImplementsChoice` | 1.3M |
| `monitor` | 2 threads, 1 PID used twice, 2 binaries, 1 upgrade each, 1 address | `TypeOK`, `AnswerIsOfThisProcess` | 3.0M |
| `store_alone` | 1 command at a time, 2 certificates, 3 ids, failures | `AtMostOneKey`, `BackupIsClosed`, `RestoreFailsOnlyIfRenumbered`, `RestoreIsComplete`, `IdsAreForGood` | 313K |
| `unlock` | 2 processes, 2 passphrases, 2 salts, 2 tables, 2 processes cut off | `TypeOK`, `UnlockedSeesSchema`, `OnlyWrongPassphraseFails`, `ImplementsVault`, `OpensAgain` | 142K |
| `p11` | 2 threads, 2 things to sign, lists of up to 2 certificates, batches of 1 or 2 | `TypeOK`, `OwnAnswer`, `SearchIsComplete`, `WaitsEndAtDaemon`, `CallsReturn` | 352K |
| `integrity` | 2 components of 2 builds, 2 rows, both checkers | `TypeOK`, `KnownWasOnDisk`, `StampsAreEarned` | 4.4M |
| `store_two` | 2 commands at a time, 1 certificate, 2 ids, failures | `TypeOK`, `NothingDangles`, `CertsHaveKeys`, `ImportedStays`, `RestoreOnlyAdds` | 3.5M |

Why the bounds are enough. Two server threads is all there is. Requests on an SSH
connection have no bound: they come before, during and after the IPC client's lock, and
without end. IPC clients are served one after the
other with one request each, so a second registered one would wait behind the
first; the theorems of section 4 hold for any number of them. A stranger differs from
another stranger in nothing. A queue of one is full with one client waiting. Seven
kinds of route are all that `cone route add` can write, up to the values of names;
a tie needs two of them and a third to be between. A PID used twice has one
process whose start time, path or hash is out of date and one that it can be taken
for. Two certificates and a route, or one with an application and a route, are
what a torn or partial restore needs, and so is a row that was removed and added
again under the third id. `store_two` has two ids, so it never holds a certificate, an
application and a route at once; the theorems of `ConeStoreProofs` have any number. A
third command at the same time would
repeat what the second does. Two processes are enough for a race on the salt file,
and two faults for a first run that is cut off and a second one after it. A salt is
drawn only while there is no file, so the two that two processes can have in hand are
all there are to tell apart. A migration of two
tables can be cut off before, between and after them. Two threads make every
overlap of two requests, and a list of two certificates (four objects) in batches of
two ends on the edge of a batch and inside one. Two rows of the table are two
components, or an old and a new record of one, which is how upgrades leave it.

The system may stop (a client that does nothing more, ids used up), so the
`Coned` and `RouteResolution` configurations have `CHECK_DEADLOCK FALSE`.

### Fairness

`FairSpec` of `Coned` is weak fairness of `main` and of each server thread: the
kernel schedules runnable threads. The daemon can do no more for a client that
connects and never sends, so a liveness property names the clients it needs to be
polite, as a hypothesis: `Polite(C)` says that each client in `C` hangs up at last; it
may send as many requests as it likes before, and it waits for an answer as long as it
takes (strong fairness of `HangUp` when it has no request out, because a client that
asks again and again has none only now and then). `SshRequestsSettle` assumes nothing
of IPC clients, and `IpcRequestsSettle` and `LockTakesEffect` nothing of SSH clients:
they may send signature requests without end.

No fairness of the mutex is assumed, for Rust's promises no order. So a thread may wait
for the store for ever while the other one takes it again and again, and a Lock request
may wait for ever behind an endless stream of SSH signatures (`ipc.rs:198`). The
properties say that this is all: `Starved(t)`, a thread that wants a guard that is free
again and again, is the one thing other than the clients named that can keep a request
waiting. `LockTakesEffect` also lets go of a client that has hung up or is no longer what
was registered, and of an IPC thread that died. An instance has finitely many
connections; each of them is an endless source of requests on the SSH socket, and on the
IPC socket one request.

`FairSpec` of `StoreUnlock`: a process in `unlock` goes on, and one that has the store
open does not keep it for ever; a user gives every passphrase again and again.
`OpensAgain` is about such a user. Of `P11Module`: the threads go on when they can
(weak fairness of each thread's `Step`), and nothing else. Neither the mutexes nor
the daemon are assumed fair, and coned need not answer: its IPC server waits for ever on
a verified client that is idle (`ipc.rs:180`). So that every call returns is not claimed.
`CallsReturn` says of a thread whose call does not that coned leaves a request
unanswered or an answered connection open for ever (`Abandoned`), that other threads
take a mutex before it again and again (`Starved`), or that the host called `C_Finalize`
while another call was on, against PKCS#11 (`disorder`: then a thread that waits for
an answer with `CONNECTION` held can keep `C_Finalize` waiting, and a thread that comes
late can wait on a connection nobody has sent anything on). What it excludes is that the
module's own locks, a closed connection or what an earlier call left in it keep a call
for ever.

### Where documents and code disagree

| Run | Violated | Statement |
|---|---|---|
| `coned_ssh_idle` | `EachSshClientIsServed` | `crates/coned/src/ssh_agent.rs:5`: answers exactly as ssh-agent would. One idle connection stops all others. |
| `route_highest` | `HighestPriorityMatch` | `crates/coned/src/routing.rs:68`. The first connection with a match wins. |
| `store_restore_over` | `RestoreSkipsExisting` | `crates/cone-store/src/export.rs:222`. The routes of a skipped certificate fail. |

Other disagreements, plain from the source and without a run of their own:

- `README.md:120` has the binaries verified before the store is unlocked; `main`
  unlocks in step 4 (`main.rs:71`) and verifies in step 5, from records that are
  in the store. `SecretsOnlyAfterChecks` states what does hold.
- `main.rs:154`: the servers "run until the process is killed". When both binds
  fail, or both threads panic, `main` returns `Ok` and `Restart=on-failure` does
  not start the daemon again.
- `routing.rs:95`: an app-only route "matches any connection from this app". Without
  `require_both` it is a candidate for every process (`list.rs:352`).
- `ARCHITECTURE.md:382` ranks app above host at equal priority; both have
  specificity 1 (`list.rs:357`), and the older route wins.
- `ARCHITECTURE.md:376` compares the binary with the hash its app was registered
  with; the app is found by its path alone (`list.rs:320`).
- `process_monitor.rs:27` invalidates an entry when its hash no longer matches,
  and `SECURITY.md:95` verifies the hash on every request; a hit compares start
  times only, so an exec or an upgrade goes unseen.
- `process_monitor.rs:101`: `/proc/PID/net/tcp` lists the sockets of the network
  namespace, not those of the process.
- `process_monitor.rs:43`: the start time is read first, the binary after it, so an
  entry may have the start time of one process and the binary of the next. Whoever
  asks about a live process never gets that entry (`CacheIsOfLiveProcess`); who asks
  about one that has just gone may.
- `export.rs:222` once more: an existing entry is skipped only if its look-up succeeds.
  `unwrap_or(false)` (`export.rs:248`, `:334`) takes an error, of a database that is busy,
  for "not there", and the restore ends at the UNIQUE constraint of the row that is.
- `SECURITY.md:43` rejects any other process "before a single byte of the request is
  read". A process that was verified may exec another program before its request is read
  (`ipc.rs:130`, `:180`), or leave its socket to one, and that one is heard.
- `cone-cli main.rs:311` writes a backup over the old one in place: the old one is gone
  before the new one is written, so a kill in between leaves none. Two backups to one file
  at once may leave a mixture.
- `README.md:107`: "certs already in the DB are skipped". A certificate that lost its
  key to a command that was cut off is skipped too, and does not get it back; nor can it
  be imported again before it is removed (`CertsHaveKeys`).
- `README.md:25`: a backup is of the whole store. It reads the tables one after
  another (`export.rs:405`), so a certificate imported meanwhile may be in it
  without its key.
- `store.rs:43` and `cone-cli main.rs:592` take a failed key check for a wrong
  passphrase. Two first runs that overlap each write a salt, and the database is
  made with one of them: if the other one stays in the file, no passphrase opens the
  store again. `OnlyWrongPassphraseFails` says that it needs such a race. A first run
  that is cut off between creating the salt file and writing it leaves the file empty,
  and `derive_key` refuses an empty salt for ever (outcome `shortsalt`): `main.rs:592`
  asks "wrong passphrase?" of that too, and only deleting the file helps. `OpensAgain`
  leaves both out of its premise.
- A restore under another master passphrase reports success and inserts keys that
  the store cannot decrypt (`export.rs:122`, `export.rs:289`).
- `integrity.rs:28` has INSERT OR REPLACE, which with a fresh id replaces nothing.
  After an upgrade is recorded, the old row stays and `verify_all` fails on it until
  it is deleted by hand; `main.rs:98` then tells of binaries that were changed.
- `integrity.rs:47` stamps "all passing records": the UPDATE has no WHERE, and a
  record inserted during the check is stamped unchecked, and `load_known_hashes`, which
  reads the table again (`main.rs:110`), accepts it. Its hash is one that was on disk
  during the check, or just before it if the record was under way when the check began
  (`StampsAreEarned`, `KnownWasOnDisk`). A binary that is replaced once it was compared
  goes unseen.
- `cone-p11 ipc.rs:80` says that its types "must match ... exactly" those of coned.
  Its `CertInfo` has a field `cert_der` that coned's `CertSummary` (`coned
  ipc.rs:90`) does not send, so a list that is not empty does not decode.
- `cone-p11 ipc.rs:126` locks the connection anew to read the answer, so of two threads
  that have sent a request either may read the other's answer. `OwnAnswer` is about calls
  whose requests do not overlap.
- `cone-p11 ipc.rs:15` and `:118` reconnect on demand: a connection that coned has
  closed stays cached, and every request on it fails until `C_Finalize`.
- `client.rs:55` and `cone-p11 ipc.rs:32` hand `UnixStream::connect` a name with a
  NUL byte, which it refuses, while the server puts a second NUL in front of the
  name. `P11Module` leaves open whether a connection succeeds.

## 4. What is proved

Each theorem is `Spec => []P` (or `[][A]_vars`, or a refinement) for all values
of the constants that satisfy the named assumptions of the modules.

**ConedProofs** (`ConnsAssumption`, `BoundsAssumption`): `TypeCorrect`,
`KeyIsUnderGuard`, `BlockedThreadsHoldNothing`, `NothingSignedAfterLock`,
`LockLasts`, `SecretsWaitForChecks`, `StrangersStayUnheard`, `ServersAreOneService`,
`ServersDoNotBlockEachOther`. The invariant `IndInv` joins `TypeOK` with: where `pc`
says a thread holds the guard, `mutex` says so too; a key implies the guard and an
unlocked store; a reply or an answer that is a signature belongs to a request that was
not late. `NoSignatureAfterLock` alone is not inductive: it needs to know that a
thread that signs still has the store unlocked, thus that nobody locked it since
the key was loaded, thus that it held the guard. The others have invariants of their
own on top of it:

- `SecretsWaitForChecks`: `StartInv`, the checks that have passed are those before the
  step `main` is at, whatever the servers do, for they never write to it.
- `StrangersStayUnheard`: `NotHeard`, a peer that has run no registered program is being
  verified, or about to be answered `rejected`; what a peer has run only grows
  (`RanGrows`).
- `ServersAreOneService`, the refinement of `SigningService`: `ServiceInv`. A thread
  has an answer exactly between building and sending it (`OwedInv`), an answer that is
  no rejection is owed to a request (`AskedInv`), and a client has at most one answer
  in front of it (`TurnInv`), so that `Handle` and `Deliver` happen once for a request
  and in this order. That a signature is decided while the store is open is
  `KeyInv` of `IndInv`: the thread has kept the guard since it looked. That the store
  is open when the service begins and not opened later is `OpenInv`. One lemma for
  `main`, one for the clients and one for each server map their actions.
- `ServersDoNotBlockEachOther`: `WaitInv`. A connection is in one place of one server
  (`QueueInv`), what a thread wants the store for it can answer there (`HandledInv`),
  and `main` joins only threads it has started (`JoinInv`). With the guard held only
  where a thread can go on, whoever waits for it waits for one step of the other.
  This is the part of `IpcRequestsSettle` and `LockTakesEffect` that is not about
  fairness.

**RouteResolutionProofs** (`RoutesAssumption`, `RowsAssumption`,
`BoundsAssumption`): `RouteTypeCorrect`, `LoopKeepsTheBest`,
`LookUpsAreAtomic`, `LoopImplementsChoice`, `ThePastIsForgotten`,
`NoRouteIsOverlooked`, `HighestOnOneConnection`. `RInv` is `TypeOK`, `BestSoFar`
and three facts about the control: the loop starts at the first
route with none kept, nothing is chosen while a look-up runs, and only a request
that is done has a certificate.
That `BestSoFar` (the loop keeps the first of the best candidates of the rows it has
seen) survives one turn of the loop rests on `Better` being a strict
weak order, which is a lemma. The refinement has one case per action: the last
turn maps to `Decide`, `ListApps` to `Ask`, a new request to `Forget`, the rest to
stuttering. `PastInv` adds that the list holds only routes seen since the request
began. `LookUpsAreAtomic` rests on `OneInv`: the app listed is the one of the time of
`list_routes`, or one of which no route listed can be (`Agrees`), because every route
listed refers to an app of that time and ids and binaries are unique (`KeysInv`).
`StillInv` is about tables that nobody has changed: the list has every route
of the table (a list without repetition that is as long as the table is large, by
the pigeonhole theorem of `FiniteSetTheorems`), the app is the only one with that
binary, and no route is a candidate for a connection already tried.
`HighestOnOneConnection` delimits what the run `route_highest` refutes: with one
connection at most, the answer does have the highest priority.

**ProcessMonitorProofs** (`BoundsAssumption`): `MonitorTypeCorrect`,
`CacheIsNeverMixed`, `AnswersAreNeverMixed`. `MInv` says of a thread between its
reads: if the process whose start time it read is still there, what it has read
since is of that process, and the version it has hashed or is about to hash
(`HashedAs`) is none older than one that process ran. It is inductive because start
times only grow, so a PID that has another process never gets the old start time
again, and because versions on disk only go up. `CacheIsNeverMixed` says the same of
the cached entries (`CacheIsOfLiveProcess`).

**StoreUnlockProofs** (`WordsAssumption`, `SaltsAssumption`, `TablesAssumption`,
`MaxFaultsAssumption`): `TypeCorrect`, `UnlockedHasSchema`, `OnlyWrongPassphrases`,
`UnlockImplementsVault`. `UInv` says what each step of `unlock` has established for
the next one: the key the database has once a process is past `Wal`, how far the
migration has come, and, as long as no two first runs have overlapped, how far the
salt file has come and that nobody else is making one. From the last part follows
`SaltIsKept`: the file has the salt the database was made with, so a key that is
refused differs in its passphrase. The refinement rests on a key never changing once
the database has one.

**P11ModuleProofs** (`MaxCertsAssumption`, `MaxBatchAssumption`, `DataAssumption`,
`ThreadsAssumption`): `TypeCorrect`, `AnswersAreOwn`, `SearchesAreComplete`,
`NoCallsWaitForEachOther`. `Inv` has
in it that what is in the connection is being waited for: a thread leaves an exchange
only by reading the answer, of which there is one, or when the connection can give
none. So a request that nobody else's overlaps with finds the connection empty or
dead, and what it reads is its own. For the search, `Searched` says that what an
undisturbed search has found is the handles below the position.
`NoCallsWaitForEachOther` needs `WaitsInv`: `STATE` is held over the list requests and
nothing else (`StateHeld`), `C_Finalize` runs alone if the host keeps to PKCS#11
(`FinalizesAlone`), and then who waits for an answer has a request at coned or a
connection that coned is done with (`Owed`). So each thread that waits leads to one
that reads from coned, which is the part of `CallsReturn` that is not about fairness.

**IntegrityProofs** (`LastAssumption`, `MaxRowsAssumption`, `BuildsAssumption`):
`TypeCorrect`, `KnownHashesStood`, `StampsByChecks`. `IInv` says of a check that it stands
for every row it has compared or that is not among those it has to (`Compared`): had
that hash on disk in its course. A row inserted meanwhile is one of those, which is
why `IInv` says the same of what `record` has hashed and not inserted yet
(`Recorded`), and that `had` has what is on disk now (`Watched`).

**ConeStoreProofs** (`MaxIdAssumption`, `FaultsAssumption`): `StoreTypeCorrect`,
`NothingEverDangles`, `CertsGetTheirKeys`, `ImportsStay`, `RestoresOnlyAdd`,
`IdsStand`. `SInv` is `TypeOK`, `NothingDangles`, `CertsHaveKeys` and `StepOfOp`. That
says which statements belong to which command, without which the proofs could not tell
a `DELETE` from the steps of a restore, and that an import past its second INSERT
has its key in the store or its certificate removed, which `ImportedStays` needs.
`IdsAreForGood` is not inductive by itself: a backup reads rows that may be gone when
it writes its file, a restore has rows in hand that the file has no longer, and the id
of a route is drawn some statements before its row is there. `IdsInv` therefore speaks
of every row that is known, in the tables, in the file or to a command: each has an id
of its own, below the next one; and no two commands that are adding a route have the
same id in hand, nor one that is known. The lemmas `CertsKnown`, `AppsKnown` and
`RoutesKnown` say where the rows of a step come from.

**StoreAloneProofs** (the same, and `OneAtATime`: there is one client): `OneKeyEach`,
`BackupsAreClosed`, `FreshRestoresSucceed`, `RestoresAreComplete`,
`RestoresFailOnlyIfRenumbered`. With two commands
at once none of them holds: TLC refutes each on the instance of `store_two`, for
no statement of one command is in a transaction with the next. Failures, kills and
any sequence of commands are included. `AloneInv` follows the rows from the tables
into the backup that reads them, and from the file back into the tables: what a
restore has still to insert clashes with no row there and refers to rows inserted
before, because fingerprints are unique at both ends and an id stands for one row
(`IdsInv`). `KeptInv` adds what a restore knows when it inserts a row, that it has
looked for it in vain, or its look-up failed (`Missing`), and how it ends (`EndsWell`).
`RestoresFailOnlyIfRenumbered` delimits what the run `store_restore_over` refutes: a
restore of a closed backup is ended by a constraint only if a row has another id by
now, or one of its own look-ups failed.

Only model-checked: the liveness properties `SshRequestsSettle`, `IpcRequestsSettle`,
`LockTakesEffect`, `OpensAgain` and `CallsReturn`, for fairness and ENABLED are beyond
the prover. What can be said of them without fairness is proved: who waits for whom,
in the daemon and in the module. Every safety property of a passing run is proved,
and every refinement.

## 5. What is not modelled, and the plan

In this order:

1. `ConeStore` with labels and with the SSH tables; duplicate labels in
   `get_cert_by_label` and in the agent's look-up.
2. `CidrMatch`: the prefix test of `list.rs:340` against the meaning of a CIDR
   pattern, over bounded addresses.
3. `ConeStore` composed with `RouteResolution`: the certificate of a chosen route
   is removed before `get_plaintext_key`.
4. `P11Module` composed with the IPC server of `Coned`, in place of its external
   daemon.
5. Proofs: an abstract specification of the calls of `P11Module` (one request, one
   answer, at an instant of the call) and its refinement when no two requests
   overlap; what a restore that succeeded has brought when other commands ran beside
   it, up to what they removed.

Not planned: cryptography (`crypto.rs`), the data types (`models.rs`, `error.rs`),
terminal input and output, the `age`, PKCS#12 and PEM formats, and the SELinux and
systemd sandboxing, which have no state of interest here.
