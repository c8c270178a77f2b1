# PiNet-OS: a verification development in TLA+

PiNet-OS is an operating system image for Raspberry Pi class machines that run
a Minima blockchain node. This directory models the parts of it that keep state
and can go wrong in ways a test hardly reaches, checks them with TLC on small
instances, and proves the most important results with TLAPS for every value of
the constants.

Paths are relative to the root of the repository's sources. `PROJECT.json`
maps every definition that models code to its lines.

## 1. Inventory

### 1.1 The parts of the system

| Part | Source | State | Operations |
| --- | --- | --- | --- |
| Cluster manager daemon (Go) | `PiNetOS/pinet/services/cluster-manager/` | the list of nodes with status and last heartbeat, a version, all in memory under one RWMutex | own heartbeat, poll and handle Maxima messages, health check, copies for API clients |
| CPIP updater and watcher | `backend/cpip_updater.py`, `backend/cpip_watcher.py`, `backend/routes/cpip.py`, `PiNetOS/services/cpip-update.*` | `CPIP_VERSION` in `config.py`, the constant each process imported, the version file, the saved check, the watcher's task and flags, subscriber queues | check, apply, restart, roll back, start, stop, force a check, stream events |
| CPIP provider | `backend/cpip_provider.py` | blacklist, probe counts, per-address request windows, RPC secret, node identity | middleware for every request, blacklist, whitelist, tokens, self-tests |
| Rate limiters | `backend/rate_limiter.py` | timestamps per client | check |
| Minima RPC client | `backend/minima_client.py` | pooled HTTP client, CPIP token | call with token refresh and retry, close, parse |
| Marketplace | `backend/marketplace.py`, `backend/routes/marketplace.py` | listings, orders, ratings | create, status, delete, order, complete, cancel, rate |
| Enclaves, attestation, ZK proofs | `backend/enclave_manager.py`, `backend/attestation.py`, `backend/zk_prover.py` | enclaves, attestation records, proofs | create, stop, terminate, attest, verify, anchor |
| RMP and provenance | `backend/rmp.py`, `backend/provenance_store.py`, `backend/routes/minima.py` | chain of provenance records | Merkle proofs, record, trim, request of missing blocks |
| Quotas (LXC) | `backend/lxc_manager.py` | containers and cgroup limits | create, update, remove, apply |
| Sensors | `backend/sensor_manager.py` | sensor registry and readings | register, read, stream |
| TLS certificates | `backend/ssl_manager.py`, `run.py`, `cmd_ssl` of `bin/pinet` | CA, server pairs and two links | make a CA, issue, renew, delete, from the backend and from the command line; start the server with them |
| Post-quantum TLS | `backend/pq_tls.py` | none | what the libraries offer |
| TPM keystore | `backend/tpm_keystore.py` | the sealed master key, a context file | seal, unseal |
| LLM gateway | `backend/llm_gateway.py` | provider choice | chat with fallback |
| Application state and poll | `backend/state.py`, `backend/models.py`, `backend/routes/settings.py`, `backend/routes/enterprise.py`, `backend/main.py` | one state object, `pinet-state.json` | load, save, change settings, start and await scripts, release, poll the node every 10 s |
| Cluster HTTP routes | `backend/routes/cluster.py`, `backend/websocket/cluster.py` | event log, node views | discover, join, execute, provision |
| Terminal | `backend/websocket/terminal.py` | descriptor, child process and reader task per client | open, read, write, hang up, wait for the child |
| OTA update | `system/ota/pinet-ota-update.sh`, `system/services/pinet-ota.*` | installed tree, backup, version file, services | fetch, verify, back up, apply, restart |
| Boot profile switch | `scripts/pinet-boot-switch.sh` | boot files, snapshots, staged profile | snapshot, stage, apply |
| Package manager | `system/package-manager/pinet-pkg.sh` | package registry and files | fetch, install, remove |
| First boot | `PiNetOS/scripts/pinet-first-boot.sh` | marker file, identity, disks, units | a sequence of steps, run again until it completes |
| K3s bootstrap, health, labels | `PiNetOS/scripts/k3s-*.sh` | failure counter, k3s service | bootstrap, probe, restart |
| DApp installation | `backend/routes/dapps.py` | registry file, a directory per installation | install from a manifest or an address, remove, serve |
| Command line tools | `bin/pinet`, `bin/minima`, `lib/pinet-runtime.sh`, `bin/pinet-setup` | pid files, `.env`; the certificates of the backend | wrappers around systemd, kubectl and RPC; `pinet ssl` makes and deletes the certificates itself |
| Weather dApp | `zedd-weather/app.py` | last reading | read, publish |
| Front end | `frontend/` | browser state | views |
| Image building | `build-system/`, `scripts/*.sh`, `kernel/`, `boot/` | none at run time | build |

### 1.2 How they interact

* The desktop backend is one FastAPI process with one event loop. A handler
  runs alone between two `await`s; handlers without `await` are atomic with
  respect to each other. Threads appear only through `asyncio.to_thread`.
* The services of the backend keep dictionaries of their own and do not call each
  other. They share the event loop, which a blocking command of one holds up for
  all, and the end of the process, which empties every dictionary at once while
  files, certificates and cgroups stay.
* Every HTTP request passes the CPIP middleware (blacklist, probe detection, rate
  limit) and then, for most routes, a limiter of its own.
* The updater is also run by a systemd timer in a process of its own. The two
  share `config.py`, the saved check and the restarted unit, without a lock.
* `pinet ssl` writes and deletes the same CA, pairs and links as the backend, in a
  process of its own and without a lock.
* The cluster manager has three goroutines and the API's handlers around one
  mutex. Its peers talk to it through Maxima, which may lose, repeat and
  reorder messages. The only sender in the repository is the join request of
  `backend/routes/cluster.py`; heartbeats and departures have no sender here.
* Shell components (`OTA`, first boot, boot switch, K3s health) are sequences
  of commands that may be killed between any two of them and are run again by
  systemd, a timer or the user.

### 1.3 What is hard to test here

Interleavings of the two updater processes, of the backend with the command line
and of the watcher's tasks; files that are truncated before they are written; state
read before an `await` and used after it; deaths between two steps of a shell
script; lost or repeated Maxima messages; limits of queues, windows and lists;
handlers that change several things one after another and are refused or killed
in between; copies of a fact (an average, a limit of the kernel, a hash of the
event before) that must not drift from it; descriptors the system hands out
again while a task still knows their number. `PROJECT.json` lists
each hazard at its line with the properties that watch it.

## 2. Plan

### 2.1 Modules, in order

| Order | Modules | Composes | State |
| --- | --- | --- | --- |
| 1 | `ClusterManager`, abstract `FailureDetector`, `ClusterSnapshot` | the list implements the failure detector through a refinement mapping | done, proved |
| 2 | `CpipUpdate` | two processes around the same files | done, proved |
| 3 | `CpipWatcher` | callers, tasks and subscribers on one event loop | done, proved |
| 4 | `FirstBoot`, `OtaUpdate`, `Device` | `Device` INSTANCEs the two scripts over one disk and one power supply | done, proved |
| 5 | `MinimaRpc`, `StatusPoll` | `StatusPoll` EXTENDS the client with its callers | done, proved |
| 6 | `AppState` | the state file, the requests and tasks that write it, discovery and provisioning | done, proved |
| 7 | `BootSwitch`, `HealthMonitor`, `WeatherStation` | `MCDevice` puts them beside `Device`: scripts of one board | done, `BootSwitch` proved |
| 8 | `Dicts`; `Marketplace`, `Enclaves`, `Provenance`, `Tenants`, `Sensors`, `Dapps`, `Certificates`, `Keystore` | `Services`: one process and loop that host all of them, and die | done, proved |
| 9 | `Ages`, `SlidingWindow` (abstract), `HttpFront` | both limiters implement the window | done, proved |
| 10 | `Terminal` | clients, readers and shells on one event loop, beside `HttpFront` in `MCHttpFront` | done, proved |

### 2.2 Abstract specifications

`FailureDetector` says what clients of the cluster manager rely on, without
list, messages or clock; `ClusterManager` implements it. `SlidingWindow` says
what a rate limiter promises; the two limiters of `HttpFront`, which cut their
lists at different moments and forget keys, implement it.

### 2.3 Theorems still worth having

* The safety half of what TLC checks as liveness: that probing never renews a
  ban that lasts (`BansEnd`), that a stop which waits is never left by its task
  (`StopReturns`), that an update that was begun is not forgotten (`UpdateArrives`).
* Type correctness of `HealthMonitor`, `WeatherStation` and of the services whose
  invariants do not need all of it.

## 3. The modules and the code

Operators whose comment begins with "Mutation:" are no part of the model. Each
is a faulty variant of the operator that follows it, of the kind a change of the
code could introduce; with it in place the property that `PROJECT.json` names is
violated, so the property does depend on that code.

### 3.1 `ClusterManager` (`cluster/state.go`)

* `nodes` is `m.state.Nodes` as a function from *tickets* to entries. The ticket
  of an entry is the `Version` its append produced, so tickets order the entries
  as the slice does, and the "first entry of a node" that the code's loops stop
  at is the one of the smallest ticket (`IsFirst`). `LastHeartbeat` becomes the
  age of the heartbeat, capped at `MaxAge`, above which no comparison differs.
* One handler is one action because each holds the lock for its whole body.
  `PollMessages` only fetches: the messages of a poll wait in `batch`, and other
  goroutines run between two of them.
* Messages are arbitrary: a lost, late, repeated or reordered message is one that
  a batch leaves out, brings later or brings twice.
* `Exit` stands for a signal or a crash. Nothing is persisted, so both forget
  all.
* A worker has no state at all (`version = 0`): every handler guards on it, as the
  code does on `m.state == nil`.
* `FailureDetector` is the abstract specification. The mapping reads the list the
  way the code looks nodes up: the status of the first entry, or "absent".

### 3.2 `ClusterSnapshot` (the lock in `cluster/state.go`)

`GetState` copies header and nodes under the read lock; handlers write under the
write lock; `sendHeartbeat` writes two fields under the *read* lock. The copy of
the own entry is made field by field, in either order, because a data race gives
no order. A field is modelled by the number of the heartbeat that wrote it.

### 3.3 `CpipUpdate` (`cpip_updater.py`, `cpip_watcher.py`, `routes/cpip.py`)

* Two processes: the desktop backend and the timer's one-shot service. Each has
  its own imported `CPIP_VERSION` (`installed`), and `apply_update` is one step
  per file operation: read, open for writing, write, restart, report. Inside one
  process nothing else runs meanwhile; the other process runs anywhere, and either
  may die anywhere.
* `write_text` truncates `config.py` before it writes it: from `BeginWrite` to
  `EndWrite` the file is `Torn`, for the other process too, and it stays so if the
  write fails (`WriteFails`) or the process dies. In a torn file no line is found to
  replace, and nobody can import it (`Boot`).
* `WatcherCheck`, `EndpointUpdate`, `EndpointLatest` and `TimerCheck` are the four
  ways to decide; they differ in what they compare and what they save.
* `ReportFailure` holds the rollback of the watcher. `before` and `clean` and
  `alone` are history: what `config.py` was when the attempt began, whether
  anything failed so far, whether only the watcher's own process updated.
  The rollback's own write may fail, and tear the file (`RollbackFails`).
* The header replacement in `cpip_provider.py` that never matches, webhooks and
  counters are left out.

### 3.4 `CpipWatcher` (`cpip_watcher.py`, `routes/cpip.py`)

* What stands between two awaits is one action. `StopWatcher` and
  `StopWatcherReturns` are the two halves of `stop_watcher`; between them other
  callers, the loop and subscribers run.
* A task is created, sleeps, and is done; cancelling it only marks it, and
  `LoopCancelled` is when the exception is thrown into it.
* `settled` is history: the kind of the last call, while no two calls overlapped.

### 3.5 `FirstBoot`, `OtaUpdate`, `Device`

* `FirstBoot` is the list of the script's steps; `made` holds what each left on
  disk. It starts again at the first step until its marker exists. The user's
  existence skips the steps that follow `useradd`.
* `OtaUpdate` is one step per part installed. The tree that rsync replaces is the
  set of versions its files come from, and so are units and scripts. A failing
  command ends the script (`Abort`), but the copies of units and scripts end in
  `|| true`: `UnitsNotCopied` leaves some or all of the old ones and goes on to the
  record. `skipped` is history: that happened, and no update has copied them since.
* Which files a restarted service reads is not modelled: the image's services run
  from `/opt/pinet`, the updater replaces `/opt/pinetos`, which no image fills.
* `Device` adds power and the boot order: provisioning before services, the timer
  only once a boot began with it enabled. The two scripts share the version
  file and the units. The card is in the state `scripts/build-rootfs-overlay.sh`
  leaves it in. `PowerCut` may come in any state.

### 3.6 `MinimaRpc`, `StatusPoll` (`minima_client.py`, `main.py`)

* A call is suspended while it asks, asks again after a rejected token, or sleeps
  between attempts, and runs without interruption otherwise. The shared token is
  a number; all tokens up to `expired` are past their time to live.
* The ends of a request are those `httpx` has: an answer, a 401, a refused
  connection, a timeout, an error status, an `OSError`, an answer that is no
  JSON, a broken connection. Those that leave open whether the node executed the
  command have both outcomes.
* `executed`, `lost`, `failed`, `osError` and `renewed` are history. An `OSError` ends
  the call at once, whatever attempts are left (`SystemError`), and is counted as
  what it is, not as attempts that failed.
* `StatusPoll` adds the poller, with its two calls and its handling of each kind
  of exception, and requests that make one call each.

### 3.7 `AppState` (`state.py`, `routes/settings.py`, `routes/enterprise.py`, `routes/cluster.py`)

* `mem` and `file` are functions from keys to values. A key stands for fields that
  one request writes together, and each listed node is a key for its status.
  `get_state` returns one object to all, so a request that resumes writes into
  what the others wrote meanwhile; `save_state` writes all of it.
* A request that waits is a `job`, named after the key it will write. `Busy` is
  what it says before it waits, `Outcomes` what it may say after: `lxc-init`,
  `switch`, `build/image` and `provision` only start a script, and say more only
  if that failed. The tables replace one action per route, which would all read
  the same.
* A save is in the same step as the write before it. It may raise (`SaveRaises`),
  which ends the request where the code has no handler, or the process may die in
  it (`Dies` with an unreadable file); the poller swallows the error, and
  `build_release` takes it for a failed upload.
* `update_settings` sets one key after another, and a name that is an attribute but
  no field (any method is) raises: what came before it stays in memory, unsaved and
  refused. `Escapes` is a request that ends in an exception its handler does not
  catch, such as output that cannot be decoded, and leaves its status as it was.
* `discover_cluster` is one step per node and one for the save. A probe that raises
  ends the request but not the other probes.
* `Mistyped` settings are stored, since nothing validates them, and make the file
  unloadable. `promised`, `attempted`, `lost`, `leftover` and `unsaved` are history:
  the settings last acknowledged, and what has gone wrong since.

### 3.8 `BootSwitch`, `HealthMonitor`, `WeatherStation` (`pinet-boot-switch.sh`, `k3s-health-monitor.sh`, `zedd-weather/`)

* `BootSwitch`: `mount` and `snapshot` say what each file comes from; one action
  copies one file, in any order, and `SwitchCut` may end the script between two
  files or inside one, which leaves it torn. The guard that decides whether the
  host's files are saved already looks at two of them, as the script does.
  `halfSaved` is history: a run was cut off after it had saved these two and not
  all. What a run wrote is taken to be on the card once it ends.
* `HealthMonitor`: one action per check, so that the cluster changes between the
  checks of a round. The remedy of failed pods runs under `errexit`: a `kubectl`
  that answered the check and fails in the remedy ends the monitor
  (`RestartPodsEnds`), and the unit starts it again.
* `WeatherStation`: the loop with its growing wait, the status its endpoint
  answers, and the liveness probe that counts 503s and replaces the container.
  Times are multiples of ten seconds.

### 3.9 `Services` and its components (`backend/`)

`Services` EXTENDS eight modules, one per service, and adds what they share: a
request is handled while the server runs and no certificate task of it blocks the loop
(`Served`), and `ProcessEnds` empties all dictionaries at once. `Dicts` has the
operations of Python dictionaries. A request that a handler refuses with an
error and without a change is no action.

* `Marketplace`: listings, orders and ratings; the average of a listing is a copy
  of its ratings, which outlive it.
* `Enclaves`: enclaves with measurements, attestation records and proofs. What is
  hashed is a value; a record's name is the pair of second and measured disk, so
  names repeat. `matched` is history: which measurements a verification accepted.
* `Provenance`: the event chain with its trim; `BuildProof` and `Verify` for
  Merkle trees over any number of leaves, level by level and with the cursor of the
  code's loop, with a hash modelled as the tuple of what is hashed; the request for missing blocks, with the await between reading
  the height and using it.
* `Tenants`: the dictionary against the kernel's cgroup files, one call after
  another, any of which may fail. The line for `io.max` names no device, so the kernel
  refuses it every time and `pids.max`, which comes after it, is never written: the
  cgroups of the model have `cpu.max` and `memory.max`. A limit of zero is refused
  for the processor too, and nothing after it is written. `excused` is history: tenants something went
  wrong for.
* `Sensors`: what the board allows, taken from its device tree or processor;
  definitions; and readings in threads that see the definitions change.
* `Dapps`: the registry file, which every request reads anew, and directories. A
  registry that cannot be read, intact as it is, counts as empty (`Reads`).
* `Certificates`: a task is the sequence of files it writes; it may end after any.
  Names have the resolution of a second, so two pairs may meet in one. Two workers
  have a task each: the backend, which does nothing else meanwhile, and the command
  line, whose links replace at once (`ln -sf`) and which makes a CA only if
  `rootCA.pem` is missing. The names of the two meet when the device's clock is set
  to UTC, as the command line uses local time. `alone` and `broken` are history:
  whether a task had the files to itself, and what was left half replaced, or
  replaced by a task that had not.
* `Keystore`: the blob, the context file and the boot state.

### 3.10 `HttpFront`, `Ages`, `SlidingWindow` (`cpip_provider.py`, `rate_limiter.py`, `main.py`)

Times are ages that a clock advances, and `Ages!Fresh` is the list comprehension
with which both limiters cut a list of them; an age of the window's length counts for
nothing any more. The middleware and the route's limiter are two steps, with
other requests between them. `LimitersAreWindows` maps the lists of each to the
requests within the window and requires `SlidingWindow!Spec`.

### 3.11 `Terminal` (`websocket/terminal.py`)

Descriptors are numbers the system hands out again, lowest first. A client's
reader knows a number, not a terminal; whose output it sends is looked up when it
wakes. The `finally` of a handler cancels the reader, closes the descriptor and
waits for the shell without letting the loop go (`closing`), so nothing else runs
until the shell has ended. `Deafen` is a shell that ignores the hangup.

## 4. What is checked

| Run | Module | Distinct states | What it shows |
| --- | --- | --- | --- |
| `cluster_manager` | `MCClusterManager` | 130,828 | the status of an entry is backed by its silence; offline ends only by being heard or removed; Version shows every change of membership; silent workers are found out; the list implements `FailureDetector` |
| `cluster_snapshot` | `MCClusterSnapshot` | 12,135 | a copy's Version and list belong together, for each client and between clients |
| `cpip_update` | `CpipUpdate` | 1,453,841 | without failures `cpip.service` ends up on what `config.py` says, which is a whole file, however the two processes overlap; a backend that updates alone never finds a version below what it runs |
| `cpip_watcher` | `MCCpipWatcher` | 7,396 | calls one after the other settle; every stop returns; a subscriber learns of a running watcher |
| `device` | `MCDevice` | 64,175 | the marker means provisioned; the version file never claims more than is installed, but for copies that failed unnoticed; the latest version arrives; the way back to the host's boot files stays open, but for a first snapshot cut off; the health shown follows the cluster; the weather station recovers |
| `status_poll` | `MCStatusPoll` | 281,449 | commands are repeated only for cause; an expired token costs no attempt; calls return; the status shown follows the node |
| `app_state` | `AppState` | 854,860 | acknowledged settings survive restarts; announced results have a request that brings them, and come; what is shown is in the file |
| `services` | `MCServices` | 2,003,246 | averages are those of the ratings; a verified record is the one that was verified; events link; proofs convince, and only of what is there; block requests have no gap; processor and memory are limited as shown; intervals keep the board's floor; an acknowledged DApp is served whole; certificate and key are a pair |
| `http_front` | `MCHttpFront` | 17,096 | both limiters are sliding windows; bans end; a client sees its own shell only; a closed terminal is closed completely |

Each property is described above its definition. The three runs that expect a
violation are in section 7.

### Bounds

* `cluster_manager`: three nodes; limits of 1 and 2 with clock steps of 1 and 3,
  so that the clock creeps through the limits and jumps past both; four versions,
  enough for a node that joins twice, leaves and joins again. `MaxBatch = 1`: a
  longer batch only delays messages, which the model may do anyhow since it
  chooses when to poll.
* `cluster_snapshot`: two clients (the properties relate at most two), two
  workers, two heartbeats, four versions. Clients and workers are symmetric; all
  properties are invariants.
* `cpip_update`: three releases, which two successful updates and a failed third
  need; a user who asks for the first, the furthest back. Deadlock is not checked in
  the two runs of this module: a torn `config.py` keeps every updater down.
* `cpip_watcher`: two callers and four tasks: a stop that overlaps a start and
  two more rounds after it. One subscriber, as subscribers do not interact.
* `device`: three versions, so that one update can be cut short by the next, and
  three mishaps, so that one can befall provisioning, the first and the second
  update. Step counts are the scripts' own.
  The boot switch has three files per profile, two of them in both, so that a file
  of either may be missing from the other, and two runs cut off: one inside the
  first snapshot and one inside the copy back. The monitor gives up after three
  attempts, as in the script. The weather
  station has the intervals of its manifest in units of ten seconds.
* `services`: two of whatever a limit caps and one more to be refused; four
  requests of one kind, enough to fill a store, delete from it and fill it again;
  Merkle trees of zero to five leaves, so that levels are odd at the bottom, in the
  middle and not at all, with a repeated leaf and a repeated path; three blocks and
  heights below, at and above them; boards with all four ways to be recognised;
  four pairs of certificates in two seconds, with two interruptions: a CA, two
  server pairs that meet in one second, and a renewal cut off. The tasks of backend
  and command line overlap only up to the second pair and before the first
  interruption (`MCRacingPairs`), which lets a CA or a server pair be made, or
  deleted, under another; what either does alone goes on to the fourth. One read of
  the DApp registry that fails.
* `http_front`: windows of one and two seconds with limits of one and two, a ban of one
  second, or two, one entry of blacklist and limiter to be evicted, a local and two remote
  addresses. Two terminals and one failed fork: a number freed by one is taken by
  the other. Deadlock is not checked in these two runs: requests are bounded, and
  a client that has closed its terminal does not come back.
* `status_poll`: two attempts (the code's default is 3; two have a first, a
  last and a pause), two expiries, so that both calls find a token expired and
  renew it under each other, two changes of the node, two mishaps.
* `app_state`: three requests, two of them waiting at a time: a pair that overlaps
  and one that changes the settings meanwhile. Two nodes, so that one probe can
  raise while the other goes on. One death and one save that raises: the
  properties speak of the time after the last of them.

### Behaviours about one part

Three MC modules have a variable `focus`, chosen at the start and never changed.
A behaviour of `MCServices` generates the requests of one service, one of
`MCDevice` the steps of one script, one of `MCHttpFront` those of bans, limits or
terminals. This loses nothing: these parts share no variable. What services do
have in common, being served and dying with the process, is in every behaviour;
the parts that rest do so where nothing is promised of them (a cluster that is
down, a station whose database is).

### Assumptions about the surroundings

* The wall clock is never set back while the daemon runs.
* A token outlives a call (300 seconds against the timeouts of one call), and the
  node, which holds the same secret, accepts a token just made.
* A status the node reports is true.
* An OTA payload holds its three parts, and is what its manifest names.
* The backend is one process, so nobody else writes its state file.
* SHA-256 does not collide, and `mkdtemp` and hashes of the exact time do not repeat.
* A process whose terminal hangs up ends, unless it chose to ignore it.
* `httpx` has a timeout for every phase of a request.

## 5. Fairness

| Specification | Fair | Why |
| --- | --- | --- |
| `ClusterManager!FairSpec` | weak: own heartbeat, health check, clock, handlers of fetched messages | tickers of goroutines that never block while holding the lock; a fetched message is handled in the same loop. Peers, starts and exits are not fair |
| `CpipWatcher!WatcherFairSpec` | weak: each task's steps, a stop whose task is done | the event loop runs what is ready. Callers and subscribers are not fair |
| `Device!FairSpec` | weak: power returns, a running script goes on; strong: the timer's check while the timer is enabled | `Persistent=true` makes up for firings missed across reboots, so a check that is possible again and again happens. Mishaps are not fair, and are finite |
| `StatusPoll!FairSpec` | weak: each call's steps, the poller | the event loop, and timeouts that end every request. The node and requests' beginnings are not fair |
| `AppState!FairSpec` | weak: the end of a detection or check, a discovery's steps | their scripts have a timeout of 30 seconds, a ping 3, a node's answer 2. Scripts that are only started, and releases, are not fair |

| `BootSwitch!SwitchSpec` | none | only safety is stated |
| `MCDevice!MCSpec` | as `Device`, and weak: the monitor's step, the step of the weather dApp and its kubelet | loops that sleep and go on, with timeouts on every command; systemd and the kubelet start what ended. Clusters, sensors and databases are not fair |
| `HttpFront!FrontSpec` | weak: the clock | time passes. Requests are not fair |
| `Terminal!TerminalSpec` | weak: the end of a hung-up shell, the return of the wait, the cancelled reader | the kernel sends the hangup when the last descriptor closes; the event loop runs what is ready once it is free. Clients and shells that live are not fair |

`HealthFollowsCluster` and `StationRecovers` promise something only of a cluster, or
of sensors and database, that change finitely often. `TerminalsEnd` excepts a
closing terminal whose shell ignores the hangup, because it holds up the loop.
`UpdateArrives` assumes that again and again the node is provisioned with its
timers enabled. Without it nothing is promised: a node that loses power at every
boot installs nothing. `StatusFollowsNode` assumes a poller that lives (section
7 says when it does not).

## 6. What is proved

TLAPS checks the following for every value of the constants that satisfies the
assumptions named in the modules (any set of nodes, any limits, any number of
releases, calls and retries).

| Module | Theorem | Statement |
| --- | --- | --- |
| `ClusterManagerProofs` | `TypeCorrect` | `Spec => []TypeOK` |
| | `StatusAlwaysJustified` | `Spec => []StatusJustified` |
| | `OfflineStaysUntilHeard` | `Spec => OfflineUntilHeard` |
| | `MembershipAlwaysVersioned` | `Spec => MembershipVersioned` |
| | `FailureDetectorImplemented` | `Spec => ImplementsFailureDetector` |
| `ClusterSnapshotProofs` | `TypeCorrect` | `Spec => []TypeOK` |
| | `VersionAlwaysIdentifies` | `Spec => []VersionIdentifiesMembers` |
| `CpipProofs` | `TypeCorrect` | `Spec => []TypeOK` |
| | `ServiceAlwaysFollows` | `Spec => []ServiceFollowsConfig` |
| | `NeverBelow` | `Spec => []NeverBelowInstalled` |
| | `WatcherTypeCorrect` | `WatcherSpec => []WatcherTypeOK` |
| | `StopsSettle` | `WatcherSpec => []StopSettles` |
| | `StartsSettle` | `WatcherSpec => []StartSettles` |
| | `RunningAlwaysShown` | `WatcherSpec => []RunningIsShown` |
| `StatusPollProofs` | `TypeCorrect` | `Spec => []TypeOK` |
| | `ExecutedOnce` | `Spec => []ExecutedOnceUnlessLost` |
| | `GivesUpLate` | `Spec => []GivesUpForCause` |
| `AppStateProofs` | `TypeCorrect` | `Spec => []TypeOK` |
| | `SettingsAreKept` | `Spec => []SettingsSurvive` |
| | `BusyIsBacked` | `Spec => []BusyMeansRunning` |
| | `SavedIsShown` | `Spec => []ShownIsSaved` |
| `DeviceProofs` | `MarkedIsProvisioned` | `Spec => []MarkerMeansProvisioned` |
| | `VersionNeverAhead` | `Spec => []VersionClaimsNoMore` |
| | `HostCanAlwaysReturn` | `SwitchSpec => []HostCanReturn` |
| `FrontProofs` | `OwnShellAlways` | `TerminalSpec => []ReadsOwnShell` |
| | `LimitersImplementWindows` | `FrontSpec => LimitersAreWindows` |
| `ServicesProofs` | `ListingsShowRatings` | `ServicesSpec => []RatingsAreShown` |
| | `VerifiedRecordsWereMatched` | `ServicesSpec => []VerifiedWasMatched` |
| | `EventsAreLinked` | `ServicesSpec => [](ChainLinks /\ Len(events) <= MAX_EVENTS)` |
| | `RequestsAreWanted` | `ServicesSpec => []BlocksWanted` |
| | `ProofsAreConvincing` | `ServicesSpec => []ProofsConvince` |
| | `LimitsAreInForce` | `ServicesSpec => []LimitsInForce` |
| | `SensorsAreFloored` | `ServicesSpec => []IntervalsFloored` |
| | `AcknowledgedDappsAreServed` | `ServicesSpec => []AcknowledgedIsServed` |
| | `PairsAreMatched` | `ServicesSpec => []PairsMatch` |

*Cluster manager.* `StatusJustified` is not inductive: it says nothing of the
range of ages, so a step of the clock could lower one. The invariant `Inv` is
the conjunction of `ControlOK` (the variables that are no list), `ListOK` (tickets
lie in `1..version`, so a new one is new and is the last), `EntriesOK` (each
entry has its type and is justified) and `StoppedIsEmpty` (a daemon that is down
has no list, without which a start could not map to the abstract one). The two
action properties follow from `Inv` and one step. For the refinement, lemmas say
what a join, heartbeat, departure or check does to the first entry of each
node, which is all the mapping sees: a second entry of a listed node is
invisible, so a repeated join maps to a stutter; silence only deepens because the
offline limit is tested first and ages only grow between heartbeats, whatever
the order of the two limits.

*Copies for API clients.* `CopyIsCurrent`: while a copy is under way its version is
the present one, because the read lock keeps the handlers out. `DoneInv`: a finished
copy is no newer than the state, and the copy of the present version is the copy of
the present list. So a change of the list, which always brings a new version,
leaves the finished copies of one version equal among themselves.

*CPIP updater.* `ServiceFollowsConfig` speaks of quiet moments only. `FollowInv`
says why it holds there: as long as nothing failed, the service differs from
`config.py` only while some process stands between the opening of the file and its
restart, and the file is torn only while some process is writing it. A process that
read the truncated file may restart the service on it, but the writer restarts it
again.
`NeverBelowInstalled` needs `AloneInv`: while the backend is alone, it aims above
what it imported, `config.py` is at least that or torn, and nobody else is in
progress. A torn file never becomes an older version, because only a line that was
found in a whole file is replaced.

*CPIP watcher.* `SettledInv` says what each call leaves for the next, for as long as
no two overlapped: a living task is always `current`, and while a stop waits, the
task it waits for is that one, and cancelled. So the stop that resumes forgets
nothing, and the start after it finds no loop. Once two calls did overlap, it says
nothing more, and `watcher_two_loops` shows why. `ShownInv`, which needs no such
condition, says that while the watcher runs the last event in any queue is the one
that told so.

*RPC client.* `Inv` adds to the type that each call is `Good`: while it asks, as
many attempts have failed as the attempt's number says and every execution so far
is a lost one; once it has ended, both properties hold of what it counted, and a call
that gave up early is one that met an `OSError`.

*Application state.* `SettingsInv` adds the file to what `SettingsSurvive` says of
memory: a file may be older than memory, but its settings are never older than the
last promise, because the only request that writes them is answered after its save;
what a refused or failed change left is in `attempted`. `PendingInv` says
that probes belong to a discovery, without which a node's status could change
behind `ShownIsSaved`. The lemmas on the tables say that no outcome is a status
that announces one, and that who announces a result has one to bring.

*Provisioning and updates.* Neither of the two properties is inductive, and they
need each other. `ProvisionInv` says that the script has left whatever is behind
its current step, and runs only while there is no marker. `VersionInv` orders the
updater's writes: before the version is recorded the files are already the
target's, and so are units and scripts unless their copies failed unnoticed
(`skipped`); and a first boot begun again after an update puts units and version
back before it sets the marker.

*Boot switch.* That no file of PiNet-OS is saved as the host's rests on
`SnapshotInv`: such a file is on the partition only once a snapshot is found, and
then none is taken any more; while one is taken, every file of the host is saved or
still to save, and none has been touched. So a snapshot that is found is whole, unless
the run that took it was cut off after the two marks (`halfSaved`). `ApplyInv` and
`LabelInv` say what was copied so far.

*Terminals.* `TerminalInv` adds to the property why a reader may trust its number:
while its client is open the number leads to its own shell, and once it is not, the
reader has ended or was cancelled before the number could be given to another.

*Rate limiters.* That they implement `SlidingWindow` is a refinement: each of the
two tables maps to the ages within the window, and every step of `HttpFront` to a
step of the window or to one elsewhere. `FrontInv` says of both tables what makes
the mapping work: the ages of an address are in order, oldest first, and no more
are kept than the limit. From it:

* Of a list in order, what is within the window is its tail (`FreshIsSuffix`), so
  that a list can be cut again at any time: a refusal that stores the cut list,
  one that did not look, and a clock that moves before or after a cut all come to
  the same (`AllFresh`, `AgedThenFresh`).
* An address that is pruned has nothing within the window and is the same as
  one never seen, so `Stale` is what needs no entry, and no less.
* `WindowStep` names the five things a step may be to one limiter; each action of
  `HttpFront` is one of them for the middleware and one for the route.

The limits and windows are any naturals; that the middleware lets a request pass
which the route then refuses is a step of one window and none of the other.

*Services.* Each service has an inductive invariant of its own. The first lemmas of
`ServicesProofs` say that a step of the process is, to a service, a request to it,
the loss of its memory, or nothing; so requests and deaths may fall in any order.

* `SensorsInv`, `AttestationInv`, `EventsInv` and `RatingsInv` add to the property
  what the dictionaries hold. Two additions matter. The chain of events is also
  bounded, because the trim keeps the last events only if there is one too many
  at most. And identifiers of listings are issued once, because a new listing that
  found ratings of a deleted one would show none of them. The averages are compared
  as they are computed, and not looked into.
* `BlocksInv` says that a request was made for a height the chain had, from which
  it only grew since. The rest is arithmetic on `BlockRequest` (`BlocksInvWanted`),
  with the size of an interval for the bound.
* `ConvinceInv` says of a proof on the way no more than that it is as built or,
  once garbled, still names the root of the peer's state. What it then convinces
  of is a matter of trees: `LevelSizes` and `DepthFacts` say that the levels shrink
  to a single hash within as many steps as there are leaves. A proof as built
  climbs one level at a time, to the hash at the cursor (`SiblingMakesAbove`,
  `ClimbsToRoot`). For the converse, each hash of a tree is that of a leaf or made
  from two others of that tree (`MadeOfTree`), and hashes of leaves, pairs and the
  empty state differ; so a climb that ends in the tree was in it all along
  (`ClimbsFromLeaf`), whatever its length. Two equal roots then carry the same
  leaves (`SameRootSameLeaves`). That a hash is the tuple of what was hashed is the
  assumption that SHA-256 has no collisions.
* `TenantsInv` adds that a quota whose `tenant_id` is another tenant's excuses
  both. `ApplyLimitsFacts` says what `_apply_cgroup_limits` leaves behind wherever it
  stops: it touches one cgroup, and who is not excused afterwards has the limits of
  processor and memory, if the quota can be applied.
* `DappsInv` adds the type: an entry always points to a directory that was made,
  so that a new directory is nobody's.
* `CertificatesInv` says how far a task is by what it has made. `AloneInv`: of two
  tasks under way neither is alone, so nobody interferes with one that is.
  `IssuedInv`: a pair such a task is about to link is complete and matches.
  `ServerInv`: the pair in use matches unless a task is replacing that very pair,
  either because it is linking or because it writes into a name of the same second
  that the links choose already; an end at these points, or a replacement by a task
  that was not alone, marks the server pair as broken. `CAInv` is the same for the
  CA, which is written in place.

The type invariants that the proofs establish (`TypeOK`, `WatcherTypeOK`,
`SwitchTypeOK`, `DeviceTypeOK`, `TerminalTypeOK`, and `DappsTypeOK` and
`CertificatesTypeOK` as parts of the invariants of their services) are not listed by
runs as well; the `TypeOK` definitions of the other modules say what their variables
hold.

Recursion: trees, climbs and cut lists are recursive functions over an interval. The
library's induction theorems take an operator and cannot be used, but a set of
naturals that holds 0 and every successor holds all of them (`SetInduction`, from
the order of the naturals being well-founded). That such a function exists, and
what it computes at each step, is proved this way (`LevelsExist`, `LevelsAre` and
their like), and what it computes in the end by the same induction.

Left to TLC: the liveness properties (`SilenceDetected`, `StopReturns`,
`UpdateArrives`, `CallsReturn`, `StatusFollowsNode`, `ResultsArrive`,
`HealthFollowsCluster`, `StationRecovers`, `BansEnd`, `TerminalsEnd`), since neither
fairness nor `ENABLED` is in reach of the prover. Every safety property of a passing
run is a theorem.

## 7. Where the code and its words part

Each run checks one sentence of the repository and finds the code against it.

| Run | Property | What the code does |
| --- | --- | --- |
| `cpip_rollback` | `RollbackRestores` | the rollback goes to the version the process imported, which after one successful update is older than the one it replaced |
| `watcher_two_loops` | `AtMostOneLoop` | a stop that resumes after another caller's start forgets the new task, and the next start makes a second loop |
| `keystore_unseal` | `SealedCanBeUnsealed` | sealing ends by removing the context file that unsealing needs and nothing makes again; a key that was sealed by the TPM cannot be unsealed |

`PROJECT.json` quotes the sentences. Further behaviour that the models show, or
are shaped by, and that no property claims otherwise:

* An automatic update reports success, and its version enters the version file,
  even when `config.py` did not contain the line to replace; and since the
  process goes on comparing with what it imported, the watcher installs the same
  release again at every poll until the backend restarts.
* A write of `config.py` that fails or is cut short leaves an empty or torn file. Nothing
  repairs it: the old line is no longer found, so every later attempt skips the write,
  restarts the service and reports success (`SkipWrite`), and a backend that ends does
  not start again. `apply_update` reports such a failure like one that touched nothing.
* The event `watcher_stopped` is sent only by a loop that sees the flag, which
  `stop_watcher` never lets it do.
* After a power cut between `useradd` and the lines after it, the next first boot
  finds the user and skips its password and its sudo rights.
* A command, a payment included, is sent again after a timeout although the node
  may have executed the first.
* An `OSError` ends a call after one attempt, and the message still says how many were
  made (`minima_client.py:137-142`).
* The polling task ends for good at an exception that is neither `OSError` nor
  `ValueError`; from then on only requests for the status change the one shown.
* `try_call` "returns *None* instead of raising on any error"
  (`minima_client.py:146`), but an answer that is no JSON, or a connection that
  breaks, goes through it as an exception: the outcomes of `Garbled` and `CutOff`.
* A setting of the wrong type is accepted and stored, and makes the next start
  discard all of `pinet-state.json` (`AppState!Boot`); so does a death in a save.
* A change of the settings that is refused half-way has changed them in memory, for all
  requests, and the next save of any of them makes that permanent.
* After a failed release with an unexpected status `buildStatus` stays "releasing", after
  a detection or check whose output cannot be decoded the status stays "detecting" or
  "checking", and `aiAcceleration` is "detecting" on a node that never detected anything.

Cluster:

* A node that joins twice has two entries; heartbeats refresh the first, and the
  second is reported offline while the node is heard (`CLUSTER_GUIDE.md:80` says a
  node is offline when it was silent).
* `sendHeartbeat` writes under the read lock, so a copy may hold the time of one
  heartbeat and the metrics of another, against the comment at `state.go:116`.
* A master that restarts begins again with version 1 and itself alone; a client that
  remembers versions cannot tell the two lists of one version apart.

Services of the backend:

* `_seal_tpm` and `_unseal_tpm` disagree on more than the file: the policy option of
  `tpm2_create` is given PCR names where it takes a file, and the two parts of the
  blob are found by halving it, though they need not be equally long.
* `io.max` takes lines that begin with a device; the one written does not, and is
  refused. As the limits are written in order, `pids.max` is never reached
  (`lxc_manager.py:143-144`), and neither input and output nor the number of processes
  is limited, against `SECURITY.md:50` and the docstring at `lxc_manager.py:4`.
  `_apply_cgroup_limits` logs and reports nothing to the client. A processor limit of
  zero is refused by the kernel as well, and then memory is not limited either. After
  a restart the cgroups of forgotten tenants stay; `from_state` has no caller.
* A certificate task that ends between two links leaves a pair that does not match,
  and the next start of the server fails with it. So may two tasks that overlap, one
  of the backend and one of the command line, without either being interrupted:
  `DEPLOYMENT.md:121` names both ways as equals, and nothing locks the files.
* A death while the DApp registry is saved empties it for good at the next
  installation, and so does an installation that fails to read an intact one
  (`dapps.py:73`); the directories stay.
* Orders may be completed after they were cancelled and the other way round, also
  for listings that are deleted or paused.
* `read_sensor` "never raises", but a bus whose library is missing ends the request
  for all readings with an error.
* A banned address is turned away before its probes are counted, so a ban is doubled
  only for an address whose entry was evicted before its time. Requests a limiter
  refused do not count against an address, and `whitelist_addr` has no caller.
* A fork that fails leaves the two descriptors of its terminal open. A shell that
  ignores the hangup blocks the whole backend, as the wait for it does not let the
  loop go.

Scripts:

* An update that fails while files are replaced leaves both versions; nothing reads
  the backup that `RELEASE_NOTES.md:213` calls a rollback. The next complete update
  repairs it.
* The copies of units and scripts may fail unnoticed (`pinet-ota-update.sh:134`, 135, 142),
  and the version is recorded all the same: until the next release the node takes
  itself for updated. A script that is killed between the record and the restart
  leaves services on the old files, and nothing restarts them.
* The snapshot of the host's boot files is taken for complete if two files are in it,
  however the copy ended, and is never taken again (`pinet-boot-switch.sh:114`): after a
  first switch that was cut off behind these two, the next one overwrites files of the
  host that were never saved. An upgrade of the host is undone by switching there and
  back.
* The K3s monitor takes an API server that does not answer for a healthy one; a pod
  without an image is reported and never restarted; failures of any kind use up the
  attempts of all remedies, and a remedy that fails ends the monitor until its unit
  starts it again.

## 8. What is not modelled, and why

* Whatever keeps nothing between requests: the LLM gateway's choice of a provider,
  `pq_tls.py`, most HTTP routes (one external command or one file each).
* The command line tools but for `pinet ssl` generate and delete, which `Certificates`
  has: wrappers of systemd, kubectl, RPC and the backend's routes, and, one command
  at a time, pid files and `.env`.
* What the services restarted by the updater run: the units of the image name
  `/opt/pinet`, the updater replaces `/opt/pinetos`.
* Durability below the file: what a script wrote before it ended is on the card.
* The package manager: apart from apt, the one state it has is a registry that
  nothing but its own next write reads.
* The K3s bootstrap, labels and hardening: straight sequences of external commands
  that an operator starts.
* The cluster manager's executor and Minima client, which nothing calls, and its
  collector, which reads `/proc`.
* The front end, dApps' own pages, documentation and image building: no state that
  outlives a view or a build.
* Cryptography: hashes, signatures, key generation and TPM commands are external and
  their results are data.
* Metrics, formatting, logging and wording.
