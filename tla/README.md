# CNshell in TLA+

CNshell is a desktop SSH workbench (a Tauri application: Rust in `src-tauri/src`, a React window in `src`) with a relay
server for teams (`services/team-relay`, Axum over SQLite). This directory holds TLA+ models of the parts whose
correctness depends on the order of things, the TLC configurations that check them on small instances, and the proofs of
what must hold for every instance.

Paths below are relative to the root of the repository; `sftp.rs`, `ssh.rs`, ... are in `src-tauri/src`, `store.rs` and
`terminal.rs` in `services/team-relay/src`.

    tlc -config MCDesktop.cfg MCDesktop       check one configuration
    tlapm Desktop_proofs.tla                  check the proofs of one module

Contents: [1 the system](#1-the-system-and-its-parts), [2 the modules](#2-the-modules),
[3 what is checked](#3-what-is-checked), [4 what was found](#4-what-was-found), [5 what is proved](#5-what-is-proved),
[6 what is not modelled](#6-what-is-not-modelled), [7 plan](#7-plan).

## 1. The system and its parts

### 1.1 Inventory

| Part | State it keeps | Operations | What makes it hard | What makes it correct |
|---|---|---|---|---|
| **Relay: workspace roster** (`store.rs`) | `workspaces.key_epoch`, members, devices, invitations, sessions | bootstrap, authenticate, invite, accept, update member, revoke device, delete | a request authenticates once and acts later with a *copy* of role and epoch; checks outside the transaction | an active owner remains; the key epoch names the roster; a current epoch means a current role |
| **Relay: terminal rooms** (`terminal.rs`) | rooms, room invitations, participants with their input sequences, leases, replay frames; hubs in memory | create, invite, join, leave, grant, revoke, close, frames, replay | checks and transactions are separate statements, roster changes close rooms in between; leases expire; frames are committed first and broadcast later; sockets lag | only authorised devices control; no counter comes back; a replay has no hole; a room its host closed keeps nothing; frames arrive once and in order |
| Relay: HTTP, e-mail, metrics | counters | routing, JSON | no state of its own | not modelled |
| **Desktop: transfer queue** (`sftp.rs`, `commands.rs`, `db.rs`) | a token and a target per transfer, a semaphore of 4, files, `transfer_tasks` | enqueue, retry, pause, resume, cancel, the transfer, restart | pause and cancel race with every step; names are resolved, reserved and renamed in steps; look-ups fail; a paused transfer keeps its slot | one writer per target; no user file replaced by a race; a cancellation is final and ends, where the server answers; nothing is left behind |
| **Desktop: SSH terminals** (`ssh.rs`) | the map of sessions, a shared handle per terminal, the reader | open, read, reconnect, input, resize, close | a close races with a reconnection of five attempts and up to 48 s | no shell without an owner, no session without a reader; a reconnection that is answered ends |
| **Desktop: SSH transports** (`ssh.rs`) | idle pool, gates, known hosts | acquire, release, time out, invalidate, verify a host | a lease outlives the invalidation of its pool; two connections verify one host | strict hosts were approved; what is reused is alive (and of the configuration in force: section 4) |
| Desktop: host keys | files | parsing | sequential | not modelled |
| **Desktop: port forwarding** (`tunnel.rs`, `x11.rs`) | a token per tunnel, errors, buffers, channels | start, stop, delete, accept, copy | a thread that ends late removes the entry of its successor | what is listed runs, what runs can be stopped, bytes are kept |
| **Desktop: background tasks** (`task.rs`, `automation.rs`, `batch.rs`) | task records, cancel flags, schedules | start, cancel, step, tick, save | events leave after the lock; one shared token; a clock that goes back | the waiter learns the end; a batch settles; an occurrence runs once |
| **Desktop: command interface, database** (`commands.rs`, `db.rs`) | SQLite rows, the credential store | save, duplicate, share, import, delete, restore, purge | two stores without a transaction; any call may fail, a row also after it was written | the stores agree; a refused command leaves nothing |
| **Desktop: relay client** (`team_relay.rs`, `team_relay_terminal.rs`) | identity, keys, session; outbox, lease, cursors | publish, accept, synchronise; send, receive, reconnect | answers are lost, the application ends between the steps; replay after a reconnection | the desk agrees with the relay; each frame once, in order |
| **Desktop: peer sharing** (`collaboration.rs`, `team_share.rs`) | an ordering window, snapshots | | as above | its window is part of the relay client's model |
| **Desktop: MCP broker** (`mcp.rs`) | clients, grants, approvals, sessions, rules | authenticate, approve, execute, revoke, switch off | an authorisation is taken at one step and used at a later one | an effect was agreed to and stays inside; a revoked request ends |
| **Desktop: plugins** (`plugin.rs`) | publishers, registry, requests | register, enable, run, approve, remove | files are read several times, documents are written without a lock | what runs is what was signed and registered |
| **Desktop: file transfers in the terminal** (`xymodem.rs`, `zmodem.rs`, `kermit.rs`) | block numbers, retries, temporary files | send, receive, cancel | late and damaged answers; who drives the transfer | the file received is the file sent; nothing moves unasked; a cancel ends |
| **Desktop: other sessions** (`local_shell.rs`, `mosh.rs`, `rdp.rs`, `telnet.rs`, `serial.rs`) | a process or a line, a map | open, input, close, reconnect | exit against close, under one lock | a close ends the session; the line has one user |
| Desktop: monitor, logs, assistance | files | sequential | | not modelled |
| **Window: state** (`src/lib`, `src/store`) | copies of tasks, transfers, sessions | events and polls | an event that comes before its listener | a waiter learns the end (with the tasks) |
| Window features, vendored ssh2, scripts | | | | not modelled |

### 1.2 How they interact

* The window calls Tauri commands (`commands.rs`) and receives events (`transfer-progress`, `terminal-status`,
  `background-task`). Commands run concurrently on the Tokio runtime; what blocks runs on its pool.
* Transfers and terminals take a transport of their own (`reusable = false`); SFTP browsing and commands share lanes of the
  pool, one operation at a time through a gate. Transfers, terminals, forwards and batches therefore share no state
  with each other, and each is modelled by itself; what they take of a transport is an outcome.
* An automation runs steps that are commands, transfers and conditions; a schedule starts automations; a batch runs one
  command on many hosts. A step is an outcome for the task that runs it.
* A terminal hands its bytes to Zmodem while a transfer is on, a serial line its port to X/Ymodem or Kermit.
* The relay is reached over HTTPS and a WebSocket. Every handler begins with `authenticate_device` and goes on with the
  `DeviceAuth` it returned; all its lasting state is in SQLite, where a transaction is atomic and a statement outside one
  is a step of its own. `store.rs` closes the rooms of a workspace inside the transactions that change its roster: this is
  where the two halves of the relay meet, and `RelayRoom` composes them.
* The desktop is a device of the relay twice over: as a member (`RelayMembership`) and as host or participant of a room
  (`RelayStream`).

## 2. The modules

| Module | Code | Promise it is compared with |
|---|---|---|
| `RelayAccess` | `store.rs`: roster, epochs, authentication | is itself the promise of `RelayRoom` |
| `RelayRoom` | `terminal.rs`: rooms, leases, frames, over `RelayAccess` | implements `AccessSpec` (proved) |
| `RelayStream` | `terminal.rs` sockets and hubs, `team_relay_terminal.rs`, `collaboration.rs` | implements `OrderedStream`, once for output and once for input (checked and proved) |
| `RelayMembership` | `team_relay.rs`, `team_share.rs`, the requests of `store.rs` | |
| `TransferQueue` | `sftp.rs`, `commands.rs`, `db.rs` | |
| `SshTransport`, `SshTerminal`, `ZmodemSession` | `ssh.rs`, `zmodem.rs` | |
| `Forwarding` | `tunnel.rs`, `x11.rs`, the bridge of `ssh.rs` | |
| `TaskRegistry`, `Batch`, `Scheduler` | `task.rs`, `automation.rs`, `python_automation.rs`, `batch.rs`, `background-task.ts` | |
| `ConnectionStore` | `commands.rs`, `db.rs`, `bookmark.rs`, `backup.rs`, `team_share.rs` | |
| `McpBroker` | `mcp.rs`, `bin/cnshell-mcp.rs` | |
| `PluginTrust` | `plugin.rs` | |
| `ChildSession`, `SerialSession`, `BlockTransfer` | the other sessions, `xymodem.rs`, `kermit.rs` | |
| `NoValue` | the constant `None` | |
| `MC...` | instances for TLC; `MCComponents`, `MCDesktop` and `MCLines` hold several components that share nothing: a behaviour is one of the component the variable `part` names, the others rest | |
| `..._proofs` | theorems and their proofs (section 5) | |

Every definition models the lines that `PROJECT.json` names under `map`. Definitions whose comment begins with *Fault*
are not part of any specification: each is a definition of the model as a plausible mistake would have it (a guard
dropped, an order swapped), kept beside the right one so that each property can be seen to fail when the code is wrong.
The variables and actions of each module are commented where they are declared; what follows is how they were chosen.

### 2.1 Relay

**`RelayAccess`.** A *device* stands for a member too: every member has one device here, which is the case the epoch
rules are about. `workspace`, `keyEpoch`, `member` and `device` are the rows; `auth[t]` is the `DeviceAuth` a request `t`
holds, a copy that ages; `inviting` the requests between the count and the insert of `create_workspace_invitation`.
One action per transaction: `Authenticate`, `CountInvitations`, `InsertInvitation`, `ExpireInvitation`,
`AcceptInvitation`, `UpdateMember`, `RevokeDevice`, `DeleteWorkspace`, and `Reject` for every check that fails and every
caller that goes away.

**`RelayRoom`** adds the tables of the rooms. What a request's separate checks established is its `job[t]`, so that the
transaction that follows can run against a different state: `Check` collects the actions that only look, `Commit` the
transactions. `ChangeRoster`, `UseStore` and `EndRequest` take the steps of `RelayAccess` with what they do to the rooms.
`CreateRoom` prunes the history first, `AcceptOutput` the replay window afterwards, as the handlers do: by age, which is of
the wall clock (`SetClockBack`; `ahead` is the first output stamped since), then by number. Payloads are their sequence
numbers; leases and invitations expire by an action of their own. A room id is used once, as a UUID is.

**`RelayStream`** follows the frames of one room from the outbox of one client to the window of the other. `room` is the
`ManagedRoom` of each client, `socket` the `handle_socket` task of each connection with its phase (subscribe, read the
cutoff, replay, loop), `hub` the broadcast channel with its bounded size, `up` and `down` what is under way. A frame is
committed (`CommitOutput`) and broadcast (`AirFrame`) in two steps, so hubs may see them swapped; a hub that is full
loses the oldest. Who may do what is left to `RelayRoom`, and so is a clock that is set back: here age takes the oldest frames.

**`RelayMembership`**: `site` is the relay as one desktop sees it, `mine` its database, `keys` its key store, `job[j]` the
commands that run. Each request, query or key-store call is a step; a request or its answer is lost (`RequestLost`, at
either side of its effect); `Crash` ends every command and keeps the two stores.

### 2.2 SSH, transfers, forwards

**`SshTransport`**: `op[o]` is an operation from the gate over each hop to the release of its lease; `idle`, `gate` and
`known` are the pool, the gates (replaced when an operation times out) and `known_hosts`; `approved` remembers what the
user trusted, to compare with. `SaveConnection`, `SaveProxy` and `TrustHost` invalidate first and write later (`WriteRow`).

**`SshTerminal`**: `handle[s]` is the shared `TerminalHandle`, which lives as long as the map, the reader or a close in
progress has it; `alive[s]` are the shells nobody has closed. `Capture`, `Wake`, `Connect`, `OpenPty`, `NextAttempt`,
`Abandon`, `Replace` are the reconnection (`OwnStep` those that wait for no server), `Remove` and `Shut` the two halves of a close.

**`ZmodemSession`**: each step holds the lock of the handle. `Detect`, `KeepBytes`, `TransferBytes` and `FinishFeed` are
`route_terminal_bytes` and what it calls, `Start`, `Cancel`, `Expire`, `Disconnect` what comes from elsewhere; the remote
program may send its frames in any order.

**`TransferQueue`**: `pc[t]` is where the task spawned by `enqueue` is, `work[t]` its `TransferTask`, `token[t]` the shared
atomic, `target[t]` the reservation, `slot` the permits, `disk` and `part` the files, `row` and `shown` the table and the
last event; a transfer in `calling` waits for its server, which may be one that never answers (`Silent`). `Resolve` takes a look-up that fails for absence, as `exists()` and `stat().is_err()` do. `Show` may fail to
store the row. `Restart` ends everything at any point. Names are numbers: `n + 1` is what the rename policy makes of `n`.

**`Forwarding`** has three next-state relations that share nothing: tunnels (`run` the threads, `running` the map; `asking` is the wait for a server that was asked to listen), the byte
bridge (`side`, `pump`; a byte is its number) and the X11 forwarder (`xchan`, `dispatcher`).

### 2.3 What runs without the user

**`TaskRegistry`** has the registry, an automation with its transfers, and a waiter of the window with the events on their
way to it. **`Batch`** has the targets, the bounded number at work and the one token. **`Scheduler`** has the list of
schedules (one row, loaded and written whole by `Tick...` and by the commands), a wall clock `Wall` that may show a time
twice, and `Relaunch`. **`McpBroker`** follows a request (`RequestStep`) through authentication, admission, confirmation,
approval and execution, with every change the user may make in between. **`PluginTrust`** gives each command of `plugin.rs`
its steps, with `FileChanges` between any two. **`ConnectionStore`** takes a command as the sequence of its calls on the two
stores; any of them may be refused (`RefuseStep`), a statement that reads its row back also after it has written it, which
starts the undoing that the code does by hand; `lacking` are the secrets and bookmarks that such a row, or an imported one,
refers to and may not have. `LongPath` are the files whose bookmark the credential store of Windows does not take.

### 2.4 Lines

**`ChildSession`** is one session of any of the four kinds, with the lock that input, close and the waiting thread share;
`held` says that another process has the terminal open, so that the end of the first is not the end of what the thread
reads. **`SerialSession`** is the reader, a close, and transfers that borrow the port, the parts of a Kermit transfer
(helper, two carrying threads) apart; what carries the output may be blocked in a flush. **`BlockTransfer`** is both ends of
X/Ymodem with the messages between them; a message is damaged (`Damage`) or comes late (a time-out while it is on its way).

## 3. What is checked

| Run | Instance | What it shows |
|---|---|---|
| `components` / access | 2 devices, 2 requests, 1 invitation, epochs to 4 | `ActiveOwnerRemains`, `EpochNamesRoster`, `CurrentEpochMeansCurrentRole` |
| / transport | a strict host behind one that accepts new keys, 2 keys, 2 operations, 1 idle, 1 edit | `StrictHostsApproved`, `ReuseIsAlive` |
| / store | a connection of each kind of authentication, deleted or not, an id for a copy, a proxy; 2 values, one a path too long for a bookmark; 2 commands one after the other, 1 fault | `StoresAgree`, `FailedCommandUndoes` |
| / stream | 3 connections, 2 outputs, 1 input, 1 lease, a window of 2, a hub of 1; from rooms under way | `StreamsAreOrdered` (a refinement), `LossIsNoticed` |
| / mcp | 1 client, 4 requests of different tools, 3 changes by the user | `EffectsAreAuthorised` |
| / schedule | 2 schedules of 4 kinds, a clock put back at tick 3 of 4, 2 launches | `OccurrenceRunsOnce` |
| `relay` | host and guest, 2 requests, epochs to 3; either 1 room with 2 grants, or 2 rooms with a cap of 1, no history, 4 outputs in a window of 3, a clock set back | `LeaseHolderAuthorised`, `InputIsAuthorised`, `HostCloseIsFinal`, `CountersNeverRewind`, `ReplayWindowHasNoGap` |
| `transfer_files` | 2 downloads, 3 names, policies overwrite, ask and rename, 2 slots, 1 restart | `OneWriterPerTarget`, `UserFilesSurvive`, `LeavesNothingBehind` |
| `transfer_live` | 2 uploads (SFTP or SCP), 2 names, 1 slot, 1 server that may stay silent | `CancelIsFinal`; with fairness `CancelEnds`, `QueueAdvances` |
| `desktop` / terminal | 1 session, 3 shells, the real 5 attempts | `NoShellLeaks`, `ReaderSettles` |
| / mcp | as above | `RevokedRequestsEnd` |
| / task, batch | 1 task with a plan or a script; 3 targets, 2 at a time | `WaiterLearnsTheEnd`, `BatchSettles` |
| / tunnel, bridge, x11 | a forward started twice; 3 bytes each way; 2 channels for 1 place | `ListedRunsLive`, `BridgeLosesNothing`, `ForwardsCanBeStopped` |
| `lines` / local, mosh, rdp, telnet | 1 session, 1 other process on its terminal | `CloseEndsSession` |
| / serial | an X/Ymodem and a Kermit transfer, 1 reconnection | `LineHasOneUser`, `CancelledKermitEnds` |
| / blocks | 4 blocks with numbers modulo 4, 2 retries, 1 damaged or lost message | `ReceivedIsPrefix` |
| / membership | 2 ids, 2 commands, lives of 1 and 2 hours, 2 epochs | `MemberAgreesWithRelay` |
| / plugin | 2 versions, 2 commands, 1 change of the files | `RunsWhatWasSigned` |
| / zmodem | 2 detections, 2 files, 2 pieces of the wire | `ZmodemAsksFirst` |

The three compositions also check one type invariant each (`ComponentTypesOK`, `DesktopTypesOK`, `LinesTypesOK`). Six runs
fail, each on one property that states what a document of the repository says (section 4): `relay_stale_room`,
`transfer_rename`, `terminal_orphan`, `transport_reuse`, `serial_cancel`, `zmodem_download`.

### Bounds, and why they are enough

* **Two actors** (requests, operations, commands, transfers, jobs): every hazard here is one of them overtaken by one other
  while it holds a copy or a check. Time-outs, expiries, failures, crashes and the user come on top, as actions of nobody.
* **Relay**: the control part starts with both devices as members and one change of role, status or device overtakes the
  requests authenticated before it; the output part starts before the guest's acceptance, so a room of the first epoch
  is outlived by the acceptance that closes it. Four frames in a window of three prune its end and, after a clock step, its middle; two rooms reach a cap of one.
* **Stream**: one connection is left to make while two are up, so a client reconnects with frames on their way; a hub of one
  loses a frame as soon as two are broadcast; a window of two is left as soon as one frame is missing.
* **Transfers**: two contend for a name, a slot and a reservation; of the names 0..2 two can be asked for and may be taken,
  so that a rename goes past a taken name. Pulses lie before and after the one chunk.
* **Store**: one fault breaks a command at any call, before or after a row is written, or the undoing of what the environment made fail; the properties say
  nothing of a command whose undoing is refused too.
* **Terminal**: two shells of a session may live at once; the third is the one left when a new one is taken.
* **Blocks**: the numbers come round after as many blocks as there are numbers, and the retries are at least two less than
  the numbers, as the real ones are (16 and 256). The run has one file and one damaged message; batches and more noise are
  the matter of section 5.
* Caps (rooms, slots, pending approvals, hub, window, wire) are lowered so that they are reached; each is a constant.
* Symmetry is used over requests, rooms and transfers only, and never in a run with a liveness property.
* `CHECK_DEADLOCK FALSE` everywhere: users and servers may all stop, rooms, sessions and transfers end, and the bounds end
  the rest. That nothing waits for ever is what the liveness properties say.

### Fairness

The relay, streams, transports, stores, schedules, membership, plugins and Zmodem have none: their properties are safety.
Elsewhere weak fairness is assumed of the code's own next step, and only where nothing outside has to act for it:

| Specification | Fair | Not fair, because the code sets no time-out |
|---|---|---|
| `TransferQueue` | a transfer's own step while it waits for no answer | a call on the server: "a normal transfer queue has no SSH operation timeout" (`sftp.rs:1959`); a transfer in one does not look at its token |
| `SshTerminal` | what the reader does by itself; the blocking half of a close | an attempt to connect or to open a shell: the handshake runs in `spawn_blocking` (`ssh.rs:1156`) |
| `TaskRegistry`, `Batch` | a task's steps, the waiter of the window, the batch and its targets | the handshake of `verified_connection` (`automation.rs:580`, `661`; `ssh.rs:2147`), which is outside the time-out of the command; other steps have theirs |
| `Forwarding` | the thread of each tunnel once it accepts, the dispatcher, the setting up of a channel and its end once the forwarder stops | the handshake, the answer of a server asked to listen (`tunnel.rs:261`), the greeting of a SOCKS client (`tunnel.rs:141`) |
| `McpBroker` | a request's own step, the approval's time-out included | the handshake for a command, each answer in a transfer (`Unbounded`); file operations have a limit on both (`sftp.rs:227`); the user's decision |
| `ChildSession` | the threads, the tail of a close, an input whose peer is gone | a process exits, takes its input, or lets go of the terminal |
| `SerialSession` | the threads of a transfer; a helper that is killed dies | a device takes what the output carrier flushes (`kermit.rs:298`) |

No fairness is assumed of users, peers, servers, errors, noise or restarts: nothing *has to* break, and nobody has to
answer. So each liveness property names the waits that may last for ever, and says that nothing else does:

* `CancelEnds`, `QueueAdvances`: a transfer in a call that is never answered; for the queue also one that is paused again
  and again;
* `ReaderSettles`: an attempt that is never answered, and the orphan shell of section 4;
* `WaiterLearnsTheEnd`, `BatchSettles`, `RevokedRequestsEnd`, `ForwardsCanBeStopped`: the waits of the table, when they last
  for ever. Of a task a cancellation is told even then;
* `CloseEndsSession`: the lock held for ever by an input nobody takes, a process that left its terminal and never exits,
  another process that keeps the terminal open for ever; a passing wait of any of these excuses nothing;
* `CancelledKermitEnds`: an output carrier blocked for ever, which the transfer joins (`kermit.rs:196`).

## 4. What was found

Six runs end in a counterexample; `PROJECT.json` quotes the line each contradicts.

1. **A room of an old epoch** (`terminal.rs:68`, `relay_stale_room`): `create_room` compares two copies of the epoch; a
   room created after a roster change is active, cannot be used or closed, and counts against the cap.
2. **A failed stat is taken for absence** (`sftp.rs:2135`, `transfer_rename`): the rename policy replaces a file.
3. **An orphan shell** (`ssh.rs:1696`, `terminal_orphan`): a terminal closed while its reader connects comes back without
   an entry, and nothing in the application can close it.
4. **A transport of the old configuration** (`ssh.rs:205`, `transport_reuse`): what is in use while a proxy or a host key
   changes returns to the pool under a key that did not change.
5. **A cancelled X/Ymodem transfer spins** (`serial.rs:406`, `serial_cancel`): `Interrupted` is what `read_exact` and
   `write_all` retry.
6. **A Zmodem download is dropped when its first file starts** (`ssh.rs:1891`, `zmodem_download`): every status is taken for
   an end.

Also met while modelling, and kept with the hazards in `PROJECT.json` rather than as runs:

* relay: the caps on pending invitations, members and participants can be exceeded (count and insert are separate, or the
  count is skipped); a lease may be granted to a device that left in between (it cannot be used: `InputIsAuthorised`);
* relay: `process_frame` (`terminal.rs:602-644`) does not test the status of the room, so input on its way while a roster
  change closes the room is accepted there, although its sender may just have lost its role: `docs/SECURITY.md:25,27` and
  `docs/TEAM_RELAY.md:29` have every operation look at the present role (`WasAuthorised` in `InputIsAuthorised`);
* relay: frames are pruned by the wall clock (`terminal.rs:924`) and `replay` looks at the first and the last only, so after
  a clock step a replay may have a hole, against `docs/TEAM_RELAY.md:35` (`ahead` in `ReplayWindowHasNoGap`);
* liveness: the waits without a time-out of the table above: a cancelled transfer, a stopped tunnel, a
  batch, a revoked MCP request or a cancelled Kermit transfer may last as long as its server or device is silent;
* connections: `save_connection`, `insert_connection` and `save_proxy` write their row and then read it back
  (`db.rs:191`, `203`, `440`); if only the second fails, the command takes its secret and bookmark away and the row stays
  and refers to them, and nobody removes a copy so inserted (`lacking` in `StoresAgree` and `FailedCommandUndoes`);
* connections: on Windows a long path leaves no bookmark (`bookmark.rs:48`), as `docs/SECURITY.md` says;
* transfers: a cancellation after the last look at the token (`sftp.rs:1921`) ends as completed; the temporary file of a
  transfer that ran when the application ended stays; a file that another transfer finishes between the choice of a
  free name and its reservation is replaced (`UserFilesSurvive` is about the files of the user);
* forwards: a tunnel's late `finish` removes the token of the next run, which then lives and cannot be stopped
  (`EndedLate` in `ForwardsCanBeStopped`); a silent SOCKS client keeps the thread;
* schedules: of a cron expression with several matches in the repeated hour only the last is remembered; the list is read
  and written without a lock (both exempt in `OccurrenceRunsOnce`, by name);
* telnet: the 200 ms read time-out comes as `WouldBlock`, which ends the session (`telnet.rs:146`);
* Ymodem: an EOT is not compared with the size in the header (`xymodem.rs:261`);
* MCP: a request authenticated before a revocation may still ask for an approval or open a session;
* membership: a crash between the snapshot and the deletion of a pending acceptance (`team_relay.rs:1328`), or an account
  refused at the wrong moment, can cost the keys of a registered device (`spoiled`);
* plugins: two commands that write a document whole undo each other, so a revocation can be lost.

## 5. What is proved

For every value of the constants that satisfies the modules' named assumptions: counts and bounds are naturals, some of
them positive, `None` is not a value, subsets are subsets. Each theorem is of the specification of its module, so what is
proved holds with any number of requests, rooms, connections, commands or bytes. An invariant of a run is seldom
inductive; each proof names the strengthening, one lemma per action, and the last step is temporal.

| Module | Theorems | The inductive invariant, and why it is needed |
|---|---|---|
| `RelayRoom_proofs` | `AccessTypeCorrect`, `EpochNamesRosterHolds`, `CurrentEpochMeansCurrentRoleHolds`, `ActiveOwnerRemainsHolds`; `RoomTypeCorrect`, `RoomImplementsAccess`, `LeaseHolderAuthorisedHolds`, `GuestsAreActiveHolds`, `HostCloseIsFinalHolds`, `ReplayWindowHasNoGapHolds`, `CountersNeverRewindHolds`, `InputIsAuthorisedHolds` | `AuthInv`: a copied epoch never exceeds the key epoch, and where they are equal, role and status are those of the row; kept because the roster changes only with the epoch. `AnotherOwner` turns the count of owners into a second owner. `RoomSafe`: what each check found, carried to the transaction that relies on it for as long as the room is active (`TargetInv`, `RecipientInv`, `InvitedInv`); a roster change closes every room and makes it vacuous, and an id is not used again. Input: a frame on its way is of a request of the room's own epoch, which is the present one until a roster change closes the room. The window: what is kept of the outputs stamped since the clock was last set back is an interval that ends at `nextOutput - 1` |
| `RelayStream_proofs` | `StreamInvHolds`, `StreamsAreOrderedHolds`, `LossIsNoticedHolds` | `StreamInv`: an outbox is the end of what its client has sealed, nothing under way says more than the relay has committed. `LossIsNoticed` needs the converse for the receiver, `InStep`: what it still lacks is, in order, what its connection still has to give; this breaks exactly when a hub loses or swaps a frame, hence `NoticeInv` |
| `TransferQueue_proofs` | `QueueTypeCorrect`, `QueueInvHolds`, `OneWriterPerTargetHolds`, `CancelIsFinalHolds`, `UserFilesSurviveHolds`, `LeavesNothingBehindHolds` | `QueueInv`: reservations differ, a reservation is the name its transfer works on except between choice and reservation, who runs has a slot, a backup belongs to who renames. `WorkStep` says what a step may do to a `TransferTask`, so one lemma expands its record |
| `Desktop_proofs` | `TerminalTypeCorrect`, `RegisteredIsServedHolds`, `NoShellLeaksHolds`; `PoolInvHolds`, `PoolTypeOKHolds`, `StrictHostsApprovedHolds`, `ReuseIsAliveHolds`; `TunnelInvHolds`, `ListedRunsLiveHolds`, `BridgeInvHolds`, `BridgeLosesNothingHolds`, `X11TypeOKHolds` | `TerminalInv`: who needs the handle finds it, and a shell opened and not installed is the reader's. `PoolInv`: a transport is the way of the operation that made it, whose hops were checked against a record of trusted keys, so that sharing it shares no more than that. `BridgeInv`: read is written plus buffered, in order |
| `ConnectionStore_proofs` | `StoreInvHolds`, `StoreTypeCorrect`, `StoresAgreeHolds`, `FailedCommandUndoesHolds` | `StoreInv`: for each command, step by step, what it has made of the entries of its ids so far (`EntryOK`), while no other command meets it on an id (`CallsApart`, otherwise the id is tainted); and a row refers to no more than its id has, but for what `lacking` names. The run has one command at a time; the theorem any number |
| `Automation_proofs` | `McpInvHolds`, `EffectsAreAuthorisedHolds`, `McpTypeCorrect`; `ScheduleTypeCorrect`, `ScheduleInvHolds`, `OccurrenceRunsOnceHolds`; `TaskInvHolds`, `TaskTypeCorrect`, `WaitersAgreeHolds`, `TaskEndsOnce`; `BatchInvHolds`, `BatchTypeCorrect`, `EndedIsSettledHolds` | `McpInv`: decisions and rules are what the user agreed to; who is past its approval was agreed to and is confined; a consumed local grant has one user. `ScheduleInv`: a row remembers what it has run, its next run is new to it, and an edit under way knows the row it comes from; a round may hold an old copy of both. `RuntimeInv`: a session is named after a request, which stays its client's. `TaskInv`: what a task has ended as was its future's last step or a cancellation, whose token turns later updates away, and events of ends tell it. `BatchInv`: a target's status follows its future, and a permit is what lets it work |
| `Lines_proofs` | `SerialInvHolds`, `LineHasOneUserHolds`; `PluginInvHolds`, `RunsWhatWasSignedHolds`, `PluginTypeCorrect`; `ZmodemAsksFirstHolds`; `MembershipTypeCorrect`, `MemberInvHolds`, `MemberAgreesWithRelayHolds`; `ChildTypeCorrect` | `SerialInv`: `transfer_active` is set exactly while one transfer has claimed it, and a reader past the top of its loop has no transfer beside it, whatever `reader_paused` was left at. `PluginInv`: what each command knows at each step. `MemberInv`: what was read of the relay is no later than it; a device drawn is known to one command until it is written down; keys are given up only when the relay has not registered them and no longer will |
| `BlockTransfer_proofs` | `BlocksTypeCorrect`, `BlocksInvHolds`, `ReceivedIsPrefixHolds` | `EndsOK` needs no bound on the noise: so neither end exceeds its retries at any noise. `BlocksInv`: what the receiver expects is the number of what it has written, and one (`Numbered`); blocks are on their way in the order of the file and none before what was received; of the blocks missing between two on their way, none but the damaged; of those missing behind the receiver, none but the damaged and the refused. So `HeadIsNext`: a block with the expected number is the next one. Between two files of a batch an EOT is on its way, two while nothing was damaged |

The refinements. `RoomImplementsAccess`: every step of the rooms is a step of `AccessSpec` or leaves the roster alone (a
commit ends its request, which `AccessSpec` sees as `Reject`), so the theorems about the roster hold of the composition.
`StreamsAreOrderedHolds`: under `Output` and `Inputs`, two instances of `OrderedStream` with what was sealed for `sent` and
what was taken for `given`, every step is a send, a delivery of the next piece, or a stutter; there is no delivery of
a piece twice, out of order, or before it was sent. The theorem starts from a room without connections
(`StreamRoomInit`); the run starts from rooms under way, to reach further.

The block numbers. `BlocksInvHolds` and `ReceivedIsPrefixHolds` have a hypothesis, `LittleNoise`, in two parts. The messages
damaged in the whole transfer and the retries are together fewer than the numbers (for `xymodem.rs`, 16 retries and 256
numbers: up to 239 damaged messages; the code itself counts the errors of each block, not of the transfer). And of the
damaged messages of a batch at most one is an EOT. Both are bounds on the line, not on the program, and the property needs
them: enough noise, with a lost answer for each block, leads a sender round all the numbers past its receiver; and in a
batch a header is a block of number 0, and so is the last block of a file of a multiple of 256 blocks. Where that block and
both EOTs after it are lost, and an answer becomes the request for the next file, the receiver takes the next header for the
lost block. These are four damaged messages, and TLC finds them (7 blocks, 2 files, numbers modulo 7, `MaxRetries` 2); with
three, or with at most one EOT among the four, it finds nothing. A header that comes after the whole file is acknowledged as
a block too, but `receive_data_blocks` writes no more than the size it was told (`Written`).

**Only model-checked.** Liveness is beyond the prover's logic (it has no `ENABLED`): `CancelEnds`, `QueueAdvances`,
`ReaderSettles`, `RevokedRequestsEnd`, `WaiterLearnsTheEnd`, `BatchSettles`, `ForwardsCanBeStopped`, `CloseEndsSession`,
`CancelledKermitEnds`. Of `WaiterLearnsTheEnd`
and `BatchSettles` the safety halves are proved (`WaitersAgree`, `EndedIsSettled`), the rest is liveness. The three joint
type invariants belong to compositions for TLC; of their parts, that of Zmodem (whose decoder is a recursion over what
it is given) is checked only, the others are proved.

## 6. What is not modelled

Everything `PROJECT.json` lists as *not_modelled*, with its reason. Within the modelled parts: accounts, e-mail
verification, passwords, device challenges and audit records of the relay; cryptography (a frame is its sequence number, a
key its epoch or version); directory listings, remote editing and recursive operations of `sftp.rs`; encrypted backups,
folders, settings and the WebDAV synchronisation; the direct sharing over WebRTC; bytes of terminals; the Zmodem protocol
itself; the sandbox of the plugins; the window's copies of transfers and sessions. Time appears as an expiry or a
time-out that may come at any moment, except where its order matters (schedules, the lives of invitations).

## 7. Plan

Nothing is planned that the models above would need to be complete. Worth adding, in this order:

1. an abstract transfer, whose status goes forward and ends once, with `TransferQueue` shown to implement it step by step;
2. `ReceivedIsPrefix` in a batch where an EOT of each file is damaged, but never both of one;
3. the window's copy of transfers (`transfer-sync.ts`), composed with `Show`.
