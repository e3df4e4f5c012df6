# Formal models of ServerBox and its monitor agent

TLA+ specifications of the stateful parts of this repository, the TLC
configurations that check them on small instances, and proofs that TLAPS checks
for every instance. The models follow the source, function by function;
`PROJECT.json` has the lines behind each definition.

    tlc -config Access.cfg MCAccess.tla
    tlapm AccessProofs.tla

## 1. The system

Three programs share the repository. The **monitor agent** (`monitor/src`, Rust)
runs on a server: it samples metrics, evaluates alert rules, and offers its
owner a terminal, an SSH tunnel, files and commands over WebSockets and HTTP.
The **panel** (`monitor/frontend`, Svelte) is its browser client. The **app**
(`lib`, Flutter) connects to servers over SSH or through the agent. The crates
under `crates` parse command output and read native metrics.

| Component | State | Operations | Interacts with | What is hard, and what makes it correct |
|---|---|---|---|---|
| Terminal server (`api/ws/terminal.rs`, `session.rs`) | store of sessions; per session the attached sender, the detach clock and the scrollback; per socket a phase | open, answer, attach, close, disconnect, publish, pump, reap | sockets, SSH or a local PTY, the store shared by worker threads | takeovers and detaches race on two locks; tasks wait on channels others must close. The cap and the account hold, abandoned sessions leave, a close ends the shell |
| Scrollback (`session.rs`) | ring and byte counter | push, replay_from | publish, attach | edges of the ring. Always the newest bytes; a replay is exactly the gap |
| Resume in the browser (`terminal.svelte.ts`) | rendered counter, its stored copy, renderer buffer | connect, onControl, onOutput, onError, persist, reload | attach and pump of the agent | lost links at any point, a throttled save, a bounded queue. Nothing missing, nothing twice, the counter never leads |
| Settings (`core/config.rs`, `config_file.rs`, three handlers of `server.rs`) | `config.toml` and its backups, startup snapshot, live settings, off-switch | load, migrate, read-modify-write, backup, prune | handlers, monitoring loop, file system | crashes and power loss between steps, two saves, cancelled requests. No lost update, no torn file, an off-switch that stays off |
| Start of the process (`core/config.rs`, `db/bootstrap.rs`, `cli/cli.rs`) | `jwt.secret`, the account, tokens | generate, store, print, serve, log in | settings, database | killed between any two effects, started twice. A real secret, tokens that outlive restarts, a password somebody has |
| Tickets (`api/ws/ticket.rs`) | map of one-shot tickets | issue, consume | both WebSocket endpoints | used once, in time, for its purpose and account |
| Tunnel (`api/ws/tunnel.rs`) | count of live tunnels, a relay per socket | acquire, relay both ways, keepalive | sshd | the cap, slots given back on every way out, liveness of the keepalive, bytes before the end |
| Login throttle (`api/ratelimit.rs`, `server.rs` login) | failures per address and per account, permits | check, verify, record | password verifier | checked before awaits and recorded after them; dropped requests |
| Access rules (`core/remote_access.rs`, `api/ws/mod.rs`) | configuration, the off-switch | resolve, /capabilities, every door's own check | all remote endpoints | rules derived in several places. What is told is what happens |
| Exec (`api/exec.rs`) | three pipes, a child, a deadline | feed, collect, kill | the shell | everyone waits on a full pipe. Always an answer, never a part of one |
| Files (`api/fs.rs`, `fs_roots.rs`) | the directory, a staging file per request | read, write, remove, rename, chmod, mkdir | file system, other requests | awaits between resolving and acting, dropped requests. Whole files only |
| SSH client, known hosts (`ssh/client.rs`, `known_hosts.rs`) | a connection, one record per address | dial, verify, authenticate | sshd, database, terminal server | SELECT and INSERT with an await between. A pin is never replaced by a race |
| Local shell (`ssh/local_pty.rs`) | two threads, one channel, a child | read, reap, write, kill | terminal server | output before exit, nobody waiting on everybody |
| Monitoring loop (`monitoring/monitoring.rs`, `velocity.rs`, `timeseries.rs`) | current metrics, baselines, series, live settings | sample, run the script, carry forward, feed, publish | settings, database, viewers | fast and slow cycles, stale values carried forward, time between a sample and its stamp, one lock for viewers and loop |
| Rules and push (`threshold.rs`, `size.rs`, `rules.rs`, `push.rs`) | quota of each push | parse, compare, send | monitoring, push services | formats that shadow each other, a quota checked before the await and charged after it |
| Custom commands, status script (`custom_cmds.rs`, `script.rs`) | a directory, one stream of output | replace, run, cut into sections | monitoring, the app over SSH | a swap of files the script is walking over, output that looks like a marker |
| Parsers, native metrics (`sbm_parser`, `sbm_native`) | none | tables of commands, capabilities, merge | monitoring | what is announced is what is filled |
| Database (`db/*`), history endpoint | SQLite tables | store, retention, size cap, buckets | monitoring | failing statements, the trimming loop, gaps and NULLs in the charts |
| App (`lib/data/provider`, `lib/data/ssh`, `lib/core`) | connection state per server, persistent shells, forwards, sync | connect, retry, refresh | servers, agent | retries and stale answers after awaits. Not modelled |
| UI, platform glue, website, generated bindings | none | layout | | not state machines |

What is hard to test, line by line, is `hazards` in `PROJECT.json`.

## 2. The modules

`MC` modules hold instances, the composition of modules that are checked side by
side, and properties that need operators only TLC should see; `Proofs` modules
hold the theorems. Operators marked MUTANT are deliberate bugs that no
specification uses: each breaks a property when it takes the place of the
operator next to it. Every module's head says what its grain is (where a step
ends), what is external and what is abstracted.

**Sessions.** A step of `TerminalSessions` ends at every await. Worker threads
run in parallel and share sessions behind mutexes, so two lock acquisitions of
one function are two steps where another thread matters: `BeginDetach` and
`EndDetach` (`session.rs` 218-221), `AttachGet` and `AttachTake` (`terminal.rs`
684 and 708). Tasks of one connection share one thread; `Steady` says that none
of them runs between such halves.

| Code | Model |
|---|---|
| `SessionStore.sessions` | `store`; `owner` is `Session.subject` |
| `Session.attached`, `detached_at` | `attached`, `detachedAge` (time elapsed, in ticks) |
| the channel of an attach, its receiver | `queue[k]`, `pump[k]`, named by the frame whose handler made it |
| `Arc<Session>` and the senders in it | `Referenced`, `SenderLive`, `InputEnds`: a receiver ends when no reference to its sender is left |
| `Phase` | `phase`, with the session of `Running` in `current` |
| the session's input queue, what keystrokes and resizes put into it | `input`, `Input` (of the connections in `Typists`) |
| the await of `input.send(Close)` | `CloseFrame`, then `CloseSent` when `input` has room or nobody reads it any more |
| a write to the shell, which may never come back | `DriverTakes`, `WriteDone`; `shell` is "writing" in between |
| `handler`, `on_disconnect`, `Frame::Close` | `Lose`, `IoClosed`, `OnDisconnect`, `PeerClose` |
| `drive_shell`, `drive_local_shell` | `ShellData`, `ShellExit`, `ShellLost`, `DriverStops`, `DriverEnds` |
| `pump_output` | `PumpData`, `PumpBreaks`, `PumpExit`, `PumpSuperseded` |
| `reap_at` | `Reap`; `Tick` moves the clocks |

`Scrollback` is the ring as operators; `TerminalResume` extends it to the bytes
of one session on their way to one screen. A byte is its position in the output,
so a screen is a set of positions and a replay can be asked which bytes it has.
`Attach` is one step because `Session::attach` holds the lock that `publish`
needs. `saved` is the copy in `sessionStorage`, left behind by the throttled
save; `Reload` starts a page from it. `lossy`, `cut` and `overlap` remember the
three things under which the code does not keep its promise (section 4).

**Settings and start.** In `SettingsFile` a PUT handler takes `config_write`,
reads the file, changes its own fields, creates a backup, fills it, prunes, writes
a temp file, flushes and renames it, and applies the change; each is a step, so
that a crash can fall between any two. A backup is a file like any other: created
empty (`OpenBackup`), perhaps left cut (`CopyFails`, `Crash`), never flushed; and
`Prune` may fail to list the directory or to remove any of the stale copies.
Requests are cancelled at their awaits only. `toml` carries whether its contents
are flushed, and `earlier` the directories a power loss may bring back. `Startup` takes the process from there to the open
port: `Load`, `LookForFile`, `OpenFile` and `FillFile` (`resolve_jwt_secret`),
`CountUsers`, `InsertAdmin`, `PrintAdmin` (`db/bootstrap.rs`), `start_server`,
with `Die` between any two, two processes at once, `set_password`, and an
operator who edits the settings or deletes the secret. `jwt.secret` is never
flushed: `onDisk` is what a `PowerLoss` may leave of it, after tokens were given
out as before. The database flushes what it commits.

**The ways in** (composed in `MCAccess`). `Tunnel` models both WebSocket doors
up to the upgrade: `Issue`, `Present` (`consume`, under one mutex), then the load
and `CompareExchange` of the tunnel's counter, between which other handshakes
step, and every way a guard is dropped. `Admission` is what that promises with
neither clock, store nor counter; `Doorway == INSTANCE Admission WITH ...` in
`Tunnel` is the refinement mapping and `Admits` the property. `TunnelRelay` is
one open tunnel: frame handler, bounded queue, writer, reader with its write
capacity, and keepalive. `LoginThrottle` is the handler of `/login` around the
throttle's mutex and the permits of the password check, with requests dropped
while a check runs on (`HangUp`, `OrphanDone`). `LocalShell` has the reader's and
the reaper's threads, the gate between them, the event channel and the blocking
write of the driver. `RemoteAccess` has `resolve`, `/capabilities` and each
door's own check, over the two kinds of link.

**What a caller does** (composed in `MCRemoteOps`). `RemoteFiles`: each
`tokio::fs` call is a step, names are resolved once before the first, and inodes
and names are told apart, so that a write in place through an open handle or a
link is visible. A read starts at the `offset` its client gave; a failed write's
staging file may stay, because its removal is not looked at. `RemoteExec`: the two pipes, the feed and the reads of one
future, and the deadline that drops it. `SshHost`: `connect`, `verify` as SELECT
and INSERT OR IGNORE, the stashed rejection, authentication, shell.

**The monitor** (composed in `MCMonitoring`). `Monitoring` is the loop: `Begin`,
`ScriptFails`, `Collect`, `Feed`, `Publish`, with polls, saves of the settings
and of the commands in between; samples are names, so that a carried value can
be traced to the run it came from. `Velocity` gives the samples their times and
makes rates of them, over a counter whose true rate is known. `VelocityLock` is
who waits for whom on the calculator's lock. `Aggregates` has the sums of disks,
CPU and memory, over what a backend gathers (`Gathered`): devices from `df`,
volume labels from sysinfo, several of which may lie on one container (`On`). `Thresholds` has the text of a rule, by parts, and when it
alerts; `PushQuota` the order of rules and pushes around the awaited send, and
what each sender makes of the answer, an unexpected one included.
`CustomCommands` is the directory one file system call at a time, with several
writers who share `.new` and removals that fail unnoticed, beside the loop of the
script; its history variables `shared` and `littered` say that two were at work at
once, and that a torn file could not be removed. `StatusScript` is the script from
the manifest to the sections, for commands that may print markers (`Spelled`);
`StatusFields` which field comes from where on each platform. `Retention` is the
cleanup, one action per statement, each comparing texts as SQLite does: the times
the agent writes are RFC 3339 like the bound, those of the access log have a space
where the bound has a T (`LessAsText`); `History` the buckets of the charts.

The modules of a composition share no state, as the parts of the code do not;
`MCSharedState` puts the store of sessions and `config.toml` side by side in the
same way.
`part` or `scene` says which one moves in a behaviour, so that state spaces add
up instead of multiplying.

## 3. The runs

| Run | Instance | What it shows |
|---|---|---|
| `terminal_takeover` | 2 connections, 1 account, 1 session, 1 frame each, output queue 1, timeout 1 tick | types; a session without a sender counts down; abandoned sessions leave; takeovers release the old pump |
| `terminal_close` | the same, input queue 1, one of the two types | a close waits for room and ends the shell |
| `terminal_resume` | ring of 3, 5 bytes in chunks of 1 or 2, queue 1, wire 2, renderer buffer 2 | ring contents; `LinkIsExact`: splice, order, counter, final screen; catching up |
| `shared_state` (2,025,235) | the store: 2 connections of 2 accounts, 2 handles, cap 1; config.toml: 2 requests at a time, settings and off-switch, 1 backup kept, 2 at most on disk, 1 unflushed rename | the cap, the shell behind each handle, the account; lost updates, torn files, backups, live settings, off-switch |
| `access` (177,166 states) | 3 handshakes, 2 tickets, 2 accounts, 1 slot; a relay with a queue of 2, 3 chunks, 3 rounds of keepalive; 2 logins, 3 failures, 1 permit; a shell with buffers of 1, 3 prints, 2 keystrokes; 4 memories, 3 capacities | below |
| `remote_ops` (about 443,000) | 4 names, 2 of them links, 2 requests of up to 3 chunks, offsets 0 to 2; pipes of 2, 3 bytes of input, 4 of output; 2 dials, 2 keys, 1 deletion | below |
| `monitoring` (4,090,704) | eleven scenes; periods of 0, 2 and 3 cycles; 4 pushes of 2 names, 2 in 2 ticks; 3 numbers and 2 unit letters of 5; 2 rows of 6 paths, 3 of them labels, 2 of those on one container; 2 writers of commands; 3 pages, 2 ticks a day, 2 rounds of cleanup; 7 seconds in buckets of 1 to 3 minutes of 3; 2 processes, 1 power loss | below |
| `terminal_stale_detach`, `terminal_leak`, `terminal_drop`, `settings_migration` | the same instances | one disagreement each, section 4 |
| `velocity_stall` (42) | the loop and one viewer | a deadlock, section 4 |

`access`: `Admits` (the doors implement `Admission`); `LimitsHold` =
`SlotsExact` (counter and holders), `VerifierBounded` (no more checks than
permits, with dropped requests), `LateBounded` (what a race can add to a blocked
key); `BlockLifts`; `NothingCutOff` = `TakenIsWritten` (relay) and
`ExitComesLast` (local shell); `KeepaliveIsFair`; `RelayEnds` = `SlotComesBack`
and `RelayEndsWithSshd`; `ShellEnds` = `DriverEnds` and `ThreadsEnd`;
`DoorsAgree` = `ToldIsTrue`, `ClosedBehindIt`, `CapacitiesWork`.

`remote_ops`: `FilesStand` = `FilesWhole` and `ReadIsOneVersion`;
`ExecAnswerIsWhole`, `ExecAlwaysAnswers`; `HostKeyStands`.

`monitoring`: `LoopHolds` = `ShowsLastRun`, `BaselinesAgree`,
`ExtendedOnSchedule`; `FiguresHold` = `SumsAgree`, `SpeedWithinScriptTime`,
`ChartsHold`, `FieldsAgree`, each in its scene; `AlertsAsWritten`; `QuotaHolds`;
`CommandsStand` = `RunsWholeTexts` and `SectionsStand`; `RetentionHolds` =
`OldestFirst`, `AgedOutElsewhere`, `CleanMeansClean`, `TogetherOrNot`;
`StartupHolds` = `SecretIsReal`, `TokensSurvive`, `SomebodyCanLogIn`,
`ShownPasswordOpens`.

**Why the bounds are enough.** Two connections and one session can take over
from each other in every order of detach, attach and reap; a cap of one with two
handles makes the race at the cap. A ring of three under five bytes wraps, with
chunks that fill a part of it, and every resume point occurs. Two requests are
what a lost update takes. Three handshakes for one slot are one that holds it and
two that race for the next; two tickets are one spent and one live. An input
queue of one with a typist is full with a Close waiting, behind a write that may
stay. One backup kept and two on disk are one that a failed removal leaves; that
any subset of several stale ones may stay is covered by the proofs only. A queue of
two with three chunks is full with one waiting; three rounds of keepalive have
one before the last. One permit with two logins is one that checks and one that
waits; a dropped third is the orphan. Pipes smaller than input and output block
on both sides. Two file requests with links meet on a name, on the link and on
what it points to. Two dials with two keys race to be first, and a deletion
starts a second era. Periods 2 and 3 and `Span` 6 let a change of settings fall
on any cycle of either schedule. Two names with two pushes each share quotas; a
window of two ticks is outlasted by a slow send. Reads that skip none, one or
both chunks of a file start inside it and at its end. Two writers share `.new`, or
come one after the other; one that dies leaves it to the other. Two rows are a
path listed twice, or two labels of one container. Days of two ticks under a
retention of one: the log's bound falls in the middle of a day and at its edge. Three pages against rows of one
page go over the cap and come back under it. Seven seconds cover a window that
is no multiple of its buckets.

Named bounds: `Chosen` (the settings of the first start, of which
`MCChosen` has those that take different ways), `Spelled` (the texts that read as a
marker), one power loss in `Startup`, `Timeout`, `MaxBytes`, `MaxChunk`, `WireCap`, `WriteCap`,
`BackupBound`, `DelayBound`, `ChunkBound`, `PrintBound`, `TypeBound`,
`OutputBound`, `EraBound`, `Horizon`, `Ticks`, `LastSecond`; the initial
configurations that `Varied` and the `Init` of `MCMonitoring` leave out are named
there; the rest are parameters of the code. Deadlock is not checked: clients may
leave, shells end, a request is answered once and a process may stop.

**Fairness.** `TerminalSessions`: the agent's own tasks run (they are spawned on
a runtime), the clock ticks and the reaper, an interval loop, acts. Whoever waits
for room in a queue gets it if there is room again and again (`SF CloseSent`):
tokio's channel hands it out in the order it was asked for. A driver in its
`select!` comes to input that is ready (`WF DriverTakes`, `DriverStops`) and gets
through `eof` and `disconnect`. A write to the shell gets no fairness, because it
is the shell or sshd that has to read: a driver that stays in one for ever is the
exception `CloseEndsShell` names. In a local shell such a write blocks its whole
thread, which `LocalShell` has as `Jammed`. A lost peer's
io object closes in the end, because the heartbeat keeps bytes outstanding and
TCP gives up on them. `TerminalResume`: the agent's tasks, the client's handlers
and the renderer run, and a client whose link is down tries again, as
`scheduleReconnect` does without limit; `CatchesUp` assumes a link that stays up.
`access`: weak fairness of the relay's tasks (`Place`, `DropService`,
`WriterStep`, `ReadEnd \/ Capacity`), its interval, a sshd that closes when its
input has ended, and the login's clock; the local shell's reader, driver and the
death of a killed child, weakly; its reaper strongly, because it polls the child
every 50 ms for ever and the state it waits for may come and go. `remote_ops`:
the exec handler and time. `VelocityLock`: the loop and the viewer's handler go
on whenever the lock lets them. Clients, shells, networks, commands and crashes
get no fairness anywhere; the other modules have safety properties only.

## 4. Where code and comments disagree

Each of these is a run TLC ends with a counterexample, and a finding in
`PROJECT.json`.

1. `SupersededHasCause`: a connection that lost its session still detaches it
   when it ends, and so ends the pump of the one that took over.
2. `RemovedShellEnds`: the driver of a reaped session holds the sender it waits
   on, so its shell runs on.
3. `DropIsRecovered`: a dropped live copy is a hole no reattach asks for.
4. `MigrationKeepsSettings`: a first write that fails leaves an empty
   `config.toml` that hides `config.json`.
5. `CyclesGoOn`: `GET /velocity` holds a read guard of the calculator (a
   temporary in the head of a `match`) while it asks for two more. tokio's lock
   is fair, so the loop's write, queued in between, stops both for ever.

Stated in the modules and false, with no run of their own. Each can be checked
by adding it to the cfg of its module's run; for those of the monitor, `Scenes`
with the one scene it is about makes that quick:

* `AttachedNeverReaped`: the clock of `detach` is set under a second lock, after
  an attach may have come in. `PumpEndsWithShell`: a shell lost without an `Exit`,
  or an `Exit` dropped on a full queue, leaves the pump waiting on an open socket.
  `CounterNeverLeads`: reset bytes and late writes move the client's counter past
  what its screen has.
* `DoneIsFinal` ("terminal state", `terminal.rs` 251): an open in flight when a
  Close makes the phase Done writes its own phase over it.
* `OneSetPerCycle` ("the old set or the new one and never half of each",
  `custom_cmds.rs` 105): the script lists the directory before it runs what it
  listed, and one writer is enough.
* `BreaksOnlyItself` (`script.rs` 550): output without a final newline takes the
  next command's marker with it, and that command has no section.
* `ContainersOnce` (`monitoring.rs` 835): what pools the volumes of a container is
  a device path, and what is gathered of macOS disks are labels, so each volume
  counts the whole container.
* `LogKeptItsDays` (`cleanup.rs` 140; with `Days <- MCWholeDays`): the times of the
  access log are compared as text with a bound of another form; rows go up to a
  day early.
* `SpeedIsReal` (`velocity.rs` 159): the stamp is taken after `nvidia-smi` and
  the script, not when the counters were read.
* `AtMostMaxPoints` (`server.rs` 877): the bucket is rounded down to whole
  seconds, so there may be more than 300, up to 540.
* `WorkingRulesAreTaken` (`server.rs` 681): the settings endpoint refuses some
  thresholds that the file may hold and that alert.
* `RemovesWhatWasAsked` ("a link is deleted, never followed", `fs.rs`): the path is
  canonicalized before the kind of the entry is asked, so it is the file behind
  the link that goes.

Read in the code while modelling, outside the models' properties:
`SBM_FULL_ACCESS=1` opens again after a restart what `disable_full_access` calls
permanent; a push that is answered with a refusal is charged in some senders,
one delivered whose answer is lost, or is not the one its entry expects, is not, and
a send has no time limit; partial backups count among the ten that are kept and
push whole ones out, and removals that fail leave more than ten; a session whose
connection died while its attach was awaited counts as attached, so that no clock
runs; a command that prints an encoded marker ends its own section and takes the
place of the one it names; with two writers of the command directory at once, or a
torn file that cannot be removed, half a text may be run; a read's answer has no
length, date or tag, so that a client that joins two of them may join two versions
(the app's transfers do not resume);
a process killed between INSERT and print loses the first password; a torn
`jwt.secret` stops every start until it is deleted, and two first starts at once
may sign with two secrets; a power loss may take a `jwt.secret` back that tokens
were signed with, because it is never flushed; a `config.toml` without sections loses `jwt_secret`
and `database_url` in `normalize`; `cleanup_interval_hours = 0` panics in
`tokio::time::interval`; disk counters that are carried forward get the stamp of
the cycle that carried them, so the next rate divides the growth of several
cycles by the time of one; the first rate after an upgrade may be a spike, for a NULL column reads
as 0, and the history's window is a comparison of texts that takes in the whole
first day; Windows swap is declared as not implemented and filled.

## 5. The proofs

TLAPS checks them for every value of the constants; `PROJECT.json` lists the
results, the lemmas stand beside them. Each proof module extends the component's
modules, so that its theorems are about the definitions TLC runs. Where a module
is composed with others, the theorem of its own specification comes first, and
one of the composed `Spec` after it: the composition takes a step of one part and
leaves the others alone, so the invariants of the parts, conjoined, are its
invariant.

**Assumptions** are those the modules name: functions between the sets, finitely
many handles, sockets and login requests, positive bounds, `None` and its like
outside the sets they mark the absence of, sizes that are natural numbers,
secrets and passwords that are none of the special values, links of the served
directory that point into it or outside, periods of the loop whose strides divide
`Span`, counters that grow at rates of which one is the fastest. TLC evaluates each on the instances.

**The invariants.** A property is seldom inductive as it stands; what was added,
and why:

* `TerminalSessionsProofs`. `TypeCorrect`: the second half of an attach puts the
  session it looked up into the connection; `TypeInv` adds that there is one.
  `StoredMeansShellTheorem`, `OwnAccountTheorem`: `AccountInv` joins both to
  `HeldMeansStarted` (whatever a connection or a channel points at has been
  started), needed because only a fresh handle may be given an owner; `StepKinds`
  sorts the actions into the few ways they touch these variables. `CapTheorem`:
  `CapInv` adds that the store is finite. `ClockTheorem`: `UnattachedCountsDown`
  is inductive given the types.
* `TerminalResumeProofs`. `PushHoldsTail` and `ReplayIsExact`, for all capacities,
  chunks and resume points, and lemmas on joined sequences (`BytesSuffix`,
  `BytesJoin`). `LinkTheorem`: `ResumeInvariant` follows the bytes from
  the ring to the screen. `StreamRuns`: what lies in wire and queue, joined
  (`StreamOf`), continues where the client is, byte after byte, as long as
  nothing was dropped. `CleanLink` and `CleanCounts`: with nothing lost, cut or
  overlapped no frame resets the screen, a `ready` comes first, and everything
  below the counter is drawn or waits in the renderer's buffer. `Linked` says what
  is empty while a link is down. `ResumeTypes`, `ScrollbackTheorem` on the way.
* `SettingsFileProofs`. `SettingsInv` has the types, `Exclusive` (one handler past
  its wait, whose copy is its change to the file *as it now is*, and whose temp
  file is that copy) and `NothingTorn`: `TornTheorem`, `OneRequestTheorem`.
  `OffInv` (the file says off, flushed, and a process that started before has its
  flag) gives `OffTheorem`, `LiveInv` (between a rename and its `Apply` the file
  is ahead by that request's settings) `LiveTheorem`, `BackupInv` (at which steps
  of a save the newest copy is the file, whole, through a pruning that removes any
  of the stale ones and whatever partial copies there are) `UndoTheorem`, and all of them `SettingsTypes`.
* `AccessProofs`. *Doors*: `SeenBelowCap` (what a handshake carries from its load
  to its compare-exchange is below the cap), `LiveMinted`, `PassSpent`,
  `NewHasNone` (whoever was let in holds a ticket that is out of the map for
  good). They give `SlotsTheorem` (by cardinalities of sets that gain or lose one
  element), `TicketTheorem`, and `AdmitsTheorem`, the refinement: initial states
  map to initial states and each step to a step of `Admission` or a stutter,
  action by action. *Rules*: `AccessInv` says what was told and answered in terms
  of the rules at that moment; capacities rest on lemmas about a clamped share of
  memory. *Relay*: `RelayCounts` (taken = queued + written), `WriterIsLast`,
  `SilenceIsQuiet` (the rounds a socket was silent for are rounds nothing came).
  *Login*: `PermitsHeld` (free permits, running checks and orphans add up) and
  `LateInFlight` (the late failures of a blocked key and the requests in flight
  under it are together fewer than all requests, and one becomes the other).
  *Local shell*: `ExitSent` and `SentAll` (how far the reader is when the reaper
  may send the exit), `EndedWhole`, `WaitedWhole`. The composition:
  `AccessTypes`, `NothingCutOffTheorem`, `LimitsTheorem`, `DoorsTheorem`,
  `AccessStepsTheorem`.
* `RemoteOpsProofs`. *Files*: `FilesInv`. `Settled` is an inode nobody writes any
  more; `Entry` lets a name show only those, so that another request may come
  between any two steps of a write; `Writes` and `Reads` say what a request in
  the middle holds: of a read, that what it got is the part of one version that
  lies behind its offset. *Exec*: `Counts` balances printed, piped, collected and cut
  bytes at every phase, the deadline's included. *SSH*: `NothingFound` (who has
  not compared yet found nothing), `MismatchStashed`, `RecordPinned` (whoever
  went on in the present era did so with the present record).
  `HostKeyTheorem` compares connections and not the record, which an operator
  may delete. `RemoteOpsTypes`, `RemoteOpsStand` compose them.
* `RetentionProofs`. `StoreInv`: what a table holds is newer than all it lost, and
  the rows of one cycle go together; each statement is a `Deletion` of the oldest.
  `AgeInv`: whoever is deleted outside the size cap had aged out. `CleanInv`:
  which tables the statements so far have `Swept`. `Early` is the day that the text
  of a log's time may cost it. `TrimInv`: the trimming loop's
  pages. The share the loop takes is at least a row and at most all of them,
  through lemmas on cardinalities (`LeastOf`, `GreatestOf`). *Charts*: a sum over a
  set is the number of cells in as many columns (`Weight`, `AddsIs`), so that what
  is at most each of its members is at most its average. `GrewAtMost`: between two
  rows, or a row and now, the counter gained no more than the time at its fastest
  growth; `MeansApart` carries that to the averages of two buckets.
* `StatusProofs`. *Script*: `Ordered`: what was printed and what is still to run is
  the agenda of the cycle. `LaidOut`: the markers of what was printed stand in the
  stream at ascending places (`Layout`), each with its output behind it, alone on
  its line unless the command before was cut off. `Parsing`: of the lines read so
  far the markers are one ascending list and the sections found are theirs. When
  the parser is done both lists hold the marker lines of one stream, so they are
  the same up to the markers a cut-off command swallowed, and no built-in follows
  a custom command. Markers a command prints itself are laid out among its lines,
  and the two properties except what they name (`Forges`). *Fields*: the tables are read entry by entry. `FieldsInv`: no
  BSD shows a field its agent does not declare, and what only the script gives
  (`Late`) is there once a script came through whole, and stays, because a merge
  never takes a field away. *Sums*: `WalkedTo` says what the walk over the disks
  has after each row (the devices and pools seen, the rows counted) and that it
  is what is to be counted of the rows so far; `UsedWithin` brings the bound on
  each file system and pool to their totals.
* `MonitoringProofs`. *Loop*: `LoopInv` names where the metrics of the last
  finished cycle are (`Shows`) at each step of the next; `Schedule` counts cycles
  modulo the stride (`Past`) because saved settings change the stride in between.
  *Speed*: `Beginnings` dates every sample by when its counters were read. *Quota*:
  `Covers`: what a service accepted in the window is among what the record holds,
  or is being sent now. *Start*: the secret of each process by where it stands and
  what it read (`SecretByStage`), its relation to the file (`SecretOfFile`) and to
  the tokens (`TokenOfFile`), one writer while no two overlap, all of it as long as
  no power loss has taken the file (`forgotten`), and the history of
  the first password. *Rules*: `RuleInv` and the reading of a text by its parts.
  *Commands*: `Plans` says what a writer still has to do of its plan of file system
  calls, `Lone` that while `shared` is false at most one writer has anything to
  do, and `CommandInv` what `.new` and the directory hold then at each of its
  steps: whole texts, but for the one file it has open. `WholeInv` adds what the
  script ran. The property names its two exceptions as history variables, so the
  theorem holds for any number of writers. Then the
  composition: `LoopTheorem`, `FiguresTheorem`, `TypesTheorem`.

Induction over data is done on sets and their least elements (`LeastOf`,
`SetInduction`), never with an operator parameter, and recursion in the modules
above is by recursive functions or folds whose one-step facts are lemmas.

**Only model-checked.** The liveness properties (`AbandonedLeaves`,
`TakeoverReleases`, `CloseEndsShell`, `CatchesUp`, `RelayEnds`, `BlockLifts`,
`ShellEnds`, `ExecAlwaysAnswers`) and the deadlock (`VelocityStall`): fairness and
ENABLED are out of the prover's reach. Every invariant and action property that a
passing run checks is stated by a theorem of `PROJECT.json`.

## 6. The plan, and what is not modelled

Done: the sessions and their resume, settings and start, the ways in with their
abstract specification, files, exec and SSH dials, the monitor's loop, figures,
rules, pushes, commands, script, retention and charts. Next, in this order:

1. The app: `ServerConnection` (connect, retry and refresh of one server after
   stale awaits), then `PersistentShell`.
2. `SessionDirectory` (a handle is granted, held, gone), an abstract
   specification for `TerminalSessions`; `SettingsRegister` for `SettingsFile`.
3. Proofs: those two refinements, step by step.
4. Runs with two frames per connection: an `Open` and an `Attach` that both saw
   `Phase::Idle` (`terminal.rs` 336), and sessions attached to dead sockets.

Not modelled: the app and the panel's other pages (the agent's answers are, what
is shown of them is not); the text parsers of single commands, which are
conversions without state; schema and migrations of the database; the PowerShell
form of the script; resizing, key files and the flow control of the SSH channel
(`terminal.rs` 780), which belongs to a library; listings of directories; audit
rows and logging; generated bindings, platform code, UI and website. Within the
terminal protocol the three messages of a truncated attach (734) are declared
with the first of them, and `insert` at the cap ignoring expired sessions (258)
is in the model and stated by no property.
