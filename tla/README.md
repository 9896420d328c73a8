# Duja, specified

TLA+ specifications of Duja, the monitor-brightness tray application of this repository, with
the TLC configurations that model-check them and the theorems TLAPS proves about them.

Every definition follows the Rust source; `PROJECT.json` (`map`) names the lines each one
stands for. Where the documentation and the code disagree the model follows the code, and the
disagreement is a run of its own (see *Findings*).

## 1. The system

Duja is one process. Its parts, the state each keeps, and how they talk:

| Part | State | Operations | Talks to |
|---|---|---|---|
| **Engine actor** `duja-app/src/engine.rs` | display manager, worker handles, operations in flight, probed maxima, pending learns and polls, strike counts, debouncer, poll timer | `SetUserLevel`, `SetInput`, `RefreshNow`, `SetLevelPolling`, `Shutdown`; worker acks; display-change ticks; watchdog, poll and debounce timers | tray (commands in, notifications out), workers (commands out, acks in) |
| **Worker**, one thread per display `worker.rs` | newest queued value per feature, gap deadlines, first-write verification | open and probe, drain, read, write, verify, exit | engine, a `BrightnessController` (blocking driver calls) |
| **Protocol** `protocol.rs` | the command and ack channels, the `retired` flag | | |
| **Display manager** `duja-core/src/manager.rs` | one record per display id: connected, responsive, last user level, software-only verdict | apply an enumeration, mark (un)responsive, record levels | called by the engine |
| **Tray state** `bin_support/tray/state.rs` | displays and groups, user-controlled set, unresponsive set, overlays | folds notifications, forwards user input, plans dimming; restart | engine, gamma channel, overlays, state store |
| **Gamma channel** `bin_support/gamma.rs` | which ramps it believes live, a dirty flag | engage phase, overlay diff, restore phase, invalidate, teardown | OS ramps, crash marker |
| **Dimmer backends** `duja-dimmer` | overlay windows, ramp guard, marker file | apply, restore, tear down with a deadline | OS |
| **Twin slots** `duja-core/src/manager.rs`, `id.rs` | none | number displays that report the same id, find them again in a list of bare ids | display manager, bounds map |
| **Clone groups** `bin_support/clone_group.rs` | none: computed from an enumeration | group by surface, choose an anchor, migrate control, fan hardware writes out, aggregate health | tray state |
| **State store** `bin_support/state_store.rs`, `config/persist.rs` | levels, dirty and blocked flags, last write | load with quarantine, record, debounced flush, flush on quit, atomic write | file system |
| **DDC controller** `duja-ddc/src/controller.rs` | cached maxima, pacing clock | retry, verified write, probe | monitor |
| **IPC endpoint** `duja-platform/src/ipc/unix_socket.rs` | the socket, the inode it is bound to and the pin on it, the bind lock | bind, probe and take over a stale socket, serve, unlink | file system, `dujactl`, other instances |
| **Single-instance guard** `duja-platform/src/single_instance.rs`, `tray.rs` | a file lock | acquire, hand a second launch off, wait as a replacement | other instances |
| Pure mathematics `continuum.rs`, `sync.rs`, `dimming.rs` | none | slider to hardware and overlay | tray state |

What is hard here, and what makes each part correct:

* **Engine and workers.** Driver calls block, for seconds or for ever, so the engine never waits
  for one: it watches each operation, gives a display up when an operation ages past the
  watchdog, detaches the thread and starts another at the next sighting. Hence the hazards: an
  answer that arrives after it was given up; a failure reported by a worker since replaced; a
  detached thread that wakes up and writes; an operation whose answer never comes because it
  was coalesced away; a display watched that nothing can unwatch. Correct means: one thread may
  write to a panel, a display is greyed exactly when nothing drives it, the respawn budget is
  kept, the user's last choice wins, the panel follows it, and everything watched ends.
* **Gamma channel.** Two dimming mechanisms hand over to each other; a ramp belongs to the screen, not
  to the process: it survives a crash, and the system may drop it on resume without a word. Drivers
  refuse ramps, other programs set their own. Correct means: never brighter than asked in a hand-over,
  a record that says only what is live, never a ramp left behind that nothing will undo, and nobody
  else's ramp flattened by a session that had nothing to rescue.
* **Persistence.** Written at most once in two seconds, with no timer behind the debounce; replaced by a
  rename; careful with files it cannot read. Correct means: whenever the machine stops, what is found is
  one whole version; a clean quit leaves the last levels; a file nobody could read is never lost.
* **Tray and clone groups.** The handlers run one at a time, but the engine's thread replaces the bounds
  map before it notifies, so a handler may join a snapshot with a newer map. Anchors move as mirrors join,
  leave and lose their hardware. Correct means: the dim the user asked for stays with its screen, overlays
  are what the sliders ask for, a surface is dimmed once, a row is greyed exactly when nothing behind it
  answers.
* **DDC controller.** Single exchanges on the bus fail more often than not, may take effect without an answer or be
  answered without an effect, and monitors misreport their maximum. Correct means: success of a verified write is
  success, the scale of a reading is the scale of the next write, silence is no verdict, and the number of exchanges is bounded.
* **Endpoint and guard.** Several processes bind, probe, take over and unlink one path, any of them may die
  between two calls, and inode numbers are handed out again. Correct means: a server that serves is the
  one its path leads to, only dead sockets are removed, a quitting instance lets go of the guard last, and a
  restart ends with the application running.

The complete list of hazards, each at the line where it bites and with the properties that would
catch it, is in `PROJECT.json` under `hazards`.

## 2. The modules

```
 Protocol          DisplayManager        DisplayLifecycle
    |   \             /                        ^
    |     Engine  ---+------- implements ------+
    |     /    \
 Worker  /      EngineProofs
    \   /              \
 EngineSystem ----- SystemProofs --- FollowProofs      ScreenGuard
      |                                 |                   |
   MCEngine  (Engine_*.cfg)             |              GammaChannel --- GammaProofs
      |                                 |                   |
   MCDrivers (Engine_faults.cfg) --- DdcProofs           MCGamma  (Gamma_*.cfg)
      |
   DdcController

 TwinSlots                   IpcEndpoint --- EndpointProofs
    |                             |
 CloneGroups   Continuum      MCEndpoint  (Ipc_endpoint.cfg)
      \         /
       TrayState --- TrayProofs
           |                 StateStore --- StateStoreProofs
        MCTray                 (State_store.cfg)
     (Tray_*.cfg)
```

* **Protocol** — the channels between the engine thread and its workers. A worker is named by its
  display and generation. `inbox[w]` is its command channel, `acks` the channel all workers share,
  `retired[w]` the atomic flag, `thread[w]` whether its thread runs.
* **DisplayManager** — `manager.rs` as operators on one record: the events an enumeration derives
  (`Added`, `Reattached`, `Responsive`, `Removed`) and the record after each call.
* **Engine** — `EngineState`. Variables carry the fields' names. One action is one pass of the loop
  body: `Startup`, `DebounceFires` and `RefreshNow` run `refresh`; `PlatformEvent` is a
  display-change tick; `SetUserLevel`, `SetInput`, `SetLevelPolling`, `ShutDown` are the commands;
  `PollLevels` and `WatchdogFires` the timers; `AckSet` … `AckSoftwareFallback` the arms of
  `handle_ack`, the `Get` arm split by what it does with the reading. `unresponsive` is what the
  tray greys, folded from the notifications as `tray/state.rs` folds them. `OpenSpec` leaves the
  workers' side of the channels to the environment.
* **Worker** — `worker_loop` and the functions it calls. `local[w].pc` says where the thread is:
  opening, parked in `recv`, about to read, in a write, in a verification read. `Faults` chooses
  what drivers do: panic, fail, time out (having written or not), refuse, silently lose a write,
  hang. `panel` is the brightness behind the driver.
* **EngineSystem** — the two together, the fairness, and what they promise together.
* **DisplayLifecycle** — the abstract specification: a display is absent, live, greyed or abandoned;
  it comes back from grey at a sighting unless it has two strikes, and from abandonment only by
  being replugged. `Engine` implements it (`Lifecycle`, `KeepsLifecycle`) with the mapping
  `Status`, which looks only at the manager's record and at the worker handles.
* **EngineProofs** — the theorems about the engine and about its refinement of `DisplayLifecycle`; **SystemProofs** —
  those about the engine with its workers; **FollowProofs** — those about where a panel ends up.
* **DdcController** — `controller.rs` of `duja-ddc`, the driver behind the workers of external monitors. A call
  (`probe`, `get`, `set`) is a function from the controller and the monitor it drives to the set of what may have become of
  both when it returns: every exchange may fail with each error, a write that failed may have landed, an acknowledged one may
  have had no effect, each reading may report another maximum. One thread makes the calls one after the other, so no
  interleaving is lost. `exchanges`, `result`, `reading` and `again` describe the call under way.
* **DdcProofs** — its theorems, that a controller is a driver in the sense of `Worker`, and that the calls the workers
  really make are calls a controller keeps its promises for.
* **ScreenGuard** — the screen state that outlives the process, with the Windows `ScreenStateGuard` and
  the marker file as operators: `ramp[d]` is what device `d` carries (`Off`, a factor of ours, or another
  program's `Tint`), `touched` and `marked` are the guard's fields, `marker` the file.
* **GammaChannel** — one process after another on one machine. `pc` is where the tray thread is in a
  batch, in "restore screen", in quitting, in the guard's `Drop`, or in the recovery at launch; each step is
  one call that changes something outside, so that `Kill` may come between any two of them. `engaged` is the
  coordinator's record, `devices` the sink's, `bounds` the map the engine thread replaces (`Enumerate`),
  `queue` the engine's notifications. A batch is `ApplyOverlays` → `Engage`/`WriteRamp` per display →
  `OverlayDiff` → `Restore` per display → `BatchEnds`. Three variables are histories that only properties read:
  `lost` (ramps the last recovery left), `unmet` (displays whose new dim was refused in this batch),
  `trouble` (this session met a marker, a failed restore, or the user's request).
* **GammaProofs** — its theorems.
* **TwinSlots** — `assign_twin_slots` and `select_slot_match`. A resolved id is a pair of a bare id and a slot.
* **CloneGroups** — `group_clones`, `migrate_group_control`, `fan_out_hardware` and the aggregated health, as
  operators on the enumeration a grouping is computed from (`seen`): which surface each display draws from and
  whether its hardware works.
* **Continuum** — `map_user_level` and `reverse_map` in integers.
* **TrayState** — `TrayState` and the half of the engine it meets. `bounds` is the map the enumerator writes
  (`Enumerate`), `announced` the `DisplaysChanged` on their way (`Announce`), `seen` what the last handled one
  said, `level` and `controlled` the user's levels and whose they are. `SetUserLevel`, `Nudge`, `RestoreScreen`,
  `DisplaysChanged`, `MemberHealth`, `LevelRead` and `PlatformWake` are the handlers, each with the batch it
  ends in: `overlays` is what the overlay half of the planner leaves on screen, `sent` the hardware writes of
  that one step. A handler joins `seen` with the `bounds` of now, not with those of its notification.
* **TrayProofs** — its theorems, with the lemmas about slots, anchors and the ranges of the continuum.
* **IpcEndpoint** — the life of any number of processes over one socket path. `pc[p]` names the system call
  a process is about to make: the guard, the bind lock, the steps of `bind_listener`, serving, the steps of
  `unlink_if_ours`. `entry` is the inode the path names, `sock` the one a process's open socket is bound to,
  `identity` and `pin` what `PipeServer` remembers of it. The kernel hands out any inode number that
  nothing refers to (`Free`), as file systems do.
* **EndpointProofs** — its theorems.
* **StateStore** — sessions over one directory. `writing` is where `write_atomic` is; a kill or a power loss
  may come between any two of its calls. `durable` is every directory a power loss may leave: one more with
  each rename, only the present one again once the directory was synced.
* **StateStoreProofs** — its theorems.
* **MCEngine**, **MCGamma**, **MCEndpoint**, **MCTray** — model values and the values of function-valued
  constants. `MCDrivers` puts DDC controllers behind the workers: at each write a worker starts, and at each open, it
  evaluates what `DdcController` promises for a controller on that panel, with and without the quirks (`SomeQuirks`), on a
  monitor that reports maxima of zero, garbles its capability string or has no brightness. `MCTray` also states, as the assumption `ContinuumAssumption`, what the pure functions of
  `Continuum` promise over sixteen combinations of floor and scale: moving the slider up never darkens, a
  panel is not driven below its floor and carries an overlay only at its floor, and a position above the
  transition comes back from the reading it causes but for one percent.

Definitions marked *Seeded bug* are plausible mistakes in the definition that follows them. They are
used by nothing; substituting one for that definition shows that the property named with it in
`PROJECT.json` (`mutants`) notices.

### What the models abstract

* Time. An armed timer may fire at any step, an operation in flight may age out at any step, a gap
  may end at any step. The order of timers is therefore unconstrained, which covers every setting of
  `EngineConfig`, and nothing depends on how long anything takes.
* Counters. `seq` and `next_gen` count per display; the code's counters are global but only ever
  compared within a display.
* A driver call takes effect and returns in one step. The window between a worker's load of
  `retired` and its entry into the driver counts as part of the call. A read and the sending of its
  ack are one step.
* Channels. The app's command queue is left out: a command happens when the engine takes it. A worker
  that is still opening already receives, as its channel exists; if the open fails what it received
  is lost, as in the code.
* `Snapshot` only reads. A `SetInput` with a code the display does not advertise changes nothing.
* `shutdown_workers` waits against a deadline and goes on either way, so the wait is invisible.
* Names, kinds, capabilities, logging.

Of the gamma channel:

* It is the Windows one: `GuardSink` and `ScreenStateGuard`. The coordinator and the phases are shared with
  Linux and macOS, their sinks are not modelled. The marker file can always be written and removed.
* The planner is an input: a user level asks for nothing, an overlay or a factor (in gamma mode a display
  carries no overlay). Factors are interchangeable model values. A batch with an unchanged plan, as a level echo
  or a notification of the same displays causes, is a `SetUserLevel` asking for what is already asked.
* A device that is not attached cannot be written; when the fault `restore` (`refuse`) is on, an identity (dimming) ramp
  may fail on any other. A pass over several devices is one step with the set of those that fail.
* A display event may drop any set of our ramps, disconnect displays, or (`renumber`) give them other device
  names. A tint is there from the start; programs do not change ramps while Duja runs.
* Mirrored displays, which share one control, are left to the clone groups.

Of the tray:

* Every display has the same floor and perceptual scale, and dims by overlay. A gamma display takes the same
  batches; `GammaChannel` has them.
* Ids are pairs in the order of their strings, which holds for ten slots (`-slot10` sorts before `-slot2`).
* Single-precision divisions are integer ones with the same rounding.
* The engine's notifications are not the engine's model: a `DisplaysChanged` may carry any level and verdict
  for each display, health and readings may come for any display of the last enumeration.
* The overlay backend does what it is told. Its failures are part of `GammaChannel`.

Of the DDC controller:

* Pacing and back-off are sleeps; nothing but time depends on them.
* A reading tells what the monitor is set to; only the maximum may be wrong. Nobody else changes the monitor during a call
  (between calls they may: `outside`). A write that was given up does not land after the call has returned.
* A capability string is the features and inputs it lists, or nothing if it does not parse.

Of the endpoint:

* The waits (`LOCK_WAIT`, `PROBE_BUDGET`, `RELAUNCH_WAIT`) are choices: what is waited for may come, and the
  wait may end without it, at any step.
* The unix socket and the unix lock. The Windows pipe has no file to take over, and its named objects go with
  the process.
* Connections, frames and requests are left out: a server serves, or its handler threads are gone.
* Nobody but these processes removes or replaces the socket while they run.

Of the state store:

* The document is one version number; a file holds one version, readable or not, all of it synced or not.
* A rename replaces the name in one step, also for a power loss, and a file that was synced is read back.
* The user touches the file between sessions only. One session runs at a time, which the guard is for.
* Quarantined files are not opened again, and their directory entries reach the disk as renames do.

## 3. The runs

Bounds of the engine's runs: `MaxGen` generations of worker per display — a stimulus that leads to an enumeration is taken
only while a generation is left for it (`Room`), so that no enumeration is ever blocked half way;
`MaxSeq` — the user's commands stop once that many operations were dispatched, polls one later.
A respawn, a replug and the abandonment after two strikes need three generations; a coalesced write, an
answer overtaken by a second command and a poll need three sequence numbers.

| Run | Instance | Shows |
|---|---|---|
| `lifecycle` | one display, three generations, panics and failing opens, a panel that reads above its maximum | types; `InFlightIsRecoverable`, `GreyedExactlyWhenWorkerless`, `OneWriter`, `AbandonedOnlyAfterTwoStuck`; the step properties `UserIntentWins` and `NoBystanderGreyed`; the engine implements `DisplayLifecycle`; the real workers are an instance of the environment the theorems assume (`WorkersKeepToTheirSide`) |
| `writes` | two levels, an input code, panels without a brightness range | `AtMostOneLateWrite`, `PanelFollowsLevel`: coalescing, gaps and replugs end at the recorded level |
| `faults` | every failure a driver can return, lost writes, outside changes | `NoLostOperation`, `NoEcho`, `WorkingPanelKeepsHardware`; of the DDC controllers behind every open and every write: `DriversVerify`, `DriversKeepScale`, `ProbesNeedEvidence` |
| `liveness` | hanging calls, fairness | `InFlightEnds`, `ComesToRest`, `RetiredWorkersLeave` |
| `gamma_channel` | two displays on two devices, one tinted, two factors, two user actions, two display events, two launches, and every fault but `renumber` | `LitRampIsMarked`, `RecordIsLive`; the step properties `DimmedThroughout` and `SparesOtherPrograms` |
| `tray_state` | two twin monitors, two surfaces, one notification on its way | `GreyedExactlyWhenAllDown`, `OverlayFollowsSlider`, `TwinsStayApart`; the step properties `DimFollowsSurface` and `NoDoubleDim` |
| `ipc_endpoint` | three processes, two socket inodes, one inode of something else, fairness | `ServerReachable`, `GuardCoversEndpoint`; the step property `OnlyTheDeadAreUnlinked`; the liveness property `ReplacementRuns` |
| `state_store` | six versions, two quarantine names | `NeverTorn`; the step properties `UnreadFilesSurvive` and `QuitSaves` |

Bounds of the gamma runs: `MaxLaunches` — two, for a crash and its recovery, and a crash of the session after it;
`MaxChanges` — two user actions put a dim and move it, or put it and ask for a restore; `MaxEvents` — two display
events drop a ramp and come again while the batch that rewrites it runs, or take a display away and bring it back.
`FactorSymmetry` permutes the two factors, which no definition tells apart.

Bounds of the tray's runs: two monitors that report one id are what needs slots, and two on one surface what
needs groups; they come and go in any order, one notification may be outstanding (`MaxAnnounced`) while
the map is replaced under it. One of the two may lose its hardware (`MayLackHardware`), so a mirror has working
and software-only members. The levels are the ones the code tells apart: below the transition (10, dimmed at the
floor of 20 by an overlay), above it (50), a reading of outside (33), and the placeholder 50 that yields to a saved
level. `SurfaceSymmetry` permutes the surfaces. 189,074 distinct states.

Bounds of the endpoint's run: three processes are an instance, its replacement and a launch that comes
between; two numbers for sockets let the number of a removed socket be handed out again at once; the third inode is a
file that is not a socket, in place from the start. Each process launches and dies as often as it likes.

Bounds of the state store's run: six versions, given out by sessions and by the user's edits, are two sessions
that each write, with a file to quarantine before each; two names make the second quarantine choose and the third
find none. Kills and power losses are not bounded.

The engine's, the gamma and the other runs check for deadlock. The only states without a step of the system are
those where the engine has stopped and no thread runs, or Duja will not be launched again; `Terminated`
stutters there. The tray, the endpoint and the state store never stop.

What the guarantees of the gamma channel except, they except because the code does:

* `LitRampIsMarked` excepts `lost`: `recover_from_crash_marker` removes the marker whatever its restore
  reports, so a ramp that could not be undone at launch, or whose display was not attached, is known to nobody.
* `RecordIsLive` is about machines that keep device names. With `renumber` it fails: a wake is handled at once, with the
  bounds map of before the event, so the ramp is rewritten on a device that may now be another display's.
* `DimmedThroughout` excepts displays whose new dim failed (`unmet`): an overlay that cannot be put leaves
  the display bright, because the restore phase runs whatever the overlay diff returned.

The endpoint's guarantees hold on systems like Linux (`FullRefuses` and `PinFails` false). Where a connect to a full
backlog is refused, as on the BSDs, a busy server looks dead, and where the inode cannot be pinned a departing
server may take its successor's inode for its own: `ServerReachable` fails with either, which the source notes as
degraded operation and the debt register as D-076.

`UnreadFilesSurvive` excepts the user, between sessions; a power loss may take the rename of a quarantine back, and
the file is then at the name it had. `QuitSaves` excepts a store that is blocked and a flush whose write failed.

The engine treats display ids independently — every field is a map by id — so the runs have one display. The steps
that touch several at once (an enumeration, the watchdog, the shared ack channel) are covered by the theorems, which
hold for any number of displays: of the properties of the engine's passing runs only the liveness properties are not
among them.

`WorkingPanelKeepsHardware` and `PanelFollowsLevel` are checked on panels whose range reaches the engine's default of
100; on smaller ones the code does not keep them (`clamped_verdict`, `FallbackProvesNoControl`).

**Fairness** of the engine (`EngineSystem!FairSpec`, only in `liveness`): the first enumeration, an armed debounce, a pending ack and
the watchdog of each display are weakly fair, because the loop selects over its channels with a timeout
that is the earliest of these deadlines and polls the timers on every pass. Each worker's step is weakly
fair unless its driver call hangs: threads are scheduled. A hung call gets no fairness, nor do
commands, platform events, polls or faults.

**Fairness** of the endpoint (`IpcEndpoint!FairSpec`): each process's own steps are weakly fair once it was started.
Every wait among them is bounded: the lock is polled until `LOCK_WAIT`, a probe ends with `PROBE_BUDGET`, a
replacement starts after `RELAUNCH_WAIT` with or without the guard. Launches, quits, restarts and deaths are
not fair. `ReplacementRuns` needs no more than that, and fails when the wait for the predecessor has no end.

### Findings

Four runs check what the documentation says and fail; their counterexamples are runs of the code.

* `retired_writes`: `worker.rs` says a worker exits immediately when it finds itself retired. A worker
  retired during its first-write verification returns from the verification and goes on to the next
  feature's write of the same round (`verify_first_write` returns `false`, and the loop over `ready`
  does not look again). `AtMostOneLateWrite` still holds: after that write it leaves.
* `clamped_verdict`: `protocol.rs` says a `SoftwareFallback` comes from a read-back that proves that the panel did not
  move. A level set before the first reading is scaled with the default maximum of 100; on a panel of a smaller
  range the controller clamps it, and `check_first_write` compares the read-back with what was asked for instead of
  with what was written. A panel of range 50 that is at 50 and is asked for 100 % stays at 50, which is right, is
  neither near 100 nor moved, and is declared software-only until a poll happens to heal it.
* `gamma_stale_ramp`: `restore_phase` is to restore every ramp the batch no longer asks for. A wake after which the
  ramp is still up, followed by a refused rewrite, removes the coordinator's record (it must: a record that may be
  stale keeps the display bright for good, and `RecordIsLive` breaks without this). But the record was also the
  only reason to restore: when the user then moves the display to an overlay or to full brightness, the ramp stays,
  doubling the dim, until another factor is asked for or the process quits.
* `mirror_switch`: `tray/state.rs` says the grouping is rebuilt on every enumeration and so is always fresh across a
  switch between extending and duplicating the desktop. Such a switch changes no display, the manager derives no
  event, `refresh` returns without a notification, and the groups stay those of the desktop before, with every
  notification handled, until some other change is announced.

### Other disagreements met

Read in the source while modelling; no run is spent on them.

* `engine.rs` says a display that got stuck twice is abandoned for the session; a replug respawns it, with its
  strikes still at two, so its next failure abandons it at once. `DisplayLifecycle` has the code's behaviour.
* `lib.rs` says `LevelRead` is emitted only when a reading drifts from what the engine recorded. On a range finer than
  percent a level learnt from a reading rounds down, and the same reading is reported again at every poll.
* The debt register (D-006) calls a write scaled before the first reading self-correcting. Nothing writes it again,
  and it can cost the display its hardware control (`clamped_verdict`).
* Each dispatch stamps the watchdog's entry anew (`engine.rs:489`), so a user who keeps moving the slider of a
  wedged display defers the moment it is given up (D-007).
* When one enumeration hands a surface from one display to another (a display on it moves to a surface of its own
  while a new one takes its place), `migrate_group_control` sees one surface with two anchors in turn and gives the newcomer the
  control of the display that moved. `DimFollowsSurface` says that this is what it does: the dim stays with the surface.
* `model.rs` says that `allowed_inputs` is empty when input switching is unsupported. With an `input_source_allowed`
  quirk and a probe by reads, or a capability string without code `0x60`, the quirk's list is offered although
  `InputSource` is not among the features, and setting one of them is refused. `OfferedInputsAreWritten` is about monitors
  whose probe found the feature.
* `probe_by_reads` says that only a capability read that omits brightness, or a quirk, means no hardware range. A
  string that does not parse counts as one that lists nothing; `VerdictIsPositive` excepts it (`garbles`).
* A level set for a group without working hardware sends the engine nothing, so no echo comes and the
  flyout's row keeps its old position until the next refresh of the rows.
* A display that loses its hardware while it is mirrored turns its group to software dimming, but the panels of
  the other members are driven to full brightness only by the next user action (D-046).
* A reading the engine queued before the user's last move is folded after it and moves the slider back. The engine
  drops readings it *asked* for before the user's choice (`UserIntentWins`); the tray has no such order.
* An IPC client may set a level for a display the tray has not seen: the level and the control are recorded, nothing
  is written until the display is announced.
* The write debounce is documented as a trailing edge. There is no timer: the last level of a burst is written by
  the next handler that comes after the two seconds, or on quit (`QuitSaves`).
* An edit of `state.toml` while a session runs is overwritten by its next write.

## 4. The proofs

`EngineProofs` proves, from `MaxGenAssumption` and `EngineAssumption` alone and for every set of displays, of levels and of inputs:

| Theorem | States |
|---|---|
| `EngineTypeCorrect` | `OpenSpec => []EngineTypeOK` |
| `WatchdogNeverSpins` | `OpenSpec => []InFlightIsRecoverable` |
| `GreyingIsExact` | `OpenSpec => []GreyedExactlyWhenWorkerless` |
| `AbandonmentIsEarned` | `OpenSpec => []AbandonedOnlyAfterTwoStuck` |
| `SingleWriter` | `OpenSpec => []OneWriter` |
| `IntentIsKept` | `OpenSpec => UserIntentWins` |
| `EngineKeepsLifecycle` | `OpenSpec => KeepsLifecycle` |
| `ReadingIsAPercentage` | `raw_to_pct` of any reading lies in `0 .. 100` |

They are about `OpenSpec`, whose environment may do anything well typed to the channels except raise a
thread from the dead or touch the retired flags. So they do not depend on the worker: they hold for a
worker that acks twice, answers what it was not asked, or reports failures of another generation. The run
`lifecycle` checks that the real workers are such an environment.

The argument. The invariants do not support each other in the form they are checked in, so each is proved
from a stronger one:

* `HealthInv` says, until the engine has stopped, of each display that it is *Healthy*: one with a worker
  is connected and responsive; one that is watched has a worker; it is greyed if and only if it is
  connected without a worker; one that is connected, responsive and has no worker has two strikes.
  `InFlightIsRecoverable`, `GreyedExactlyWhenWorkerless` and `AbandonedOnlyAfterTwoStuck` are its parts.
  None of them is inductive alone: that the watchdog can act needs that a worker implies a responsive
  record, which `refresh` preserves because it spawns only for displays it sighted, and
  `surface_unresponsive` because it takes the worker and the mark in one step.
* `ThreadInv` adds to `OneWriter` that a registered generation was handed out, and that a generation not
  handed out yet has no thread, so a new worker never shares a name with an old one.
* `IntentInv` says that the read in flight for a display whose level is being learnt or polled carries a
  sequence number later than the user's last choice: `SetUserLevel` clears both marks in the step that
  records the choice, and later reads take larger numbers. An ack is believed only if it carries the
  number in flight.
* `EngineKeepsLifecycle` uses `HealthInv` to show that `Status` moves only as `DisplayLifecycle` allows.

`SystemProofs` proves, from the same assumptions and `WorkerAssumption`, for any number of displays with their real
workers, every bound and every combination of driver faults:

| Theorem | States |
|---|---|
| `SystemTypeCorrect` | `Spec => []TypeOK` |
| `WorkersImplementTheirSide` | `Spec => WorkersKeepToTheirSide`, that is `Spec => OpenSpec` |
| `NothingWatchedIsLost` | `Spec => []NoLostOperation` |
| `OnlyTheGuiltyAreGreyed` | `Spec => NoBystanderGreyed` |
| `OneLateWrite` | `Spec => []AtMostOneLateWrite` |
| `WorkingPanelsKeepHardware` | `Ranged => (Spec => []WorkingPanelKeepsHardware)` |

`WorkersImplementTheirSide` brings every theorem about `OpenSpec` to the running system. The argument of the others:

* `NoLostOperation` becomes inductive as `DeliveryInv`, which says where the operation watched under a sequence number
  is: the last of its kind in the channel (`LastSent`), held by the worker as the newest value, the write or the read
  under way (`Held`), or answered. *Last* is what coalescing needs: absorbing keeps the newest value, and that is the
  watched one. `RetireInv` says that a registered worker is not retired, hence never drops what it holds, `CommandInv` that no order
  to leave reaches a worker before the engine stops, and `ReportInv` that news of a worker's end is only read after the
  end. `ReportInv` with `ThreadInv` is also what `OnlyTheGuiltyAreGreyed` rests on. Each side is shown to preserve them by what
  it does to the channels only: `Speaks` and `Delivers` for a worker's step, `EngineReads` for the engine's.
* `LateInv`: a worker that has written after it was retired has left. Every call that lands late ends in the look at the flag
  that makes it leave.
* `WorkingPanelKeepsHardware`: a verdict needs a read-back that is neither near the target nor away from where the panel
  was. `TrustInv` says of a display that nobody disturbed that no value on its way to the panel exceeds the panel's
  range by more than the tolerance (`Modest`), that no worker has seen a write without effect (`Calm`), that no ack
  brings a verdict (`Honest`), and that a panel under verification is near its target. `IdleInv` says that a thread that
  does not run holds nothing. `Ranged` — every panel's range reaches the default maximum, but for the tolerance — is
  what `Modest` needs for writes scaled before the first reading; `clamped_verdict` shows that it cannot be left out.

`FollowProofs` proves, from the same assumptions, for any number of displays on the default range, every bound and every
combination of driver faults:

| Theorem | States |
|---|---|
| `PanelsFollowTheLevel` | `DefaultRange => (Spec => []PanelFollowsLevel)` |
| `OwnWritesAreNeverEchoed` | `DefaultRange /\ StartInRange => (Spec => []NoEcho)` |
| `NoValueIsMadeUp` | `OriginsInRange => (Spec => []OriginInv)` |

Both promises are broken by several actors in several steps: two commands that coalesce, a worker replaced while its
write is queued, an ack of the first write arriving when the second is under way, a poll between them. The argument
follows the writes of one display from the command to the panel:

* `Follows` says where the panel will end: the newest brightness write in the registered worker's channel is for the
  recorded level (`LastSet`), or the channel has none and what the worker holds is (`Heads`: its queued value, else the
  one it is writing, else where the panel is). `OnCourse` claims it of every display nobody disturbed.
* *Newest* needs an order. `NumberInv` says that every number in use was handed out; `Ordered` that what is still in the
  channel is later than what the worker took, than whatever a retired worker of the display still holds, and than every
  write the ack channel reports as over, and that all of it is at or below the number the watchdog watches. So an answer
  never clears the mark of a write that is still to come.
* Hence `Undisputed`: while the engine waits for a reading (`pending_learn`, `poll_gets`) the display has no write
  pending, since the loop polls unwatched displays only and `SetUserLevel` takes the marks away. And hence `ReadsTrue`:
  the one reading the engine would believe is where the panel is. `Learned` covers the displays whose level is
  not known yet, `AwaitInv` that who waits has a worker, `ScaleInv` that no scale but 100 is ever learnt.
* The steps of a worker are summarised once, as `Turns`: what a step may do to the channel, the queue, the call under
  way and the panel. `WorkerTurns` shows it of each step, and everything else about workers follows from the summary.
* `NoEcho` takes `RangeInv` too, that a panel nobody disturbed is within its range. The reading is where the panel is, the panel is
  where the recorded level puts it, and `Reflects` compares just these two.
* `OriginInv`: levels, writes, panels and readings are at values that were picked, set from outside or there at the
  start. A reading becomes a level only if it is heard, and a level moves otherwise only by a user (`LevelMoves`).

The hypotheses are not for convenience. `DefaultRange` — every panel's maximum is 100: a level set before the first
reading is scaled by the default maximum, so on another panel it puts the panel elsewhere until the next write
(`clamped_verdict` shows one consequence), and on another scale a reading is a percentage of its own, rounded twice.
`StartInRange` — no panel reports more than its maximum before anyone has written it: one that starts at 120 of 100 is
read as 100, and the engine reports it as changed from outside at every poll.

`DdcProofs` proves, for every controller, every combination of quirks and every monitor (`ControllersAreDrivers` also from
`WorkerAssumption`; the last three from the assumptions of `FollowProofs`):

| Theorem | States |
|---|---|
| `VerifiedWritesStick` | `VerifiedWriteSticks(c, f, v)`, of the features with a maximum |
| `WritesAreWhole` | `WritesWholly(c, f, v)` |
| `ScalesAreKept` | `ScaleIsKept(c, f, v)` |
| `TrafficIsBounded` | `ExchangesAreBounded(c, f, v)` |
| `VerdictsArePositive` | `VerdictIsPositive(c)` |
| `OfferedInputsReachTheBus` | `OfferedInputsAreWritten(c)` |
| `ControllersAreDrivers` | `DrivesPanel(c, d, raw)` |
| `WritesUnderWayVerify` | `OriginsInRange => (Spec => []DriversVerify)` |
| `WritesUnderWayKeepScale` | `OriginsInRange => (Spec => []DriversKeepScale)` |
| `OpeningsNeedEvidence` | `OriginsInRange => (Spec => []ProbesNeedEvidence)` |

The argument follows the calls. `Tried` is what up to three attempts may do, `Comes` what writing one value comes to:
the monitor is where it was or where the value puts it (`Puts`), the maximum in force is unchanged, the exchanges are
counted. `Proven` is the invariant of a verified write over its rounds: a round that is followed by another has not
succeeded, and one that succeeded has seen the value. `WriteComes` adds the maximum, which a controller that *knows* it
(`MaxKnown`) never asks for again. `Concludes` is what any successful probe may say. `ControllersAreDrivers` is the
step from here to the proofs about the workers, which assume of a driver that a write moves the panel to `Clamped` or not at all.
The last three are the step back. Their properties are evaluated on the calls the workers make, so what they need of the system is
that these are among the calls the promises are stated for: `NoValueIsMadeUp` says so, and `DriversAreControllers` that the
drivers tried are controllers.

`GammaProofs` proves, from `GuardAssumption` and `GammaAssumption`, for every set of displays, devices and
factors, every bound and every combination of faults (but for `renumber` where the table says so):

| Theorem | States |
|---|---|
| `GammaTypeCorrect` | `Spec => []GammaTypeOK` |
| `MarkerSafety` | `Spec => []LitRampIsMarked` |
| `CleanSessionsSpareOthers` | `Spec => SparesOtherPrograms` |
| `RecordsAreLive` | `"renumber" \notin Faults => (Spec => []RecordIsLive)` |
| `HandOversStayDim` | `"renumber" \notin Faults => (Spec => DimmedThroughout)` |

The argument. `LitRampIsMarked` is not inductive: it does not say why removing the marker is safe. `GuardOK` adds
that while the process lives every lit ramp is touched or lost, that a guard with something touched has marked
and its marker exists, and that the marker is only removed where nothing is touched. The death of the process
forgets `touched`, and what is left is exactly `LitRampIsMarked`. `SpareOK` says that the guard touches no device that still
carries another program's ramp, and that the places where a pass over every display happens are reached in
troubled sessions only. `BatchOK` says that what the engage phase has left to do asks for factors.
The last two need what happens inside a batch (`HandOverInv`). `HomeOK`: no map ever gives two displays one device.
`LiveOK`: between batches every record is what its device carries; a batch after a wake may start with stale
records, but the engage phase rewrites those that ask for a ramp, and the others stay in `todo` until the restore
phase forgets them. `MetOK`: what a batch asks for is still ahead of the engage phase, put, or known unmet, so the
restore phase takes a ramp away only where an overlay was put or is known to have failed.

`StateStoreProofs` proves, from `StoreAssumption`, for any number of versions and of quarantine names:

| Theorem | States |
|---|---|
| `StoreTypeCorrect` | `Spec => []StoreTypeOK` |
| `FilesAreWhole` | `Spec => []NeverTorn` |
| `CleanQuitsSave` | `Spec => QuitSaves` |
| `UnreadFilesAreKept` | `Spec => UnreadFilesSurvive` |

The argument. `NeverTorn` is inductive only with what the rename publishes: `WritingOK` says that the temporary
file is synced by the time it is renamed. `Saved` says of a quitting session that owes a version that the file has it or a
write of it is under way, which is why no failure, debounce or queued handler between the flush and
the exit loses it. `Backed` says that every directory a power loss may leave behind has the files that were moved aside,
under their new names or still in place, and `DiskOK` that while a file nobody can read lies in place nothing else is
in flux; a power loss then takes neither away.

`EndpointProofs` proves, from `EndpointAssumption`, for any processes and inodes:

| Theorem | States |
|---|---|
| `EndpointTypeCorrect` | `Spec => []EndpointTypeOK` |
| `GuardIsLastToGo` | `Spec => []GuardCoversEndpoint` |
| `ServersStayReachable` | `~FullRefuses /\ ~PinFails => (Spec => []ServerReachable)` |
| `UnlinksSpareTheLiving` | `~FullRefuses /\ ~PinFails => (Spec => OnlyTheDeadAreUnlinked)` |

The argument. `ServerReachable` speaks of one server and is broken by another process, so it needs what that one
knows: `ReachInv` adds `LockInv` (who is between two calls of a bind or an unlink holds the bind lock, hence is
alone), `Bound` (the path of a server that holds a socket is that socket, from its bind on), `Dead` (what a process is
about to remove nobody listens on, and it stays dead under the lock), `Remembered` (the inode a server believes it
bound is pinned, so its number is not handed out again while it is believed) and `Confirmed` (what an unlink compared still
holds). `GuardInv` says that a process that holds a socket and was not let in without the guard holds the guard.

`TrayProofs` proves, from `TrayAssumption`, for any monitors, surfaces and bounds:

| Theorem | States |
|---|---|
| `TrayTypeCorrect` | `Spec => []TrayTypeOK` |
| `TwinsAreToldApart` | `Spec => []TwinsStayApart` |
| `DimsFollowSurfaces` | `Spec => DimFollowsSurface` |
| `RowsAreGreyedExactly` | `Spec => []GreyedExactlyWhenAllDown` |
| `OverlaysFollowSliders` | `Spec => []OverlayFollowsSlider` |
| `SurfacesAreDimmedOnce` | `Spec => NoDoubleDim` |

The argument. Slots are cardinalities, so `TwinsAreToldApart` rests on `LaterTwin`: of two twins the later one has strictly
more before it. Anchors are least members of finite groups: `LeastNumber` and `LowestIsLeast` find them, `MembersAgree` and
`OneAnchor` say that displays on one surface have the same one, from which it follows that a surface has at most one
overlay, that control has at most one predecessor to migrate from, and that a row's health is that of
its whole group whichever member named it. `IdsOK` (the ids of the map, the queue and the grouping are ids monitors
may have) is the invariant all of them share; `FloorUnderOverlay` is the fact about the continuum that `NoDoubleDim`
needs: where the overlay is not transparent the hardware is at its floor. `TypesOK` with the lemmas on the ranges
of the continuum gives the types.

Only model-checked: liveness (`InFlightEnds`, `ComesToRest`, `RetiredWorkersLeave`, `ReplacementRuns`), which is outside
this prover's reach. Every invariant and every action property of the passing runs is stated by a theorem of the tables
above, for all values of the constants but where a table gives a hypothesis. The violated properties are refuted by TLC's counterexamples, so there is nothing to prove.

## 5. What is left

Worth doing next:

1. **Proofs**: `PanelFollowsLevel` on panels of other ranges once their range has been read, with lemmas on the round trip
   of `pct_to_raw` and `raw_to_pct`.
2. **Gamma channel**: the Linux sink, whose marker and `Drop` are written out in `gamma.rs`; renumbered displays.
3. **Level polling** after a failed first reading (D-033), with the poll timer's fairness.

### Not modelled

* **Sync groups**: no production path uses them.
* **Configuration documents, migration and quirks**: parsing of text, without state.
* **IPC frames and connections, the Windows pipe and named objects**: byte-level I/O, or without a file to race over.
* **Linux and macOS gamma sinks, overlay windows, surfaces**: calls of the system; the coordinator above them is modelled.
* **Panel backends, DDC transports, platform events, autostart, geometry**: calls of the system.
* **User interface, command line, build tooling**: view models, rendering, thin front ends.

Duja's source is large because of these: most of its lines are system calls on three platforms, rendering, and tests.
