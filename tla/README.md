# Verification of TRMNL for the reMarkable Paper Pro

TLA+ models of the program in `src/`: the backend that runs on the tablet, the
shell scripts beside it and the installer that puts both there. The modules are
model-checked by TLC on small instances; the theorems are checked by TLAPS for
every value of the constants.

- [Components](#components): the inventory of the system
- [Modules](#modules): how state and actions correspond to the code
- [Runs](#runs): what is checked, within which bounds
- [What the runs found](#what-the-runs-found)
- [Fairness](#fairness)
- [Proofs](#proofs)
- [Limits](#limits): what is only model-checked, and what is not modelled
- [Plan](#plan)

Paths are relative to `src/`. `main.go` without a directory is
`backend/cmd/trmnl-remarkable/main.go`.

## Components

| Component | State | Operations | Talks to |
|---|---|---|---|
| Refresh scheduler (`main.go`, `internal/power`) | trigger channel, timer and its channel, backoff, `nextRefresh`, wake error, RTC alarm | `queue`, `scheduler`, `fetch`, `refreshInterval`, `scheduleNext`, `RTC.Set`/`Clear`, `cleanup` | receive loop (channel, `a.mu`), TRMNL server, RTC |
| Quiet hours (`internal/config`) | none | `InQuietHours`, `NextActiveTime` | scheduler |
| Screen cache (`internal/cache`) | screen files, `index.json` | `Entries`, `Latest`, `Put`, `Clear`, `cleanupTemps` | `fetch` and the receive loop, without a lock |
| Front light (`internal/brightness`, `app/scripts/brightness_guard.sh`) | brightness file, cached and original level, guard process | `SetValue`, `Restore`, `applyConfiguredBrightness`, `brightnessScheduler`, the guard | receive loop, scheduler goroutine, `cleanup`, the tablet's own control |
| Battery test (`internal/batterytest`) | test in memory, `battery-test.json` | start, stop, reset, sample, count refresh and wake-up | receive loop, `fetch`, `batterySampler` |
| Settings (`internal/config`) | `a.cfg`, `config.json` | `Load`, `Normalize`, `Save`, the saving handlers | every goroutine |
| Message dispatch (`main.go`) | none of its own | `app.handle` | interface, all of the above |
| AppLoad protocol (`internal/protocol`) | a socket, a write mutex | `Receive`, `Send` | interface |
| Instance lock (`main.go`) | `backend.lock` with a pid | `acquireLock`, the release | other backends, any program with that pid |
| Update check (`internal/update`) | cached result or error and its time, the banner | `Check`, `updateWatcher`, `checkForUpdate` after a save | GitHub, interface |
| TRMNL client (`internal/trmnl`) | none | display, image and log requests | TRMNL server |
| Rendering (`internal/dither`, `main.go`) | rendered files | `renderedView`, `pruneInverted` | `fetch`, receive loop |
| History (`main.go`) | list, `history.json` | append, trim, write | `fetch` |
| Tablet interface (`app/ui`) | its copy of settings and status | pages, `msg*` requests | backend |
| Install scripts (`scripts/install-device-runtime.sh`, `device/*.sh`) | files on the tablet | install, roll back, uninstall, purge, recover | installer over SSH |
| Installer server (`installer/main.go`, `knownhosts.go`) | `operationMu`, token, known tablets in memory and in `known-tablets.json` | discover, `preflight`, `install`, `deviceAction` | installer page, tablet |
| Installer page (`installer/web`) | the tablet it shows, the tick, which buttons are enabled | Find, the tick, Install, Reactivate, Recover, Uninstall, Purge | installer server |
| Tools and packaging (`cmd/trmnl-input`, `trmnl-screenshot`, `trmnl-mock`, `scripts/*.go`) | none | developer tools | - |

What is hard, and so what the properties are about:

- **The scheduler's three clocks.** A Go timer that stops while the tablet is
  suspended, a wall-clock deadline shown to the owner, and an RTC alarm that
  must wake the tablet for it. Each refresh moves all three; quiet hours move
  the deadline afterwards; a manual refresh, a settings change, a failed alarm
  write, a suspend or a shutdown may come between any two steps. *Correct*: the
  timer is never early, alarm and deadline agree, no deadline falls into quiet
  hours, a refresh runs only for a reason, and it keeps running.
- **Files without locks.** The cache is changed by two goroutines and may be cut
  short by a kill. *Correct*: the last screen stored survives all of it, and a
  `304` never makes an outdated screen current.
- **A value cached of hardware.** The light is written by several goroutines and
  an outside process, read by four, and writes are skipped on the word of a cached
  level.
  *Correct*: the light comes back to where the owner had it, whenever the
  backend ends, and follows the settings while it runs.
- **Read, lock, write back.** Battery readings are taken before the lock and
  written after it, by three goroutines. *Correct*: no estimate rests on a
  charge, and nothing changes a stopped test.
- **A long script on somebody's tablet.** Every command may fail, signals run
  the rollback without ending the script, the connection times out while the
  script goes on, power fails. *Correct*: no half of a bundle is ever offered
  to AppLoad but by a removal or by what was never synced, a failure restores
  other people's files, success means complete, and one whole release always stays.
- **Two copies of the settings.** The interface edits its own and sends all of
  it back; the backend answers with states from four goroutines. *Correct*: the
  owner's last choices win, and the interface ends up showing what is in force.
- **A lock that is a file.** Between finding a stale lock, removing it and taking
  it, other backends start, end and are killed, and pids are used again.
  *Correct*: two backends do not run at once, a lock does not outlive its owner,
  and a stale one does not keep the app closed.
- **A checker without a lock.** Two goroutines assign the checker's fields one by
  one. *Correct*: no mixture makes a success of an empty result, a failure neither
  hides an answer nor lasts for ever, and requests stay rare.
- **Trust in a tablet.** The page shows a key, the owner ticks it, a command is
  sent later; tablets move between addresses, answers come late, a second tab or
  a second installer is open. *Correct*: a command reaches only a tablet the
  owner has ticked, and a recorded key gives way only to one accepted as changed.

Every such hazard is listed at its line in `PROJECT.json`, with the properties
that would catch it.

## Modules

| Module | Models | Depends on |
|---|---|---|
| `QuietHours` | clock arithmetic of the quiet window | - |
| `RefreshPromise` | abstract: what the scheduler promises | - |
| `RefreshScheduler` | the scheduler down to timer, channel, alarm, suspend and shutdown | extends `QuietHours`, implements `RefreshPromise` |
| `RefreshSchedulerProofs` | theorems of both | extends `RefreshScheduler` |
| `LastScreen` | abstract: when the latest screen may give way | - |
| `ScreenCache` | cache and the two goroutines that use it | implements `LastScreen` |
| `FrontLight` | light, settings that steer it, guards | - |
| `FrontLightProofs` | theorems | extends `FrontLight` |
| `TestRecord` | abstract: what may become of a battery test | - |
| `BatteryTest` | battery test, three goroutines, its file | implements `TestRecord` |
| `BatteryTestProofs` | theorems | extends `BatteryTest` |
| `SettingsPage` | the settings in the interface, on the wire, in the backend and on disk | - |
| `SettingsPageProofs` | theorems | extends `SettingsPage` |
| `InstanceLock` | the lock file and the backends that take it | - |
| `BackendFilesProofs` | theorems about the files the backend keeps: the screen cache and the lock | extends `ScreenCache` and `InstanceLock` |
| `UpdateCheck` | the checker, its two callers, the ticker, the banner | - |
| `UpdateCheckProofs` | theorems | extends `UpdateCheck` |
| `DeviceInstall` | installer operations and device scripts | - |
| `DeviceInstallProofs` | theorems | extends `DeviceInstall` |
| `TabletTrust` | abstract: trust on first use | - |
| `KnownTablets` | installer page, server and record of tablets | implements `TabletTrust` |
| `KnownTabletsProofs` | theorems | extends `KnownTablets` |
| `MC*` | instances for TLC | their module |

Definitions named `...Unchecked`, `...Removed` and the like, marked "Mutant:"
in their comment, are plausible bugs: each is a replacement of the definition
after it under which a property of a run fails. They are no part of `Next`.

### RefreshScheduler

Time is relative: `due` (the announced deadline `nextRefresh`), `timer` and
`rtc` are ticks still to go, so no clock has to be bounded. `Tick` moves all of
them; the Go timer only while the tablet is awake. `tod` is the clock time that
quiet hours look at.

`phase` is the scheduler goroutine: `select` (its `select` statement), `fetch`
(requests under way), `pace` (the result is known, `refreshInterval` is to
run), `arm` (`scheduleNext` up to its unlock), `alarm` (the RTC write, outside
the lock). `expired` is a value waiting in `timer.C`. `triggers` is the channel
of four. `SaveSettings` changes `cfg` at any moment in between, as the receive
loop does. `CleanupClear`, `CleanupCancel` and `Exit` are the signal
goroutine's or `main`'s; the scheduler runs on beside them, as nothing waits
for it. `Suspend` freezes every goroutine; `WakeUp`, or an alarm, ends it, and
the interface then owes `msgResume` (`resumeDue`). After `Kill` or `Exit`,
`Start` is the next process, which finds settings and alarm as they were left.

The server's answers (`Rates`, `RetryAfters`), the battery (`low`) and the RTC
driver (`RtcMayFail`: refuse, clear without writing, or write and fail to read
back) are nondeterministic.

`RefreshPromise` has no timer, channel contents or alarm: it says that a refresh
starts only for a waiting request or when the announced deadline has passed, and
that each announces exactly one deadline, at least a tick ahead.
`Promise == INSTANCE RefreshPromise WITH ...` is the refinement mapping.

### ScreenCache

Each action is one file operation or one request. `fpc` walks `fetch`:
`Display`, `LookLatest`, then `NotModified` (304) or `Downloaded`, then `Put` as
`PutRename`, `PutList`, `PutEvict`, `PutIndex`. `ClearRead`, `ClearRemove`,
`ClearIndex` is `Store.Clear` of the receive loop, interleaved at will. `Kill`
may fall between any two. The server changes its images at any time.
`overlapped` is a history variable that only a property reads. `Entries` writes
the loop over the index out as a recursive function, which is what the proofs
can treat.

`LastScreen` has no files and no index: a screen that has come in (`incoming`)
replaces the latest one (`last`) at once or is dropped, and only while the owner
clears the cache may an older one, or none, be the latest. The refinement maps
`last` to what `Cache.Latest` would return at that moment and `incoming` to the
entry between the rename of its file and the rename of the index.

### FrontLight

`level` is the brightness file, `current` and `original` the `Device`'s fields.
`loop` and `sched` are the receive loop and `brightnessScheduler`, each with the
target it has decided on but not yet written, so that the two may overtake each
other. `SetValue` is two steps, the write and the read-back (`WriteLight`,
`ReadBack`), which `writeMu` keeps together (`Writing`). `Device.Read` is two as
well, taking the value from the file and storing it in `Current` (`StoreRead`), and
takes no `writeMu`: it runs in every `sendState`, those of the receive loop and of
`brightnessScheduler` and those of the other goroutines (`Reporters`: the refresh
scheduler, the update checks), whose values under way are in `reading`. `changed` is the one-element signal channel; `late` and `fired` separate
"the boundary has passed" from "the timer has delivered". `orphans` are the
guards of backends that have ended. `life` walks `cleanup`: restore (a write and a
read-back), disarm, cancel, return. `home`, `excused`, `overtaken` (who has read a
level that was written since) and `misled` (the last to store `Current` was one of
these) are history.

A `Read` that a write overtakes leaves the cache wrong until the next `Read` of any
goroutine, and as `applyConfiguredBrightness` compares with the cache, a write that
was needed may be skipped meanwhile: `SlotsApplied` is violated.
`StaleOnlyIfOvertaken` says that this is the only way, and `LightFollowsSettings`
that the light follows its schedule all the same, later.

Named assumptions: the guard script does start; `brightnessScheduler` takes less
than half an hour to write the light; the owner uses the tablet's own control
only while the backend is down; reading and writing the brightness file succeeds.

### BatteryTest

Each goroutine walks `Read` (the sysfs level, before the lock), `Apply` or
`Refuse` (the critical section, including the clone), `Write` (the clone to
disk, after the unlock, which may fail and leave the old file, or a file that cannot
be read and is no test to a restart). `Applied` is the function of `batterytest.go` that the
call runs. Estimates and hours are left out; what makes them meaningful is not.

`TestRecord` has no goroutines and no lock. A running test is extended (`Continue`):
its start stays, its counts grow, its samples are the latest of the old ones and a
new one, and a rising level marks it as charged for good. A stopped one is left as it
is until it is discarded, replaced, or reloaded from what is `kept`: the file and the
clones on their way to it.

### DeviceInstall

`script.at` is the next command of `install-device-runtime.sh` (and, from
`bundle` to `activate`, of the `install.sh` it runs); the other fields of
`script` are its shell variables, which decide what `rollback` does. Each
command either does its work and moves on, or leaves a half and stays
(`CopyRuntime`, `Extract`, `CreateXovi`); it may also `Fail`, which runs the traps. `Signal`
runs them too, but **the script continues**, since the traps do not exit.
`script.trap` is what a rollback has still to do: its parts (`RollbackRuntime`,
`RollbackXovi`, `RollbackProject`, `RollbackBackup`) run one after the other, and
each removal or copy may be met half way, also by a loss of power. `server` is the
installer, one operation at a time (`operationMu`); `InstallTimesOut` leaves the
script running alone.

Files are abstracted to the release they come from, `None` or `Torn`. No script
syncs anything, so what it writes is at first an `Unsynced` copy, which `PowerLoss`
may tear wherever it has been renamed to by then; `Writeback` is the kernel's, at
any time. Of the runtime, `unsynced` says the same. `before`, `disturbed` and
`durable` are history.

`AppNeverTorn` names the steps that do leave half a bundle: a removal of it, and a
loss of power over a bundle that was not yet written back. `WholeProjectKept` is about
a release that was written back (`durable`), since one that was not may be torn
where it stands.

Named assumptions: one install script runs at a time (after a timeout the code
would let a second start beside the first); no signal meets a rollback, and a
rollback's own commands succeed; renames and removals last, in the order they were
made, as a journalled file system keeps them; what is saved in `/tmp` is whole until
a loss of power empties it; a removal of a backup leaves either the backup or
nothing that counts; `install.sh` succeeds whether or not XOVI comes up, as it
prints a marker instead.

### SettingsPage

`cfg` and `saved` are `a.cfg` and `config.json`; `known`, `fields` and `typed` the
interface's `appConfig`, what its pages show, and the key field. The settings
of `config.go` are five kinds, told apart by how the interface treats them: shown
by the page and by a control (`invert`), also set by every state (`system`), sent
only after a pause (`slider`), on no page at all (`schedule`, which stands for
`history_limit` and `dither_palette` too), and the API key, which never leaves the
backend. The level has two sliders, `control` and the page's, each with a debounce
timer of its own (`pause`) that sends what its slider shows by then; a slide moves the
other one along, and a state sets the page's to the setting and the control to the
light's level (`StateArrives`), which the system, the schedule or a failed write may
keep from the setting.

`Normalized` is what `config.Normalize` makes of the two brightness modes: with the
system brightness on, the schedule is off. `SaveConfig` normalizes what it keeps;
`config.Save` normalizes its own copy, so after a preference the file has the
schedule off while the memory still has it on, and the page, which shows the memory,
sends it back. The disagreement ends when the system brightness is switched off
again, or else with the next save of the page or the next start, which forget the
schedule's being on; `ChoicesKept` is stated up to it.

`requests` and `states` are the two directions of the socket, in order and
bounded. The receive loop takes one request at a time and owes one state
(`owing`, `Reply`); the scheduler, `brightnessScheduler`, the update check and a
fetch also call `sendState`, which reads first and sends later (`OtherReads`,
`OtherSends`). `chosen`, `edited`, `excused` and `behind` are history.

Named assumptions: no device ID is set, so the page opens by itself exactly when
there is no key; the tablet has a front light that can be read; `config.Save` fails
either before or after its rename; writes to the light may fail. The grid of the brightness schedule is left out: at this
commit `TRMNL.qml` refers to `scheduleGrid`, `scheduleEnabled` and
`scheduleBrightness`, which it does not declare, and never sends message 17. The
backend's handler of that message is in `FrontLight`.

### InstanceLock

A process is its pid. `pc` walks `acquireLock` one system call at a time
(`create`, `read`, `signal`, `remove`, `recreate`, `write`) to `running`; a pid
may also belong to another program (`other`), to which signal 0 is just as
good. `lock` is the file now at the path and says who created it, since a process
goes on to write its pid to the file it has open even when that was removed
(`WritePid`). `Release` and `RemoveLock` remove whatever is at the path. `contended`
is history: two starts were in `acquireLock` at once. `Die` is any end that does not
release the lock.

Named assumption: the file operations succeed, and every process may be
signalled (on the tablet everything is root).

### UpdateCheck

`checker` is `update.Checker`: `at` (the age of `fetchedAt`), `failed` (the cached
error) and `last`. `Watcher` is the goroutine of `updateWatcher`, `Savers` those
of saves that turn the option on. Each walks `start` (the option, then the
cache), `fetch` (the request), `write` (the assignments of `Check`, which become
visible to the other goroutine one by one and in any order, as there is no
lock), `show` (the interface). `ResultOf` is what `fetch` makes of a release: a draft
is reported but never available. A result that one goroutine reads or writes while
another copies its own may come out `Mixed`: a Go struct of several words has no
atomic assignment, so each field may be of either, the availability of one answer
beside the tag of the other, and a tag (a pointer and a length) may be of both
(`Torn`). Versions are sequences of numbers, compared as `newer` does.

`Elapses` is the wall clock, by which `Check` measures ages. `Time` moves the ticker
too, which runs on the monotonic clock; while the tablet sleeps (`Sleep`) the ticker
stands still. `SetBack` sets the wall clock back by up to `Back`. Ages are clipped
to `Interval`, past which they all mean "not fresh".

### KnownTablets

A tablet is its host key. `page` is the script's state in a tab: the tablet shown
(`finger`, `installed`, `active`), whether the server called the key changed, the
tick (`trust`), and which buttons are enabled (`find`, `live`). `search` is a call
of `/api/preflight` under way, `op` one of `/api/install`, `/api/reactivate` and
the like; `op.key` is set once the server holds `operationMu` and is connected.
`known` is each installer's record in memory, `file` the one on disk, which
`Remember` replaces as a whole. Any key may answer at any address at any time,
which covers tablets that change places. `Restart` is the page's Quit, or a crash,
and the next start. `approved`, `accepted`, `unsaved`, `unsure` are history.

`TabletTrust` has no pages, searches or calls: owners trust tablets, installers
begin and end work on them, keep a record and read it again. Work begins only on
a trusted tablet, and on another than the recorded one only if it was trusted as a
replacement. Trust is per key, as in the code: the page sends its tick with the key
it shows and with whatever address its field holds by then, so a key accepted as
changed at one address may stand for another's record. The refinement maps the calls that hold `operationMu` (`Commands`) to
the work under way.

Named assumptions: a tab has at most one search and one other call under way
(the code lets a tick during a call enable the buttons again, which is modelled,
but a second click in that tab waits for the first answer); purge leaves for the
page what an uninstall leaves; an address has one spelling; the tokens and the
log in succeed or the call is refused.

## Runs

| Run | Instance and bounds | Properties |
|---|---|---|
| `refresh_scheduler` | `RefreshScheduler.cfg`: day of 4 ticks, 2 settings (night window that wraps, noon window; with and without key, saver, wake-up), channel of 2, failing RTC | `TypeOK`, `TimerMatchesDeadline`, `AlarmMatchesDeadline`, `DeadlineIsFirstActive`, `KeepsPromise` |
| `refresh_liveness` | `RefreshLiveness.cfg`: no quiet hours, channel of 1 | `FullQueueDrains`, `KeepsRefreshing` |
| `screen_cache` | `ScreenCache.cfg`: 4 file names (symmetric), 2 URLs, 2 validators, 2 entries kept, 1 kill | `TypeOK`, `KeepsLastScreen`, `ConfirmedIsCurrent`, `NoOrphans` |
| `front_light` | `FrontLight.cfg`: 2 levels, 2 slots (one unassigned), the refresh scheduler as a third reader, restore on exit, saves that succeed, no guard left at a start | `TypeOK`, `StaleOnlyIfOvertaken`, `LightComesBack`, `LightFollowsSettings` |
| `slots_applied` | `SlotsApplied.cfg`: as `front_light` | `SlotsApplied` (expected to fail) |
| `battery_test` | `BatteryTest.cfg`: the receive loop and one recording goroutine, levels 0..1, 1 sample kept, 1 counted event, a failing disk | `TypeOK`, `EstimateIsADischarge`, `KeepsRecord` |
| `device_install` | `DeviceInstall.cfg`: 2 releases (symmetric), 1 bundle backup kept, 2 project backups | `TypeOK`, `FailureRestoresRuntime`, `SuccessIsComplete`, `WholeProjectKept`, `AppNeverTorn` |
| `settings_page` | `SettingsPage.cfg`: every setting two values, 2 messages per direction, 4 acts of the owner, failing saves and light | `TypeOK`, `ChoicesKept`, `InterfaceAgrees` |
| `instance_lock` | `InstanceLock.cfg`: 3 pids, 2 kills | `LockTypeOK`, `OneBackend`, `NoLockLeft`, `StaleLockYields` |
| `update_check` | `UpdateCheck.cfg`: version 2.1.0, a newer release, one save's goroutine, a tick per unit, an interval of 2, a clock set back by 1 | `TypeOK`, `CachedIsAnswer`, `BannerIsNewest`, `OneRequestPerInterval`, `KeepsChecking` |
| `known_tablets` | `KnownTablets.cfg`: 2 addresses, 2 keys, 2 tabs, 2 installers (symmetric), a record of at most one address, 4 clicks | `TypeOK`, `OnlyApprovedTablets`, `PageFitsTablet`, `KeepsTrust`, `RecordSurvives` |
| `reactivate_after_recovery` | `ReactivateAfterRecovery.cfg`: as `known_tablets` | `ReactivateCanWork` (expected to fail) |

Why the bounds are enough. Scheduler: a window that wraps and one that does not,
waits shorter and longer than both, and a deadline at every clock time occur
within four ticks; a channel of two is empty, partly full and full. Cache: with
two entries kept and four names, every eviction, and files that outlive their
entry, occur; a second kill adds nothing to the first, as each leaves files
only. Light: the properties compare levels for equality, so two suffice, and a third
reader shows what any number of them can do to the cached level. What the run leaves
out for its size is in the theorems, which hold of it: saves that fail, settings
without restore on exit, and a start with a guard still about
(`CacheIsMisledOnlyByReads`, `LightIsRestored`). Battery: only the order of two levels
matters, and each new sample pushes out the one before it; longer lists of samples are
in `EstimatesAreDischarges` and `RecordIsKept`, which hold for every `MaxSamples`.
Installer: upgrade, downgrade and reinstall need two
releases; pruning happens with one backup kept (two in the code). Settings: what goes wrong
takes a choice, a competing one and a page opened between them, three or four
acts, and a preference, a save and the restart after it show where memory and file
disagree; two messages are enough for one that overtakes and one that fills the
socket. Lock: the worst case is one backend that runs, one that has found a lock
stale and one that has just taken it; the two kills leave a lock whose pid is
used again, and end its next owner. Update check: two checks overlap in every
order of their assignments, and both copy a result at once; an age is negative, zero,
below and at the interval. Several releases, and drafts among them, are in the theorems
(`CachedAnswers`, `BannerStands`, `RequestsAreRare`).
Known tablets: a competing call needs two tabs, a competing record two
installers, an exchanged tablet two keys, and the longest way to a wrong command
is Find, a command, Find again and a second command. The bounds
`MaxSources`, `MaxKills`, `MaxDeaths`, `MaxEvents`, `MaxOrphans`, `MaxActs`, `Savers` and `Back`
are constants and named where they guard an action. The theorems hold without
any of these bounds being small.

## What the runs found

`reactivate_after_recovery` is expected to end in a violation. After
`Restore stock interface` the page still counts TRMNL as installed and offers
Reactivate, but the recovery has moved the bundle away that
`reactivateCommand` tests for (`installer/main.go:301`): the button can only
fail, although `docs/validation/v2.1.md:49` records "Reactivate after recovery"
as passed.

`slots_applied` is expected to end in a violation too. `main.go:384` says that
"brightnessScheduler applies a changed slot exactly at each half-hour edge". It does
not when a state that another goroutine sends has read the light just before a write
and stores the level just after it (`brightness.go:74`): the cache then says the
slot's level, `main.go:439` finds nothing to write, and the light stays as it is
until the next slot or setting that differs from the cache, which the state sent at
the edge has mended by then.

Behaviours of the code that a document, a comment or a reader would expect to be
otherwise, met while modelling; no property of a passing run claims the opposite:

- `main.go:905`: the alarm is cleared before the scheduler goroutine is told to
  stop, and nobody waits for it; it may set the alarm again after the exit.
- `main.go:850`: clones of the battery test are written after the unlock, so the
  older of two may be written last and is what a restart loads.
- `main.go:399`: a settings signal that meets a half-hour boundary rearms the
  timer and drops the boundary; the light is right again at the next one.
- `main.go:315`: with the system brightness on, a preference leaves the schedule on
  in memory and off in the file, as `config.Save` normalizes a copy (`config.go:290`);
  the page shows it on, and a restart finds it off.
- `device/install.sh:56`: the new bundle is renamed into place and the former one
  pruned without a sync; power lost soon afterwards may leave a bundle, or a source
  tree, with files cut short.
- `device/install.sh:42`: a failed upgrade leaves no app bundle, as no trap puts
  the old one back; the installer then reports "rolled back"
  (`installer/main.go:269`).
- `main.go:1317`: of two starts that overlap, each may find the other's lock blank
  or stale, and both run.
- `internal/update/update.go:27`: the remembered failure does not survive a
  restart, so a restart loop does send a request each time; and a request under
  way is not stopped by turning the option off.
- `installer/knownhosts.go:84`: two installers that are open overwrite each
  other's record of tablets.
- `installer/main.go:50`: the comment speaks of the key "remembered from a previous
  successful install"; `deviceAction` records one as soon as it has connected.
- `installer/main.go:278`: the message after TRMNL_ACTIVATION_PENDING says to click
  Reactivate, which the page disables, as it takes the app for active.

Several passing properties state their exceptions in the formula. They are
behaviours of the code a reader should know: a `Clear` beside a `Put` may leave a
file nobody lists (`overlapped` in `NoOrphans`); a goroutine that runs on beside
`cleanup` may switch the light on after it was restored, and a backend started
within ten seconds of a kill takes the killed one's level for the original
(`excused` in `LightComesBack`); a signal that meets the install script rolls
back a script that then goes on (`disturbed` in `DeviceInstall`); a slide is lost
when a state arrives within its 250 ms pause, or is sent after the save or the reset
it came before, and a save of the page sends back an outdated value of what no page
shows, when it comes before the first state or before the one after a reset
(`excused` in `ChoicesKept`).

One more was proved instead of run. The battery saver "stretches the interval"
(`main.go:478`), and the README presents it as "Refresh less often below 20% battery"
(`README.md:155`); but its cap of six hours is applied to whatever the interval was. `SaverShortensLongIntervals`
says exactly when the saver makes a tablet refresh *more* often: when the server's
or the owner's interval is over the cap; a minimum of the owner's that is over it
is then undercut.

## Fairness

`RefreshScheduler!Fairness`: time passes (`WF(Tick)`); the interface sends its
resume (`WF`); a goroutine that is ready runs, and Go's `select` picks among
ready cases at random, so a case that is ready again and again is taken
(`SF(SelectTrigger)`, `SF(SelectTimer)`). They are strong because a suspend
disables every goroutine and may recur. A request ends because the HTTP client
has a timeout of 30 s (`internal/trmnl/client.go`). Cleanup once begun goes on.
Nothing is assumed of the owner, the server's answers, the RTC, or of a kill or
suspend ever happening or not. `KeepsRefreshing` lists in `Interrupted` what may
end the refreshing: no process, no alarm, or a suspend with work pending.

`FrontLight!Fairness`: half-hours pass, timers fire, and `brightnessScheduler` runs
when it has something to do (`WF` each). Nothing is assumed of the goroutines that read
the light, nor of which of two ready cases its `select` takes: with the owner doing
nothing no signal competes with the timer for long. `Steady` in `LightFollowsSettings`
assumes that from some point on the backend runs, the custom light is on and the owner
does nothing.

`InstanceLock!FairLockSpec`: a process in `acquireLock` runs on (`WF` per pid). Nothing
is assumed of starts, exits, kills or other programs; `StaleLockYields` assumes
in its formula that the app is opened again and again.

`UpdateCheck!Fairness`: the tablet is awake from time to time (`WF(Time)`), as the
ticker stands still while it sleeps; the watcher takes a tick that waits, and a
check that is under way goes on; its request ends by the HTTP client's timeout.
`KeepsChecking` assumes in its formula that from some point on the option stays
on, the process runs and the clock is not set.

## Proofs

Eight modules hold the proofs; `tlapm RefreshSchedulerProofs.tla` checks one, and
so on. They use the named assumptions on the constants only (`DayAssumption`,
`SchedulerAssumption`, `CacheAssumption`, `LightAssumption`, `BatteryAssumption`,
`SettingsAssumption`, `LockAssumption`, `UpdateAssumption`, `InstallAssumption`,
`TabletsAssumption`), which TLC evaluates on the instances. Every safety
property that a passing run checks is also proved (`UpdateCheck`'s `TypeOK` inside
its invariant, without a theorem of its own); what is left to TLC alone is the
liveness.

| Module | Theorem | Says |
|---|---|---|
| `RefreshSchedulerProofs` | `TypesHold` | `Spec => []TypeOK`, for every channel capacity, day length, settings and answers |
| | `TimerIsNeverEarly` | `Spec => []TimerMatchesDeadline`: neither early nor lost |
| | `AlarmAgrees` | `Spec => []AlarmMatchesDeadline`, with the safety core of `KeepsRefreshing`: asleep and not interrupted, an alarm is set for a deadline to come |
| | `SchedulerKeepsPromise` | `Spec => KeepsPromise`: the refinement of `RefreshPromise` |
| | `DeadlinesAvoidQuietHours` | `Spec => DeadlineIsFirstActive`: outside the window, and no later than need be |
| | `SaverShortensLongIntervals` | when the battery saver makes the interval shorter |
| `BackendFilesProofs` | `CacheTypes`, `ConfirmedScreens`, `CacheIsAccounted` | `TypeOK`, `ConfirmedIsCurrent`, `NoOrphans` of `ScreenCache` |
| | `LastScreenIsKept` | `Spec => KeepsLastScreen`: the refinement of `LastScreen` |
| | `LockTypes`, `BackendsExclude`, `LocksAreReleased` | `LockTypeOK`, `OneBackend`, `NoLockLeft` of `InstanceLock` |
| `FrontLightProofs` | `LightTypes`, `LightIsRestored`, `CacheIsMisledOnlyByReads` | `TypeOK`, `LightComesBack`, `StaleOnlyIfOvertaken` |
| `BatteryTestProofs` | `BatteryTypes`, `EstimatesAreDischarges` | `TypeOK`, `EstimateIsADischarge` |
| | `RecordIsKept` | `Spec => KeepsRecord`: the refinement of `TestRecord` |
| `SettingsPageProofs` | `SettingsTypesHold`, `ChoicesAreKept`, `PagesAgree` | `TypeOK`, `ChoicesKept`, `InterfaceAgrees` |
| `UpdateCheckProofs` | `CachedAnswers`, `BannerStands`, `RequestsAreRare` | `CachedIsAnswer`, `BannerIsNewest`, `OneRequestPerInterval` |
| | `NewerOrdersVersions` | `Newer` is a strict order, total up to equal parts |
| `DeviceInstallProofs` | `InstallTypes`, `AppIsNeverTorn`, `FailuresRestoreRuntime`, `SuccessesAreComplete`, `ReleaseStays` | `TypeOK`, `AppNeverTorn`, `FailureRestoresRuntime`, `SuccessIsComplete`, `WholeProjectKept` |
| `KnownTabletsProofs` | `TabletTypes`, `ApprovedOnly`, `RecordsSurvive`, `PagesFit` | `TypeOK`, `OnlyApprovedTablets`, `RecordSurvives`, `PageFitsTablet` |
| | `TrustIsKept` | `Spec => KeepsTrust`: the refinement of `TabletTrust` |
| | `KeysGiveWayOnPurpose` | in memory, a recorded key gives way only to an accepted one, or at a restart |

*Scheduler.* The inductive invariant `IInv` is `TypeOK`, the two safety
invariants, and facts that make them inductive: the interval is positive
while it waits to be armed (`WaitIsPositive`, else a timer would be armed for
zero), and an ended process leaves no deadline (`EndLeavesNothing`, else the next
start would find one without a timer), a timer that
a suspend has put behind the deadline does not stay so once the tablet is awake
and has nothing left to do (`KeepsPace`), so it sleeps uninterrupted only before
its deadline (`SleepsBeforeDeadline`), and with that and `AlarmSet` the alarm is the
deadline's. The arithmetic - positive interval,
deferral that never goes backwards, clock times that wrap - is in lemmas about
`QuietHours` and `RefreshInterval`. `BystanderStep` covers at once the actions
that touch neither timer, deadline nor alarm. The refinement has one step per
action: the promise's `Ask`, `StartAsked`, `StartDeadline`, `Announce`,
`Finish`, `Pass`, `Stop` and `Restart`, and stutters for the rest;
`StartDeadline` is where `TimerMatchesDeadline` is needed, as an expired timer must
mean a passed deadline. `DeadlinesAvoidQuietHours` is arithmetic: every moment is a
number of whole days and a clock time (`Division`), a deferral ends at the
window's end, today's or tomorrow's (`DeferralLeavesWindow`), a window does
not contain its end (`WindowEnds`), and every moment that is skipped lies inside
(`DeferralIsMinimal`).

*Screen cache.* `Shown`: what `fetch` stores or shows is the image it was answered
with, as a 304 can only answer the validator of the entry looked up. `Stored`: no
file is listed twice, and the one being stored is on disk and on nobody else's
list, so that nothing but `Put` itself removes it. `Listed`: unless a `Clear` has come
between, `Put` evicts from the new entry followed by all present ones. `Accounted`:
without an overlap, a `Clear` has every file on its list, and so has a `Put`; this is
what makes `NoOrphans` inductive. About
`Entries` the proofs use one fact, that it keeps the order of the index and what
the directory holds (`EntriesKeeps`); the latest screen is then the first entry whose
file is there (`LatestFound`). It is shown by induction on
the rounds of the loop; as the induction theorems of the library take an operator,
`NatInduct` derives a form over sets from the well-foundedness of the naturals.
In the refinement `PutRename` is `Receive`, `PutIndex` is `Replace`,
`PutIndexFails` is `Drop`, and the steps of a `Clear` are `BeginClear`, `Lose`
and `EndClear`. `PutEvict` beside a `Clear` may also be a `Lose`; otherwise it must
not touch the latest screen, which is where `Keep >= 2` is needed: the first
entry kept is the new one, the second the latest.

*Front light.* While nothing is excused, a running backend remembers the owner's
level, from the restore's write on the level is the owner's, and after the end it
is, or a guard that will put it back is about (`Kept`). The restore does not look at
the cache, so this needs nothing of it. `Cached` is about the cache: a `Read` that no
write has overtaken holds the file's level, and the cached level is the file's, is
misled by a `Read` that was overtaken, or is about to be read back under `writeMu`.
That a goroutine which is about to write has a level to write (`Targets`) makes the
types inductive.

*Battery test.* `EstimateIsADischarge` is not inductive, since a restart loads what
was written: the invariant is that every copy of the test, in memory, on disk
and in flight to it, is `Sound`. Trimming keeps the end of a falling list
(`TrimmedIsTail`). In the refinement of `TestRecord` every `Apply` is a `Begin`, a
`Discard` or a `Continue` (`SampledExtends`, `AppliedExtends`), a `Write` is a `Save`
and a restart a `Reload`; the mark of a charge is kept because a level that rose since
the last reading is itself taken for one.

*Settings.* `ChoicesKept` speaks of an empty queue only. The invariant
(`ChoicesReach`) says of any queue what handling it would leave of a setting: the
value of the last request that sets it, or the value in force when none does
(`Leaves`); that is the owner's choice at every moment, but for a slide still in
its pause, which its slider shows. Memory and file agree once both are normalized,
which is idempotent and touches nothing but the schedule (`NormalizedFacts`). `AppendSets`, `AppendKeeps` and `TakeFirst` say what sending and
handling a request does to `Leaves`. `InterfaceAgrees` follows from the last state
sent being the settings in force, unless one is owed or the first is still
asked for (`Reported`).

*Instance lock.* As long as no starts overlap (`Serial`): one process is in
`acquireLock` at a time, a running backend's pid stands in the lock, and a process
past the test of the pid finds no backend running. Both modules of
`BackendFilesProofs` are open at once, so those of the lock have names of their own
(`LockSpec`, `LockNext`, ...).

*Update check.* `CachedIsAnswer` holds through every race because an assignment that
ends "no error and no result" is always still pending (`Repaired`), and a mixture of
two results that name a release names one as well (`OutcomeTypes`). The other two
need that a check is alone: what it holds and what it has yet to write accounts
for the difference between banner and cache (`Told`), and the time of the last
request is with its caller or in the checker (`Stamped`).

*Installer.* `InstallTypes` bounds the bundles kept by `RoomForApp`: a bundle is in
place only beside as many backups as `install.sh` keeps, since it prunes before it
puts one there. `AppIsNeverTorn` needs that the staged copy is never torn
(`StagedWhole`), which a loss of power does not break as nothing refers to that copy
afterwards. `FailuresRestoreRuntime` rests on `RuntimeInv`: as long as no
signal or other operation has met the script, its flags (`createdXovi`,
`installedAppload`) tell what it has changed so far, and what they do not
mention is as the script found it (`FlagsTell`), part by part of a rollback under
way (`TrapTells`); and a tablet without XOVI has nothing in it (`NoLooseRuntime`).
`SuccessesAreComplete` rests on `Done`, what the script has completed by where it
stands; `ReleaseStays` on `ReleaseKept`: while the project is in pieces, and while
a rollback has still to remove them or to bring the backup back, a written-back
release is among the backups.

*Known tablets.* `Calls`: a call carries a ticked key, and an accepted one if it says
so. `Connected`: who holds `operationMu` is alone on its installer, so the record it
has looked up is the one it replaces. `Ticks`: a tick stands for the key the page
shows, which is why an answer that replaces the key must clear it. `Records1`: only
ticked keys come into a record, and one installer's memory is its file. `PagesFit`
compares page and tablet (`Fitting`), a tab being unsure as soon as anything else
may have changed its tablet. In the refinement of `TabletTrust`, `Connect` is
`Begin`: `Calls` gives the trusted key, `ExpectedMayReplace` that it may stand where
another is recorded, `operationMu` that the installer is not at work already.
`Complete` and `Fail` are `End`, where `Connected` says that only this work of the
installer ends; `Restart` is `Reload`, and a tick is `Trust`.

## Limits

Model-checked only, on the instances above: the liveness properties
(`FullQueueDrains`, `KeepsRefreshing`, `LightFollowsSettings`, `StaleLockYields`,
`KeepsChecking`), since the prover treats neither fairness nor ENABLED. Their safety
cores are proved where there is one: a waiting scheduler has a timer and a sleeping
tablet its alarm (`TimerMatchesDeadline`, `AlarmMatchesDeadline`), which leaves to
`KeepsRefreshing` only that time passes and goroutines run. Induction is at hand for
functions over the naturals (`NatInduct`), not for recursive operators, of which the
modules have none.

Not modelled: HTTP details and redirects (outcomes are inputs); dithering (pure
pixel arithmetic); the pruning of rendered images by two goroutines
(`main.go:1007`: it takes three renders of one goroutine between two adjacent
statements of the other, and is mended by the next image); a failure between the
two records of a message (`protocol.go:89`); refresh history, which is trimmed and
written as the battery test is; the contents of messages to the interface; API
keys and tokens; daylight-saving jumps (days have one length); corrupt JSON files
other than the battery test's; the payload verification and network discovery of
the installer; the XOVI service drop-in, Xochitl and the SSH keys in uninstall and
recover; the developer tools and the packaging scripts. The components table in
`PROJECT.json` gives the reason for each.

## Plan

In order of importance; done is marked.

1. *done* `QuietHours`, `RefreshScheduler`, `RefreshPromise`: the program's core
   loop, its refinement, its liveness, its proofs.
2. *done* `ScreenCache`, `FrontLight`, `BatteryTest`: shared files, hardware and
   state of several goroutines.
3. *done* `DeviceInstall` and its first proofs.
4. *done* `SettingsPage`: the interface's copy of the settings and what a save
   overwrites.
5. *done* `InstanceLock`, `UpdateCheck`, `KnownTablets`, with their proofs.
6. *done* Proofs of every safety property, and four refinements
   (`RefreshPromise`, `LastScreen`, `TestRecord`, `TabletTrust`).
7. Left to prove: an abstract specification of an install (the tablet has the old
   release, the new one or none, never a mixture; other people's files come back
   after a failure), and that `DeviceInstall` implements it.
8. Left to model: the pruning of renders by two goroutines; the two-record framing of
   `internal/protocol` when the second record fails; the redirects and timeouts of
   the TRMNL client; two installers on one tablet (`KnownTablets` with
   `DeviceInstall`); the composition of `FrontLight` with `SettingsPage` (one
   `a.cfg`, one receive loop).
