# Verification of the home server

TLA+ models of the Raspberry Pi home server in this repository, the TLC runs
that check them on small instances, and TLAPS proofs of what holds for every
size. Paths below are relative to `src/home_server/` of the repository.

## 1. Inventory: the system and what is hard about it

The server is one Python process. Flask-SocketIO in threading mode gives every
web request a thread; a `PeriodicWorker` thread runs the reconnect monitor;
`BluepyManager` runs one worker thread per peripheral; SQLite (autocommit, WAL,
a connection per thread or per tick) holds the state that survives.

| Part | State | Operations | Meets |
|---|---|---|---|
| Reconnect monitor (`services/ble_runtime.py`) | `_monitor`: last status, backoff, next retry, subscribed, per address | `_monitor_tick`, `_on_connected`, `_set_status`, `activate` | reads `devices`, asks and drives the BLE manager, stamps rows, emits `device_status` |
| Scan window (`services/ble_runtime.py`, `core/periodic.py`) | `_monitor_worker`, its thread and stop event | `scan_window`, `monitor_start/stop`, `_disconnect_all` | stops the monitor, disconnects, holds the adapter, restarts the monitor |
| bluepy backend (`ble/bluepy_manager.py`, `ble/bluepy_worker.py`) | worker registry and its lock, adapter lock, per worker: queue, futures, connected, stop event | connect, ensure_connecting, disconnect, read, write, (un)subscribe, start_scan; the worker loop | called by requests and monitor; calls back notifications |
| Channel subscriptions (`services/ble_runtime.py`) | `_subscribed`, the CCCDs of the peripheral, the delegate's handlers | `_subscribe_display_channels`, `on_channel_added/removed` | monitor and web requests in parallel |
| Notify pipeline (`services/channel_service.py`, `ble/rate_limiter.py`) | last emit per channel, `readings` | `handle_notify`, flag and control states | worker threads push to rooms and insert readings |
| Controller writes (`services/channel_service.py`) | `readings` as the only record of a command | `write_command` | worker queue, then database |
| Device registry (`services/device_service.py`, `db/devices.py`, `schema.sql`) | rows with AUTOINCREMENT ids, unique addresses, cascades | add, remove, label, list | the monitor's snapshot |
| Readings (`db/readings.py`) | readings with second-resolution stamps | latest, history, buckets | dashboards |
| Binary formats (`ble/parser.py`) | none | encode, decode | pipeline and writes |
| Schema and migrations (`db/connection.py`) | columns of existing databases | `initialize`, `apply_migrations` | every start, after a crash too |
| Dashboards (`web/__init__.py`, `web/static/js`) | rooms, charts, flag edges in the browser | subscribe, fetch history, push | socket reconnects, slow fetches |
| Accounts (`services/user_service.py`, `web/auth.py`) | users, password hashes | register, seed, login | concurrent registration |

Hard behaviour: the monitor works on a snapshot while requests change the
table; `is_connected` is asked before it matters; disconnect, connect and loss of
the link race for one worker; two scans, or a scan and a slow tick, overlap; a
database error cuts a tick short between two updates. `PROJECT.json` lists each
hazard at its line, with the properties that would catch it.

What makes each part correct:

- monitor: announced statuses follow one graph per row; the stamp of a row is
  that of the transition its dashboards were told of; the delay is bounded and
  starts over; a registered device is tried until it is back;
- backend: one user of the adapter; no worker that nobody can reach keeps a link;
  no command of a live worker is forgotten; a loss is seen;
- scan window: never a monitor nobody can stop; the monitor comes back;
- subscriptions: on a live link exactly the display channels of the row deliver;
- pipeline: recorded states converge to the device's; writes: the record is the
  last command the device obeyed; readings: latest is latest; formats: decode
  undoes encode where encode accepts; migrations: a crash loses no backfill;
- dashboards: once the page is in step it shows what the server has last pushed,
  whatever order answers and pushes came in, and a toast is a rise; a chart has what
  it was given of its window, and nothing older.

## 2. Plan

Modules, in this order. All of them exist; section 7 says what remains.

1. `Announcements` (abstract) and `ReconnectMonitor`, which implements it.
2. `Links` (abstract) and `BluepyManager`, which implements it.
3. `ScanWindow`, which abstracts both and adds the scanning requests. It and
   `ReconnectMonitor` keep to `Links`, so neither is checked against a backend that
   could not exist.
4. `ChannelSubscriptions`: subscription by the tick from a list of channels,
   `on_channel_added/removed`, the duplicate-uuid check, the worker's delegate, and
   the synchronous backend beside the threaded one.
5. `NotifyPipeline`, on top of the queries of `Readings`.
6. `ControllerWrites`: queue, timeout, late execution, record; on top of `Formats`.
7. `DeviceRegistry`: the devices table through migrations, crashes and requests.
8. `Dashboard`: pushes against fetches on one page, on top of `Readings`.

Bounds: two actors of each kind, two objects they compete for, one or two
recycled names beyond. Every invariant and action property of the runs has its theorem
by now. Worth proving next: that more of the modules' composition is not assumed but
implemented (the readings that `Dashboard` leaves open and `NotifyPipeline` decides),
and the parts of liveness that are safety.

## 3. What is modelled

### `ReconnectMonitor` (with `Announcements`, `MCReconnectMonitor`, `ReconnectMonitorProofs`)

The monitor thread, one step at a time: `TickStart` (list_all, pruning of the
bookkeeping), `Observe` (setdefault and the first `is_connected`), `SeeDrop`,
`NotDue`, `Kick` (report and `ensure_connecting`), `Recheck` (the second
`is_connected`), `Subscribe` and `Report` (`_on_connected`), `TickEnd`. The points
where an SQL call can raise are the actions `TickSkipped`, `SeeDropFails`,
`SubscribeFails` and `ReportFails`; `PeriodicWorker` logs and the next tick comes.
Between the steps web requests insert a row and connect (`AddDevice`,
`ConnectNew`), disconnect and delete (`RemoveDevice`, `RemoveFails`, `DeleteRow`),
and the link of a device goes through `none`, `connecting`, `up`, `closing`.

| Variable | In the code |
|---|---|
| `row`, `nextId`, `stamp` | table `devices`: id per address, AUTOINCREMENT, what the last `touch_last_connected` stood for |
| `status`, `backoff`, `wait`, `subscribed` | `_monitor[address]`; `wait` is `next_retry_at - now`, 0 when due |
| `shown` | the last `device_status` event of a row |
| `link` | the worker the manager has registered for the address |
| `pc`, `todo`, `dev` | the monitor thread, its snapshot, the device in hand |
| `adding`, `removing` | requests between their database step and their BLE step |

The clock is read once per tick and used in differences only, so time is an
`Elapsed` added between two ticks. Two requests for the same address overlap as
one add beside one removal.

`Announcements` is what a dashboard may rely on: per row, connected is followed by
disconnected, disconnected by reconnecting or connected, reconnecting by
connected, and nothing is announced twice in a row.

### `BluepyManager` and `Links` (with `MCBluepyManager`, `BluepyManagerProofs`)

Calling threads with a program counter, worker threads with one, the registry,
the adapter lock, the queues and the futures. `EnsureWorker` is `_ensure_worker`
under its lock; `Lookup`, `Require`, `SubmitGatt`, `GattEnds` are a GATT operation
(read, write, subscribe and unsubscribe take the same path); `Pop`,
`SubmitShutdown`, `ShutdownEnds`, `JoinEnds` are `disconnect`; `StartScan`,
`ScanBegins`, `ScanEnds` are `start_scan`. A worker acquires the adapter, dials,
announces itself, serves commands before it polls, drains when it notices a loss,
clears `connected`, hangs up and ends. A wait with a timeout may end at any time.
`air` is the link itself, which the peripheral may drop at any moment and the
worker learns of only when it polls. Names of workers and commands are recycled
when nothing refers to them, so behaviours are endless.

`Links` is what the rest of the server may assume of it: an address has no worker, or
one that is connecting, up, or closing; what is closing is not dialled again before
it has ended, a link never comes up that nobody asked for, and any worker may be
forgotten. `LinkOf` is the refinement mapping: a registered worker that has not
announced itself is connecting, one that serves is up, and from the notice of a loss
or a failure to its end it is closing. `ReconnectMonitor` maps its `link` to it, and
`ScanWindow` its `link` with "dialling" for connecting.

### `ScanWindow` (with `MCScanWindow`, `ScanWindowProofs`)

`scan_window` line by line: `Enter` (was_running), `StopCheck`, `Stop`, `StopRaises`
(another request has cleared `_monitor_worker` in between), `Joined` (the thread
has ended, or two seconds are over), `Look` and `Disconnect` (`_disconnect_all`), the
two ways it can raise before the `try` (`ListFails`, `DisconnectRaises`), the scan
under the adapter lock, `ExitCheck` and `Start` (`monitor_start`; creating the worker
and starting its thread are one step). Monitor threads wait, tick, and end when
their stop event is set; a tick may start attempts to connect. `overlapped` is history:
a scan was asked for while another was underway. `OneMonitor` and `WindowRestores`
except what comes after that, because there they do not hold.

### `ChannelSubscriptions` (with `MCChannelSubscriptions`, `ChannelSubscriptionsProofs`)

One registered peripheral and its display channels. The monitor reads the list
of channels (`TickList`), takes one after the other (`TickNext`) and then books the
device as subscribed whatever became of them (`TickBooked`). `AddCheck`, `AddInsert`,
`AddedSubscribes` are a request that creates a channel; `DeleteRead`, `DeleteRow`,
`Forget`, `Unsubmit` one that deletes it; the steps between are where another party
comes in. `subscribe_channel` and `unsubscribe` go through the worker's queue
(`Submit`, `Subscribe`, `SubscribeFails`, `Unsubscribe`), with a timeout that leaves the
command where it is (`Timeout`). `LinkDown` drains the queue and loses the delegate.

| Variable | In the code |
|---|---|
| `rows`, `nextId` | table `channels` |
| `known` | `_subscribed`, by uuid |
| `booked` | `_monitor[address].subscribed` |
| `handler` | `_NotifyDelegate._by_handle`, by uuid |
| `todo`, `pc`, `at` | the list the tick has read; where each thread is, with which channel |
| `crossed` | history: uuids that met a race or an error on this link |

`crossed` is what the properties except, and it is as small as it can be: dropping
any clause of it makes TLC find a counterexample in the code. It says exactly when
a channel may stay silent or a deleted one may go on: a subscription failed; a
deletion met somebody about to subscribe the channel, or another channel with its
uuid; a creation met the removal of its uuid.

`backend` says which backend the server was started with. With the mock backend a
retry links up at once (`EnsureConnecting`), a subscription is one step that fails or
is in place (`MockSubscribe`), and an unsubscription needs no link (`MockUnsubscribe`); the
races of the requests with the tick are the same.

### `ControllerWrites` (with `MCControllerWrites`, `ControllerWritesProofs`)

`write_command` for one controller: `Begin` (the checks and the encoding), `Submit`,
`Timeout`, the worker's `Obey` and `ObeyFails`, `Insert` and `InsertFails` of the reading
that records the command. `record` is the latest reading, which `control_states`
shows; `obeyed` is what the peripheral does. `strayed` is the history of the ways
they part: the caller of the last command obeyed had given up or was told of a
failure, its reading could not be inserted, or it was obeyed while another command
still waited to be recorded. The value travels as the bytes of the channel's format
(`Formats`, below); what is recorded is the value as typed, so the property compares the
number it truncates to (`Told`). A power cycle of the peripheral, which resets its
state without the server knowing, is left out, and so is a wall clock that is set
back (`LatestIsLast` of `NotifyPipeline` is about that).

### `Formats` (proved about in `ControllerWritesProofs`)

`encode` and `decode` of the eight integer formats, as bytes: `FORMATS` is the table,
`Truncated` is `int()`, `Pack` is `struct.pack`, and an empty sequence is `ParseError`. A value
is counted in halves, which is enough for a fraction to be dropped on either side of
zero. The float formats are left out, and `decode` has no error: bytes that are too short,
for which the code raises `ParseError`, never come up in `ControllerWrites`.

### `NotifyPipeline` and `Readings` (with `MCNotifyPipeline`, `NotifyPipelineProofs`)

`Readings` are the queries: `Before` is the order `recorded_at, id`, `latest_by_channel`
and `downsample_since` are translated from their SQL, and so are `latest_at_or_above` and
`list_by_channel`, whose `LIMIT` keeps the oldest; an average is kept as the readings it is
the average of, and a bucket's label is the newest of their stamps. `NotifyPipeline` is one 0/1 display channel: `Notify` is `handle_notify` up to the
limiter's answer (decode, push, `should_emit`), `Insert` and `InsertFails` the rest of
it. The limiter runs on the monotonic clock (`clock`), readings are stamped with the
second of the wall clock (`Now`), which `SetClock` may move. `DeleteChannel` cascades to
the readings between the two steps of a notification; `Restart` forgets the
limiter and keeps the readings.

### `DeviceRegistry` (with `MCDeviceRegistry`, `DeviceRegistryProofs`)

The devices table and the columns its file has. A start of the server is one action
per statement of `apply_migrations`, because each is committed by itself, and `Crash`
may come between any two, or while requests are served. `Create`, `Connected` are
`add_device`; `Read` with `Delete` or `SetLabel` are `remove_device` and `set_label`, which
read a row and change it in a second statement. `given` is the history of the types
rows were registered with, `torn` that of rows a crash left unfilled.

### `Dashboard` (with `MCDashboard`, `DashboardProofs`)

One channel on one open page. The server is reduced to what the page can tell:
`Notify` pushes to the room and leaves open whether the limiter accepts the
notification, `Insert` and `InsertFails` come later, `DeleteChannel` takes the readings
along. The page joins the room when its socket is connected (`Join`) and is in no
room after it was lost (`Lose`): socket.io connects again and nothing emits
`subscribe_channel` a second time.

| Variable | In the code |
|---|---|
| `notes`, `table`, `accepted` | history of notifications; `readings`; the one between its push and its insertion |
| `socket`, `wire` | the room `channel:<id>`; events emitted and not yet handled |
| `flag` | the entry of `flags`: `on`, `lastOn`, and which notification it renders |
| `state` | the fetch of `/flag`: sent, the row found, the latest reading selected, the last one that was on selected, answered |
| `window`, `loads`, `points` | `currentWindow`, the fetches of `/history` underway, the data of the chart |
| `skew` | how far the browser's clock is ahead of the server's, rounded up to seconds |
| `toasts`, `rendered`, `seen`, `drawn`, `read`, `joinedAt`, `doubled` | history, for the properties |

A flag page never has a chart and a chart page never a flag, so `Init` chooses; a
chart page has a window selector or not. `get_flag_state` is two actions, one per
statement; `channel_history` finds the channel (`FindHistory`) and selects later
(`ReadHistory`); the answer is drawn when it arrives (`AnswerChart`), in any order with
other answers and pushes. A page "in step" (`InStep`) got an answer that has
everything it was not pushed: nothing came between the answer and the join that the
answer lacks, and nothing newer had been rendered before it.

Stamps are whole seconds and `Date.now()` is not. A stamp is before the cutoff exactly if
it is before the cutoff rounded up, which is `clock + skew - window` or one second more,
depending on the parts of a second the two clocks have passed; `Trim` takes either
(`part`) at every push.

## 4. Runs

Some properties name what they except, because there the code does not do what they
say: `crossed` (subscriptions that met a race or an error), `strayed` (commands whose
caller was told of a failure or that overlapped), `stepped` (the wall clock was set
back), `overlapped` (two scans), `InStep` and `doubled` (pages whose answer and pushes
miss or repeat something). The models have this behaviour, and the properties say what
holds without it.

| Run | Instance | Shows |
|---|---|---|
| `monitor_books` | 2 addresses, ids 1..2, backoff 1 to 3 | `TypeOK`, `BackoffBounded`, `StampsMatchReports`, `Bookkeeping`, and that the monitor implements `Announcements` (`AnnouncementsSpec`) |
| `monitor_live` | 1 address, ids 1..2, fair | `DropNoticed`, `TriedUntilBack`, `LinkIsBooked` |
| `monitor_removed` | 1 address, fair | violated: a removed device's worker that was still connecting comes up and stays |
| `manager_safety` | 2 callers, 2 workers, 3 commands, 1 peripheral | `TypeOK`, `AdapterExclusive`, `UnregisteredIsDoomed`, `PendingIsQueued`, and that the backend implements `Links` (`ImplementsLinks`) |
| `manager_live` | 2 callers, 1 worker, 2 commands, fair | `UnregisteredExits`, `LossIsSeen`, `ScanGetsAdapter` |
| `scan_turns` | 2 scans, 1 device, 2 threads, fair | `TypeOK`, `OneMonitor`, `StoppedEnds`, `WindowRestores` |
| `scan_restored` | 1 scan | violated: an exception before the `try` leaves the monitor off |
| `channels_heard` | 1 uuid, ids 1..3, 2 requests and the monitor, either backend | `TypeOK`, `HeardIsShown`, `NobodySilenced` |
| `writes_recorded` | 3 requests, 4 values, 6 formats, queue of 4 | `TypeOK`, `RecordIsObeyed` |
| `pipeline_readings` | 7 half seconds, 4 readings, interval 1 s, window and bucket 2 s | `TypeOK`, `LatestIsLast`, `StateIsRecent`, `ChartEndsWithLatest` |
| `registry_file` | 2 addresses, ids 1..3, 2 requests, files of every version | `TypeOK`, `DialledAsGiven`, `SchemaComplete`, `ChangesItsOwn` |
| `dashboard` | 3 notifications, 2 s, windows of 1 and 2 s, 2 fetches, browser clock right or up to 1 s ahead | `TypeOK`, `FlagCurrent`, `ToastsAreRises`, `OnHasTime`, `ChartInOrder`, `ChartComplete`, `ChartTrimmed` |

Every property of a passing run has a mutant of the code (`..._Name` definitions
just before the definition they change) under which TLC finds it violated.

**Bounds.** Two addresses let a tick hold a row of one device while the other is
changed, and let ids move from one address to another; two ids let an address be
removed and registered again. Three backoff values give a doubling, a capped step
and a reset. Two callers and two workers of one peripheral give every race between
disconnect, connect and a GATT operation; the third command lets both callers wait
beside a command whose caller has given up. Peripherals share only the adapter
lock, which two workers of one peripheral compete for too. One worker is enough
for the liveness run because its name is recycled: after a failure the next
attempt competes for the adapter again. In `scan_turns` two names bound the
monitor threads alive at one time; overlapping scans can leave more (a new
monitor whose `_monitor_worker` another request clears is forgotten), and a scan
that finds no name waits.

Channels of different uuids share only the queue, so one uuid is enough in
`channels_heard`; three ids give a channel that is there, one that replaces it and a
duplicate, and two requests beside the monitor give every race of two of them with a
third. Three write requests let two commands be queued behind one whose caller
has given up. In `pipeline_readings` seven ticks of half a second span three seconds
of the wall clock, more than the window and its bucket, and four readings fill two
buckets with two readings each, two of them in one second; one second of `Shifts` is
enough to step back once. In `registry_file` the two addresses differ in the type
inferred for them, and a third id allows a removed address to be registered again
while somebody still holds its old row; up to two old rows let a crash tear one and
spare the other. No deadlock check is switched off in these four runs.

`writes_recorded` has the values -0.5, -128.5, 255.5 and 65535.5: each of the six formats
takes some of them, at the very end of its range, and refuses others; the four-byte
formats are beyond the checker's integers, and the theorem `RoundTrip` has them. In `dashboard` three
notifications are one before the answer, one after it and one between; two fetches
are the first and a click; two seconds are one more than the short window, so that a
point falls on its edge and one outside it, and the long window has a point inside it; `Limit` 2 and `Keep` 1 are both passed. A page
that has been given all this really stops, so its deadlock check is off.

**Fairness.** `monitor_live`: the operating system schedules the monitor thread and
the requests; a database that is locked now is not locked at every attempt (strong
fairness of the steps that can raise instead); a worker's attempt and cleanup end;
and a peripheral that is dialled again and again answers some day, which is what
"until it is back" presupposes. `manager_live`: threads are scheduled, attempts and
scans end, and a lock that is released again and again comes to each waiter
(strong fairness of the acquisitions; Python locks promise no order, only that
waiters are not passed over for ever in practice). `LossIsSeen` assumes in the
formula that commands stop arriving, since the loop prefers them. Submitting is
strongly fair because the model recycles command names. `scan_turns` and
`scan_restored`: ticks, attempts and scans end.

## 5. Proofs

All theorems hold for every value of the constants that the named assumptions
admit: positive backoff constants with base at most cap, names distinct from the
"nothing" values.

- `ReconnectMonitorProofs`. `TypeCorrect`; `BookkeepingCorrect`, `BackoffCorrect` and
  `Announces`. `StampsMatchReports` and the refinement are not inductive: a tick
  can hold rows that were deleted and registered again under a new id since its
  snapshot. The strengthening is `Bookkeeping`, checked by `monitor_books` before it
  was proved: ids are never reused and a snapshot has one row per address
  (`IdsAreUnique`); what a row was shown is what the books say of its address,
  and a row younger than the snapshot has been shown nothing (`ShownIsBooked`);
  what the thread is doing agrees with the books (`WorkingOn`). `IdsUnique` is proved
  first and used by `BooksAgree`. `BackoffBounded` is inductive with the types.
- `BluepyManagerProofs`. `TypeCorrect`, `AdapterIsExclusive`, `UnregisteredAreDoomed`,
  `PendingAreQueued`. Each is inductive relative to the types, which say that a
  caller that goes on has a worker and one that waits has a command. The lemmas
  about `Submit` and `Resolve` carry the reasoning about queues: a command goes to
  the end of a queue under a name nobody else uses, and leaves it from the front
  with an answer. `ManagerImplementsLinks` is the refinement: each step of a caller or a
  worker is, through `LinkOf`, a step of `Links` or none. It needs the types and that a
  worker which is not registered is seen by nobody.
- `ScanWindowProofs`. `TypeCorrect`, and `ScansInTurn` for `OneMonitor`, both for any
  number of scans. The strengthening `Handover` says which part of `scan_window` owns
  `_monitor_worker` as long as no two scans have overlapped: whoever joins has told it to
  stop, and from there to the restart it is None. With overlapping scans this is
  what breaks.
- `KeepsToLinks` in `ReconnectMonitorProofs`, `ScanKeepsToLinks` in `ScanWindowProofs` and
  `ChannelsKeepToLinks` in `ChannelSubscriptionsProofs` say that the links these modules
  live with are behaviours of `Links`, which is what `ManagerImplementsLinks` grants:
  together they justify the abstraction of the backend in all three. The last one is
  about bluepy; the mock connects in no time. It needs that nothing is dialled while it
  is up (`Dialled`).
- `ChannelSubscriptionsProofs`. `TypeCorrect`, `HeardCorrect` and the action property
  `SilencedCorrect`, for any number of uuids, channels and requests, and either backend.
  `HeardIsShown` speaks only of a uuid nobody works on any more, so the strengthening
  (`Types` and `Surely`) has to follow it through the work. `Placed`, `Awaited` and `Linked`
  say who is where and that a queued command with a caller is waited for; `Fresh` that
  an id never changes hands, so that what somebody holds is there or gone. `Sure(u)`
  says of every uuid that is not `crossed`: a removal underway leaves it no row; a
  request or the tick that is about to subscribe has a row that is there
  (`SubscribesRows`); the channel that is heard stays heard whatever is queued
  (`StaysHeard`); what is heard of a channel that is gone has its unsubscription ahead
  (`IsCleared`); and a channel that is there is heard, queued, or somebody's next
  (`IsServed`). Each step of each caller is then one of three: it crosses the uuid, it is
  none of the uuid's business, or the five parts are looked at one by one.
- `ControllerWritesProofs`. `RoundTrip` is about `Formats`: `encode` refuses exactly the
  numbers a format does not have, and `decode` gives back the truncated value of every
  other. It rests on the lemmas `Digits1`, `Digits2`, `Digits4` about a number and its bytes;
  both byte orders and both signs follow from them. `TypeCorrect`, and `RecordCorrect` for `RecordIsObeyed` and
  `RecordsTheLast` (what is about to be recorded was obeyed, and last). Neither is
  inductive alone: which request the worker answers is written in its queue. The
  strengthening `Awaited` says that a queued command with a caller is waited for and has
  the bytes of its value, and that a caller has one command; `RoundTrip` then says that
  those bytes mean the value.
- `DeviceRegistryProofs`. `TypeCorrect`; `MigrationCorrect` for `DialledAsGiven` and
  `SchemaComplete`; `OwnChanges` for the action property `ChangesItsOwn`. The first two
  speak of a server that serves, so the strengthening has to say how far a start is:
  `Migrating` relates the phase to the columns found and present, `Filling` gives the
  type of every row at every phase (filled, waiting, torn, or given), `TornIsOld` keeps
  torn ids from being given to new rows. `Held` says that what a request has read is
  gone or has not changed hands; with ids that are never reused it is preserved by
  every step.

- `NotifyPipelineProofs`. `TypeCorrect`, `LatestCorrect`, `StateCorrect` and `ChartCorrect`, for every interval,
  every window and any number of readings. The arithmetic lemmas `DivMonotone` and
  `NowType` are about seconds and half seconds of the two clocks. `LatestIsLast` rests on
  the stamps of the readings being in the order of their ids as long as the wall
  clock was not set back; `StateIsRecent` on `recent`, the notifications of the last
  interval, always having the last accepted one. `ChartCorrect` is for every table of
  readings and holds without induction: `DivOrder` orders the stamps of two buckets,
  `LabelledIs` says that a label is the stamp of a reading of its bucket and none is
  newer, and `LatestExists` that a finite set of readings has a latest one, by the
  well-foundedness of strict inclusion (`WFMin`).
- `DashboardProofs`. `TypeCorrect`; `LedCorrect`, `ToastsCorrect` and `TimesCorrect` about the
  flag; `OrderCorrect`, `CompleteCorrect` and the action property `TrimCorrect` about the
  chart; for every number of notifications, every value, clock and window, every `Limit`
  and `Keep`, and every order of answers and pushes. The two kinds of page share `Server`
  (readings are notifications in their order, each no younger than its stamp and no
  older than the next notification) and `Link` (the wire is the end of the notifications
  without a gap).
  - The flag: `Shown` (it renders the last push since the answer, or the answer), `Times`
    (what the two statements of `get_flag_state` may find, at every stage), `Toasts`, and
    `LastOn`: of the readings that were on there is a last one, which the query returns.
  - The history: `Loads` says what every fetch underway holds (`Answer`): points in order,
    none newer than what was notified after its latest reading, and all the readings of
    its window, or, when they fit, each as far from the end as there are readings after
    it. `HistoryIs` proves it of the two queries. `InSequenceIs` is the sorting: points
    with different first notes have different ranks, each rank from 1 to their number
    has its point, and so the sequence is ordered and has all of them.
  - The chart: `Ordered` (no point is newer than what is on the wire, which is why the next
    push can go to the end), `InWindow` and `InLine` (what was given and must be there is
    there, and without a window at most as far from the end as it is from the last).
    `ChartComplete` and `ChartTrimmed` are not inductive: an answer may come any time, so
    `Loads` must keep what it will bring; and dropping a point by position says nothing
    about its time unless the points are in order. `TrimIs` says what is dropped,
    `PushStep` and `AnswerStep` that both ways of changing the chart keep the three. The
    invariant, `PageInv`, held in every state of `dashboard` before it was proved.

Only model-checked: the liveness properties under fairness (`DropNoticed`,
`TriedUntilBack`, `LinkIsBooked`, `UnregisteredExits`, `LossIsSeen`, `ScanGetsAdapter`,
`WindowRestores`, `StoppedEnds`), which are out of the prover's reach, as is ENABLED. Every
invariant and every action property that a passing run checks is proved.

## 6. Disagreements between the code and its documentation

Two have a run in section 4 and their quotation in `PROJECT.json`:

- `scan_restored`, the severe one: one failed disconnect during a scan switches
  reconnecting off until the server is restarted.
- `monitor_removed`: a removed device whose worker was still connecting comes up.

More were met while modelling. The models have the behaviour, and no property
is claimed against it:

- A device removed and registered again between two ticks inherits the last status of
  its address: its new row is not announced as connected (`ble_runtime.py:239`).
- `connect` reuses a worker thread that is alive but has left its loop, and returns at
  once with the link down (`bluepy_manager.py:136`); `_ensure_worker` can also start a
  second worker beside one that `disconnect` has unregistered and that still lives.
- A worker that is still dialling is not disconnected for a scan and may come up in
  its window (`ble_runtime.py:230`); with two overlapping scans the first to end
  restarts the monitor in the window of the other (`ble_runtime.py:214`); a tick that
  outlives the two seconds of `PeriodicWorker.stop` goes on during the scan.
- A tick whose subscription returns after the channel was deleted puts the channel back
  into `_subscribed` (`ble_runtime.py:180`), which `on_channel_removed` says it leaves
  "unconditionally".
- A command that is obeyed after its caller timed out is on no record, which is then not
  "the only record of the last command" (`channel_service.py:115`).
- A crash between the `ALTER TABLE` and the last `UPDATE` of `apply_migrations` leaves
  rows with type public for good (`connection.py:36`): `torn` in `DialledAsGiven`.
- `add_device` asserts that its row is there after a connect during which it may have
  been removed (`device_service.py:88`).
- `control_states` promises whether "the last commanded value was 1", and shows whatever is
  at least 0.5 as on: 0.5 sent to an integer channel tells the device 0
  (`channel_service.py:118`).
- `get_flag_state` calls `last_on` the reading "at which the flag became 1"; it is the last one
  that was on, which moves with every notification that is still on
  (`channel_service.py:182`).
- "Only toast on the rising edge" (`dashboard.js:287`): before the answer the page takes the
  flag to be off, so the first push of a flag that has long been on pops a toast; and
  a push that is older than the answer may pop one for a rise the answer has shown.
- The chart on the page of a device has no window, so it asks for the default 200
  readings and gets the oldest ones (`readings.py:77`); each push then drops one point,
  so the gap between them and the pushes stays.
- A page whose socket was lost is connected again and in no room (`dashboard.js:221`,
  `web/__init__.py:53`): its flags and charts stand still until it is loaded again.
- The server's window begins with a whole second (`_format_ts` in `readings.py:14` cuts
  `since`), that of the page with a millisecond: unless a second just begins, the next
  push drops the points of the edge second that the server has just sent, also with
  equal clocks; a browser clock that is ahead loses as much more (`dashboard.js:272`).
  `ChartComplete` is therefore about what is younger than that second.

## 7. Not modelled

- Accounts (`services/user_service.py`, `db/users.py`, `web/auth.py`): one INSERT under a UNIQUE
  constraint and lookups. No caller changes or deletes an account, so there is
  nothing two requests could disagree about.
- Two monitor threads in `ReconnectMonitor` and `ChannelSubscriptions`: a tick that
  outlives the two seconds of `PeriodicWorker.stop` beside the monitor that was started
  after it. `ScanWindow` has such threads, without what they do to the channels.
- Presets, configuration, logging and backend selection: read once, or a value
  computed from another. Units, templates, third-party scripts, start scripts, form
  validation and wording.
- The float formats, whose rounding is the hardware's.
- The mock backend's synthetic producer and `make_feed`, recorded calls and injected
  read values: development and tests only. Its connections and subscriptions are in
  `ChannelSubscriptions`; its `ensure_connecting` connects at once, which `Recheck` of
  `ReconnectMonitor` allows for.
- On the pages: the enum badge (a flag without memory), the status badges of
  devices, the statistics line, collapsed panels.
- In the models that exist: the characteristic cache of a worker, users and the
  cascade from them, functions nobody calls (`delete_older_than`, `RateLimiter.reset`), and
  requests for different spellings of one address (a MAC entered in upper case is
  another row of the same peripheral).
