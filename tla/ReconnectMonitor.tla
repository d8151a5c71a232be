------------------------- MODULE ReconnectMonitor --------------------------
(***************************************************************************)
(* The reconnect monitor of BleRuntime (services/ble_runtime.py): one      *)
(* thread runs _monitor_tick every second over a snapshot of the devices   *)
(* table, while web requests register and remove devices and the radio     *)
(* brings links up and down.  The tick is split where it reads or changes  *)
(* what others share: the snapshot, is_connected, the subscriptions, the   *)
(* reports, ensure_connecting and the second is_connected.                 *)
(*                                                                         *)
(* Time.  The monotonic clock is read once per tick, as `now`, and is only *)
(* used in next_retry_at - now.  The model keeps that difference (wait, 0  *)
(* when the retry is due) and lets time pass between two ticks.            *)
(***************************************************************************)
EXTENDS Integers, FiniteSets

CONSTANTS
    Addresses,      \* BLE addresses
    MaxId,          \* bound: ids the AUTOINCREMENT column hands out are 1..MaxId
    Base,           \* _RECONNECT_BASE_S
    Factor,         \* _RECONNECT_FACTOR
    Cap,            \* _RECONNECT_CAP_S
    Elapsed         \* seconds that may pass between the starts of two ticks

ASSUME MaxIdAssumption   == MaxId \in Nat \ {0}
ASSUME BackoffAssumption == /\ Base \in Nat \ {0}
                            /\ Factor \in Nat \ {0}
                            /\ Cap \in Nat
                            /\ Base <= Cap
ASSUME ElapsedAssumption == Elapsed \subseteq Nat \ {0}

VARIABLES
    row,        \* table devices: row[a] is the id of the row of address a, or 0
    nextId,     \* the next id AUTOINCREMENT hands out
    stamp,      \* stamp[id]: what the last touch_last_connected of row id recorded
    link,       \* link[a]: the state of the worker the BLE manager has for a
    status,     \* _monitor[a].last_status; None is "none", and "absent" stands for an
                \* address that is not a key of _monitor
    backoff,    \* _monitor[a].backoff_s
    wait,       \* _monitor[a].next_retry_at - now, 0 once the retry is due
    subscribed, \* _monitor[a].subscribed
    shown,      \* shown[id]: the last device_status emitted for row id
    pc,         \* where the monitor thread is
    todo,       \* devices of the snapshot the tick has not reached yet
    dev,        \* the device the tick is working on
    adding,     \* addresses whose add_device has inserted the row, not yet connected
    removing    \* removing[a]: the row a remove_device of a is about to delete, or 0

db    == <<row, nextId>>
tick  == <<pc, todo, dev>>
web   == <<adding, removing>>
mon   == <<status, backoff, wait, subscribed>>
vars  == <<db, stamp, link, mon, shown, tick, web>>

NoId == 0
Ids  == 1 .. MaxId
LinkStates == {"none", "connecting", "up", "closing"}
Statuses   == {"disconnected", "reconnecting", "connected"}

Device == [addr : Addresses, id : Ids]     \* a row of the snapshot
NoDevice == [id |-> NoId]

MonTypeOK ==
    /\ status \in [Addresses -> Statuses \cup {"none", "absent"}]
    /\ backoff \in [Addresses -> 0 .. Cap]
    /\ wait \in [Addresses -> 0 .. Cap]
    /\ subscribed \in [Addresses -> BOOLEAN]

TypeOK ==
    /\ row \in [Addresses -> Ids \cup {NoId}]
    /\ nextId \in 1 .. MaxId + 1
    /\ stamp \in [Ids -> {"never", "online", "offline"}]
    /\ link \in [Addresses -> LinkStates]
    /\ MonTypeOK
    /\ shown \in [Ids -> Statuses \cup {"none"}]
    /\ pc \in {"idle", "next", "up", "down", "recheck", "report"}
    /\ todo \subseteq Device
    /\ dev \in IF pc \in {"idle", "next"} THEN {NoDevice} ELSE Device
    /\ adding \subseteq Addresses
    /\ removing \in [Addresses -> Ids \cup {NoId}]

-----------------------------------------------------------------------------
(* Helpers *)

Smaller(x, y) == IF x <= y THEN x ELSE y

Registered(id) == \E a \in Addresses : row[a] = id

\* devices.touch_last_connected: an UPDATE, without effect once the row is gone.
Touched(id, moment) ==
    IF Registered(id) THEN [stamp EXCEPT ![id] = moment] ELSE stamp

\* Mutant: the tick is given the time the monitor was started at.
Left_FrozenClock(w, d) == w

\* What is left of a wait after d seconds.
Left(w, d) == IF w <= d THEN 0 ELSE w - d

\* Mutant: the cap is forgotten.
Longer_Uncapped(b) == b * Factor

\* min(backoff_s * _RECONNECT_FACTOR, _RECONNECT_CAP_S)
Longer(b) == Smaller(b * Factor, Cap)

\* is_connected: the manager has a worker for the address and its link is up.
IsConnected(a) == link[a] = "up"

\* ensure_connecting / the start of connect: a worker that is alive, one that
\* is closing down included, is reused.
EnsureConnecting(a) ==
    [link EXCEPT ![a] = IF @ = "none" THEN "connecting" ELSE @]

\* _set_status emits a change of status only.
Emit(id, a, s) ==
    IF status[a] = s THEN shown ELSE [shown EXCEPT ![id] = s]

-----------------------------------------------------------------------------
(* Startup: the database a previous run left, and the links activate() has *)
(* brought up.  A blocking connect that timed out leaves its worker trying. *)

Init ==
    /\ nextId \in 1 .. MaxId + 1
    /\ row \in [Addresses -> (1 .. nextId - 1) \cup {NoId}]
    /\ \A a, b \in Addresses : row[a] = row[b] /\ row[a] # NoId => a = b
    /\ stamp = [id \in Ids |-> "never"]
    /\ link \in [Addresses -> {"none", "connecting", "up"}]
    /\ \A a \in Addresses : row[a] = NoId => link[a] = "none"
    /\ status = [a \in Addresses |-> IF link[a] = "up" THEN "none" ELSE "absent"]
    /\ backoff = [a \in Addresses |-> Base]
    /\ wait = [a \in Addresses |-> 0]
    /\ subscribed = [a \in Addresses |-> link[a] = "up"]
    /\ shown = [id \in Ids |-> "none"]
    /\ pc = "idle" /\ todo = {} /\ dev = NoDevice
    /\ adding = {}
    /\ removing = [a \in Addresses |-> NoId]

-----------------------------------------------------------------------------
(* The monitor thread *)

\* d seconds have passed since the last tick started.
Age(d) == wait' = [a \in Addresses |-> Left(wait[a], d)]

\* list_all, then drop the bookkeeping of addresses that are not registered.
TickStart(d) ==
    /\ pc = "idle"
    /\ todo' = {[addr |-> a, id |-> row[a]] : a \in {b \in Addresses : row[b] # NoId}}
    /\ status' = [a \in Addresses |-> IF row[a] = NoId THEN "absent" ELSE status[a]]
    /\ backoff' = [a \in Addresses |-> IF row[a] = NoId THEN Base ELSE backoff[a]]
    /\ subscribed' = [a \in Addresses |-> row[a] # NoId /\ subscribed[a]]
    /\ Age(d)
    /\ pc' = "next"
    /\ UNCHANGED <<db, stamp, link, shown, dev, web>>

\* list_all raised (the database is locked): PeriodicWorker logs it, time passes.
TickSkipped(d) ==
    /\ pc = "idle"
    /\ Age(d)
    /\ UNCHANGED <<db, stamp, link, status, backoff, subscribed, shown, tick, web>>

\* The bookkeeping of address a becomes this.
Record(a, s, b, w, sub) ==
    /\ status' = [status EXCEPT ![a] = s]
    /\ backoff' = [backoff EXCEPT ![a] = b]
    /\ wait' = [wait EXCEPT ![a] = w]
    /\ subscribed' = [subscribed EXCEPT ![a] = sub]

\* The next device of the snapshot: setdefault, then is_connected.
Observe(x) ==
    /\ pc = "next" /\ x \in todo
    /\ todo' = todo \ {x}
    /\ dev' = x
    /\ IF status[x.addr] = "absent"
       THEN Record(x.addr, "none", Base, 0, FALSE)
       ELSE UNCHANGED mon
    /\ pc' = IF IsConnected(x.addr) THEN "up" ELSE "down"
    /\ UNCHANGED <<db, stamp, link, shown, web>>

Addr == dev.addr                          \* device.address

\* Mutant: only a device that was never seen up counts as freshly lost.
JustLost_NeverSeen == status[Addr] = "none"

\* last_status in (None, STATUS_CONNECTED)
JustLost == status[Addr] \in {"none", "connected"}

\* `continue` with the next device, and what an exception makes of the tick.
Proceed == pc' = "next" /\ dev' = NoDevice /\ todo' = todo
GiveUp  == pc' = "idle" /\ dev' = NoDevice /\ todo' = {}

\* Mutant: the loss is stamped, the new status is not recorded.
SeeDrop_StampOnly ==
    /\ pc = "down" /\ JustLost
    /\ stamp' = IF status[Addr] = "connected" THEN Touched(dev.id, "offline") ELSE stamp
    /\ Record(Addr, status[Addr], backoff[Addr], wait[Addr], FALSE)
    /\ Proceed
    /\ UNCHANGED <<db, link, shown, web>>

\* The link is down and was not known to be: stamp the loss of a device that
\* had been connected, start the backoff over, announce it.
SeeDrop ==
    /\ pc = "down" /\ JustLost
    /\ stamp' = IF status[Addr] = "connected" THEN Touched(dev.id, "offline") ELSE stamp
    /\ Record(Addr, "disconnected", Base, Base, FALSE)
    /\ shown' = Emit(dev.id, Addr, "disconnected")
    /\ Proceed
    /\ UNCHANGED <<db, link, web>>

\* touch_last_connected raised: the rest of the tick is given up.
SeeDropFails ==
    /\ pc = "down" /\ JustLost /\ status[Addr] = "connected"
    /\ Record(Addr, status[Addr], backoff[Addr], wait[Addr], FALSE)
    /\ GiveUp
    /\ UNCHANGED <<db, stamp, link, shown, web>>

\* A known loss whose retry is not due.
NotDue ==
    /\ pc = "down" /\ ~JustLost
    /\ wait[Addr] > 0
    /\ Record(Addr, status[Addr], backoff[Addr], wait[Addr], FALSE)
    /\ Proceed
    /\ UNCHANGED <<db, stamp, link, shown, web>>

\* The retry is due: announce it and start an attempt, without waiting for it.
Kick ==
    /\ pc = "down" /\ ~JustLost
    /\ wait[Addr] = 0
    /\ Record(Addr, "reconnecting", backoff[Addr], wait[Addr], FALSE)
    /\ shown' = Emit(dev.id, Addr, "reconnecting")
    /\ link' = EnsureConnecting(Addr)
    /\ pc' = "recheck"
    /\ UNCHANGED <<db, stamp, todo, dev, web>>

\* is_connected again: a backend that connects at once is handled in this tick,
\* otherwise the next attempt waits longer.
Recheck ==
    /\ pc = "recheck"
    /\ IF IsConnected(Addr)
       THEN /\ pc' = "up" /\ dev' = dev /\ todo' = todo
            /\ UNCHANGED mon
       ELSE /\ Proceed
            /\ Record(Addr, status[Addr], Longer(backoff[Addr]), Longer(backoff[Addr]), subscribed[Addr])
    /\ UNCHANGED <<db, stamp, link, shown, web>>

\* Mutant: a device that is already subscribed is left at once.
Subscribe_EarlyReturn ==
    /\ pc = "up"
    /\ Record(Addr, status[Addr], backoff[Addr], wait[Addr], TRUE)
    /\ IF subscribed[Addr]
       THEN Proceed
       ELSE pc' = "report" /\ UNCHANGED <<todo, dev>>
    /\ UNCHANGED <<db, stamp, link, shown, web>>

\* _on_connected, first half: try every display channel once per connection.
\* A channel that cannot be subscribed is logged and skipped.
Subscribe ==
    /\ pc = "up"
    /\ Record(Addr, status[Addr], backoff[Addr], wait[Addr], TRUE)
    /\ pc' = "report"
    /\ UNCHANGED <<db, stamp, link, shown, todo, dev, web>>

\* list_by_device raised: the rest of the tick is given up.
SubscribeFails ==
    /\ pc = "up" /\ ~subscribed[Addr]
    /\ GiveUp
    /\ UNCHANGED <<db, stamp, link, mon, shown, web>>

\* Mutant: the backoff is not reset.
Report_KeepsBackoff ==
    /\ pc = "report"
    /\ stamp' = IF status[Addr] # "connected" THEN Touched(dev.id, "online") ELSE stamp
    /\ Record(Addr, "connected", backoff[Addr], wait[Addr], subscribed[Addr])
    /\ shown' = Emit(dev.id, Addr, "connected")
    /\ Proceed
    /\ UNCHANGED <<db, link, web>>

\* _on_connected, second half: reset the backoff, stamp the transition, report it.
Report ==
    /\ pc = "report"
    /\ stamp' = IF status[Addr] # "connected" THEN Touched(dev.id, "online") ELSE stamp
    /\ Record(Addr, "connected", Base, 0, subscribed[Addr])
    /\ shown' = Emit(dev.id, Addr, "connected")
    /\ Proceed
    /\ UNCHANGED <<db, link, web>>

\* Mutant: the status is reported before the stamp is written.
ReportFails_ReportsFirst ==
    /\ pc = "report" /\ status[Addr] # "connected"
    /\ Record(Addr, "connected", Base, 0, subscribed[Addr])
    /\ shown' = Emit(dev.id, Addr, "connected")
    /\ GiveUp
    /\ UNCHANGED <<db, stamp, link, web>>

\* touch_last_connected raised after the backoff was reset.
ReportFails ==
    /\ pc = "report" /\ status[Addr] # "connected"
    /\ Record(Addr, status[Addr], Base, 0, subscribed[Addr])
    /\ GiveUp
    /\ UNCHANGED <<db, stamp, link, shown, web>>

TickEnd ==
    /\ pc = "next" /\ todo = {}
    /\ pc' = "idle"
    /\ UNCHANGED <<db, stamp, link, mon, shown, todo, dev, web>>

-----------------------------------------------------------------------------
(* The radio and the worker threads, as the manager sees them *)

\* The worker of address a goes from one state to another.
Worker(a, from, to) ==
    /\ link[a] = from
    /\ link' = [link EXCEPT ![a] = to]
    /\ UNCHANGED <<db, stamp, mon, shown, tick, web>>

LinkUp(a)     == Worker(a, "connecting", "up")
LinkFail(a)   == Worker(a, "connecting", "none")
LinkDrop(a)   == Worker(a, "up", "closing")
LinkClosed(a) == Worker(a, "closing", "none")

-----------------------------------------------------------------------------
(* Web requests, one add and one remove at a time for an address *)

\* Mutant: without AUTOINCREMENT the id of a deleted row is handed out again.
AddDevice_ReusesIds(a) ==
    /\ row[a] = NoId /\ a \notin adding
    /\ \E id \in Ids : /\ ~Registered(id)
                       /\ \A smaller \in 1 .. id - 1 : Registered(smaller)
                       /\ row' = [row EXCEPT ![a] = id]
                       /\ nextId' = IF nextId <= id THEN id + 1 ELSE nextId
    /\ adding' = adding \cup {a}
    /\ UNCHANGED <<stamp, link, mon, shown, tick, removing>>

\* add_device inserts the row ...
AddDevice(a) ==
    /\ row[a] = NoId /\ a \notin adding
    /\ nextId <= MaxId
    /\ row' = [row EXCEPT ![a] = nextId]
    /\ nextId' = nextId + 1
    /\ adding' = adding \cup {a}
    /\ UNCHANGED <<stamp, link, mon, shown, tick, removing>>

\* ... and then makes its best-effort connection.
ConnectNew(a) ==
    /\ a \in adding
    /\ adding' = adding \ {a}
    /\ link' = EnsureConnecting(a)
    /\ UNCHANGED <<db, stamp, mon, shown, tick, removing>>

\* remove_device drops the link if it is up: the manager forgets the worker ...
RemoveDevice(a) ==
    /\ row[a] # NoId /\ removing[a] = NoId
    /\ link' = [link EXCEPT ![a] = IF @ = "up" THEN "none" ELSE @]
    /\ removing' = [removing EXCEPT ![a] = row[a]]
    /\ UNCHANGED <<db, stamp, mon, shown, tick, adding>>

\* ... unless disconnect raises: the request fails and the row stays ...
RemoveFails(a) ==
    /\ row[a] # NoId /\ removing[a] = NoId
    /\ IsConnected(a)
    /\ link' = [link EXCEPT ![a] = "none"]
    /\ UNCHANGED <<db, stamp, mon, shown, tick, web>>

\* ... and deletes the row.
DeleteRow(a) ==
    /\ removing[a] # NoId
    /\ row' = [row EXCEPT ![a] = IF @ = removing[a] THEN NoId ELSE @]
    /\ removing' = [removing EXCEPT ![a] = NoId]
    /\ UNCHANGED <<nextId, stamp, link, mon, shown, tick, adding>>

-----------------------------------------------------------------------------
Tick ==
    \/ \E d \in Elapsed : TickStart(d) \/ TickSkipped(d)
    \/ \E x \in todo : Observe(x)
    \/ SeeDrop \/ SeeDropFails \/ NotDue \/ Kick \/ Recheck
    \/ Subscribe \/ SubscribeFails \/ Report \/ ReportFails
    \/ TickEnd

Radio == \E a \in Addresses : LinkUp(a) \/ LinkFail(a) \/ LinkDrop(a) \/ LinkClosed(a)

Web == \E a \in Addresses :
    \/ AddDevice(a) \/ ConnectNew(a)
    \/ RemoveDevice(a) \/ RemoveFails(a) \/ DeleteRow(a)

Next == Tick \/ Radio \/ Web

Spec == Init /\ [][Next]_vars

\* The monitor thread is scheduled, and neither its queries nor the web
\* requests fail for ever; a worker thread ends its attempt or its cleanup; and
\* an address that is tried again and again answers some day (it is in range).
Fairness ==
    /\ WF_vars(Tick)
    /\ SF_vars(\E d \in Elapsed : TickStart(d))
    /\ SF_vars(SeeDrop) /\ SF_vars(Subscribe) /\ SF_vars(Report)
    /\ \A a \in Addresses :
        /\ WF_vars(LinkUp(a) \/ LinkFail(a)) /\ SF_vars(LinkUp(a)) /\ WF_vars(LinkClosed(a))
        /\ WF_vars(ConnectNew(a)) /\ WF_vars(DeleteRow(a))

LiveSpec == Spec /\ Fairness

-----------------------------------------------------------------------------
(* Properties *)

Known(a) == status[a] # "absent"

\* _monitor_tick, _on_connected: however ticks, requests and database errors
\* interleave, a retry is never put off by more than the current backoff, the
\* backoff stays between its base and its cap, and a device that is reported
\* connected owes nothing: its next outage starts from the shortest delay.
BackoffBounded == \A a \in Addresses : Known(a) =>
    /\ backoff[a] \in Base .. Cap
    /\ wait[a] <= backoff[a]
    /\ status[a] \in {"none", "connected"} => backoff[a] = Base /\ wait[a] = 0

\* touch_last_connected against on_status: the "last online" moment a row keeps
\* is that of the transition its dashboards were told of.  While a row is shown
\* connected the stamp is that of the connection; once it is shown lost, of the
\* loss (or there is none: it was never online).
StampsMatchReports == \A a \in Addresses : row[a] # NoId =>
    /\ shown[row[a]] = "connected" => stamp[row[a]] = "online"
    /\ shown[row[a]] \in {"disconnected", "reconnecting"} => stamp[row[a]] # "online"

\* Why the two hold.  A tick may hold rows that were deleted, and registered
\* again under a new id, since its snapshot.  Ids are not reused, a snapshot has
\* one row per address, and what a row was shown is what the books say of its
\* address, a row younger than the snapshot having been shown nothing yet.
Snapshot == todo \cup (IF dev = NoDevice THEN {} ELSE {dev})   \* still to be handled

IdsAreUnique ==
    /\ \A a, b \in Addresses : row[a] = row[b] /\ row[a] # NoId => a = b
    /\ \A x \in Snapshot, a \in Addresses : row[a] = x.id => a = x.addr
    /\ \A x, y \in Snapshot : x.id = y.id \/ x.addr = y.addr => x = y
    /\ dev \notin todo
    /\ \A a \in Addresses : row[a] < nextId
    /\ \A x \in Snapshot : x.id < nextId
    /\ \A id \in Ids : id >= nextId => shown[id] = "none" /\ stamp[id] = "never"

ShownIsBooked ==
    /\ \A a \in Addresses : row[a] # NoId /\ shown[row[a]] # "none"
                               => status[a] = shown[row[a]]
    /\ \A x \in Snapshot : shown[x.id] # "none" => status[x.addr] = shown[x.id]
    /\ \A x \in Snapshot : row[x.addr] \notin {NoId, x.id} => shown[row[x.addr]] = "none"
    /\ \A a \in Addresses : row[a] # NoId =>
          (stamp[row[a]] = "online" <=> shown[row[a]] = "connected")

WorkingOn ==
    /\ pc = "idle" => todo = {}
    /\ dev # NoDevice => Known(Addr)
    /\ pc = "recheck" => status[Addr] = "reconnecting"

Bookkeeping == IdsAreUnique /\ ShownIsBooked /\ WorkingOn

\* Implements the announcements of module Announcements: a loss before a retry,
\* a report for each transition and for nothing else, whatever row of the
\* address the tick holds.
Announced == INSTANCE Announcements WITH Ids <- Ids, shown <- shown
AnnouncementsSpec == Announced!Spec

\* ensure_connecting, disconnect and the radio: the links the ticks and the requests act
\* on live as module Links, which BluepyManager implements, allows.
Backend == INSTANCE Links WITH Peers <- Addresses, state <- link
ImplementsLinks == Backend!Spec

\* The drop branch of _monitor_tick: the bookkeeping of a registered device
\* does not go on calling it connected while its link is down.
DropNoticed == \A a \in Addresses :
    (row[a] # NoId /\ ~IsConnected(a)) ~>
        (IsConnected(a) \/ row[a] = NoId \/ status[a] # "connected")

\* The retry branch: a device that stays registered is tried until it is back.
TriedUntilBack == \A a \in Addresses :
    (<>[](row[a] # NoId)) => []<>IsConnected(a)

\* _on_connected: a link that stays up ends up in the books as connected.
LinkIsBooked == \A a \in Addresses :
    (<>[](row[a] # NoId /\ IsConnected(a))) => <>[](status[a] = "connected")

-----------------------------------------------------------------------------
(* What the repository says and the code does not do *)

\* README: remove_device disconnects, then deletes.  A link of an address that
\* is no longer registered would not stay up (unless it is registered again).
RemovedIsLetGo == \A a \in Addresses :
    (row[a] = NoId /\ IsConnected(a)) ~> (row[a] # NoId \/ ~IsConnected(a))
=============================================================================
