----------------------------- MODULE ScanWindow -----------------------------
(***************************************************************************)
(* Scanning while the reconnect monitor runs: GET /devices/scan enters     *)
(* BleRuntime.scan_window, which stops the monitor (monitor_stop,          *)
(* PeriodicWorker.stop), disconnects every live link, scans under the      *)
(* adapter lock and starts the monitor again (monitor_start).  The web     *)
(* server gives each request a thread of its own, and nothing serialises   *)
(* two scans, or a scan and the tick that was running when it began.       *)
(*                                                                         *)
(* ReconnectMonitor has what a tick does and BluepyManager what a worker   *)
(* does; here a tick may start attempts to connect, and a link has the     *)
(* states the scan tells apart.                                            *)
(***************************************************************************)
EXTENDS Integers, FiniteSets

CONSTANTS
    Requests,   \* bound: scan requests that are served at one time
    Devices,    \* registered peripherals
    Threads,    \* bound: monitor threads alive at one time
    NoThread,   \* no monitor thread
    NoDevice,   \* no peripheral
    Nobody,     \* the adapter lock is free
    Scanner     \* the adapter lock is held by a scan

ASSUME NamesAssumption == /\ NoThread \notin Threads
                          /\ NoDevice \notin Devices
                          /\ {Nobody, Scanner} \cap Devices = {}
                          /\ Nobody # Scanner

VARIABLES
    monitor,    \* _monitor_worker: the thread of the PeriodicWorker, or NoThread
    thread,     \* thread[t]: monitor thread t is not there, in wait() or in a tick
    stopped,    \* stopped[t]: the stop event of t is set
    link,       \* link[d]: the worker the manager has for d
    adapter,    \* who holds _adapter_lock
    pc,         \* where request r is
    was,        \* was_running of request r
    todo,       \* addresses _disconnect_all of r has still to look at
    at,         \* the device r is disconnecting
    overlapped  \* history: a scan was asked for while another was under way

radio   == <<link, adapter>>
loop    == <<monitor, thread, stopped>>
request == <<pc, was, todo, at>>
vars    == <<loop, radio, request, overlapped>>

TypeOK ==
    /\ monitor \in Threads \cup {NoThread}
    /\ thread \in [Threads -> {"none", "waiting", "ticking"}]
    /\ stopped \in [Threads -> BOOLEAN]
    /\ link \in [Devices -> {"none", "connecting", "dialling", "up", "closing"}]
    /\ adapter \in Devices \cup {Nobody, Scanner}
    /\ pc \in [Requests -> {"idle", "entered", "stop", "join", "drop", "disconnect",
                            "window", "scanning", "exit", "start"}]
    /\ was \in [Requests -> BOOLEAN]
    /\ todo \in [Requests -> SUBSET Devices]
    /\ at \in [Requests -> Devices \cup {NoDevice}]
    /\ overlapped \in BOOLEAN
    /\ \A r \in Requests : pc[r] = "disconnect" <=> at[r] # NoDevice

\* The monitor has been started at startup, links are as activate() left them.
Init ==
    /\ monitor \in Threads
    /\ thread = [t \in Threads |-> IF t = monitor THEN "waiting" ELSE "none"]
    /\ stopped = [t \in Threads |-> FALSE]
    /\ link \in [Devices -> {"none", "connecting", "up"}]
    /\ adapter = Nobody
    /\ pc = [r \in Requests |-> "idle"]
    /\ was = [r \in Requests |-> FALSE]
    /\ todo = [r \in Requests |-> {}]
    /\ at = [r \in Requests |-> NoDevice]
    /\ overlapped = FALSE

Go(r, state) == pc' = [pc EXCEPT ![r] = state]

-----------------------------------------------------------------------------
(* scan_window *)

\* was_running = self._monitor_worker is not None
Enter(r) ==
    /\ pc[r] = "idle"
    /\ was' = [was EXCEPT ![r] = monitor # NoThread]
    /\ Go(r, "entered")
    /\ overlapped' = (overlapped \/ \E s \in Requests : pc[s] # "idle")
    /\ UNCHANGED <<loop, radio, todo, at>>

\* monitor_stop: nothing to do if there is no worker ...
StopCheck(r) ==
    /\ pc[r] = "entered"
    /\ IF monitor = NoThread
       THEN Go(r, "drop") /\ todo' = [todo EXCEPT ![r] = Devices]
       ELSE Go(r, "stop") /\ todo' = todo
    /\ UNCHANGED <<loop, radio, was, at, overlapped>>

\* ... otherwise set its stop event, and wait for its thread ...
Stop(r) ==
    /\ pc[r] = "stop" /\ monitor # NoThread
    /\ stopped' = [stopped EXCEPT ![monitor] = TRUE]
    /\ Go(r, "join")
    /\ UNCHANGED <<monitor, thread, radio, was, todo, at, overlapped>>

\* ... unless another request has set _monitor_worker to None: AttributeError.
StopRaises(r) ==
    /\ pc[r] = "stop" /\ monitor = NoThread
    /\ Go(r, "idle")
    /\ UNCHANGED <<loop, radio, was, todo, at, overlapped>>

\* Mutant: the worker is kept after it was stopped.
Joined_KeepsWorker(r) ==
    /\ pc[r] = "join"
    /\ Go(r, "drop")
    /\ todo' = [todo EXCEPT ![r] = Devices]
    /\ UNCHANGED <<loop, radio, was, at, overlapped>>

\* join(timeout=2.0) is over, whether the thread has ended or is still in a tick;
\* _monitor_worker = None, whatever it is by now.  _disconnect_all lists the devices.
Joined(r) ==
    /\ pc[r] = "join"
    /\ monitor' = NoThread
    /\ Go(r, "drop")
    /\ todo' = [todo EXCEPT ![r] = Devices]
    /\ UNCHANGED <<thread, stopped, radio, was, at, overlapped>>

\* The list of devices cannot be read (the database is locked).
ListFails(r) ==
    /\ pc[r] = "drop" /\ todo[r] = Devices
    /\ Go(r, "idle")
    /\ todo' = [todo EXCEPT ![r] = {}]
    /\ UNCHANGED <<loop, radio, was, at, overlapped>>

\* _disconnect_all: the next address, if its link is up.
Look(r, d) ==
    /\ pc[r] = "drop" /\ d \in todo[r]
    /\ todo' = [todo EXCEPT ![r] = @ \ {d}]
    /\ IF link[d] = "up"
       THEN Go(r, "disconnect") /\ at' = [at EXCEPT ![r] = d]
       ELSE UNCHANGED <<pc, at>>
    /\ UNCHANGED <<loop, radio, was, overlapped>>

\* disconnect: the worker is shut down; its end may take longer than the join.
HangUp(d) == link' = IF link[d] = "up" THEN [link EXCEPT ![d] = "closing"] ELSE link

\* Mutant: _disconnect_all goes on without waiting for the disconnect.
Disconnect_NoWait(r) ==
    /\ pc[r] = "disconnect"
    /\ HangUp(at[r])
    /\ Go(r, "drop")
    /\ UNCHANGED <<loop, adapter, was, todo, at, overlapped>>

Disconnect(r) ==
    /\ pc[r] = "disconnect"
    /\ HangUp(at[r])
    /\ at' = [at EXCEPT ![r] = NoDevice]
    /\ Go(r, "drop")
    /\ UNCHANGED <<loop, adapter, was, todo, overlapped>>

\* It raises: the worker did not answer in time, or lost the link and failed the
\* shutdown with the other queued commands.  The window has not been entered.
DisconnectRaises(r) ==
    /\ pc[r] = "disconnect"
    /\ HangUp(at[r])
    /\ at' = [at EXCEPT ![r] = NoDevice]
    /\ Go(r, "idle")
    /\ todo' = [todo EXCEPT ![r] = {}]
    /\ UNCHANGED <<loop, adapter, was, overlapped>>

\* yield: the body runs.
Open(r) ==
    /\ pc[r] = "drop" /\ todo[r] = {}
    /\ Go(r, "window")
    /\ UNCHANGED <<loop, radio, was, todo, at, overlapped>>

\* start_scan holds the adapter lock for the scan ...
ScanBegins(r) ==
    /\ pc[r] = "window" /\ adapter = Nobody
    /\ adapter' = Scanner
    /\ Go(r, "scanning")
    /\ UNCHANGED <<loop, link, was, todo, at, overlapped>>

\* Mutant: an exception of the scan skips the restart.
ScanEnds_NoFinally(r) ==
    /\ pc[r] = "scanning"
    /\ adapter' = Nobody
    /\ Go(r, "exit") \/ Go(r, "idle")
    /\ UNCHANGED <<loop, link, was, todo, at, overlapped>>

\* ... and returns or raises: in both cases the finally block follows.
ScanEnds(r) ==
    /\ pc[r] = "scanning"
    /\ adapter' = Nobody
    /\ Go(r, "exit")
    /\ UNCHANGED <<loop, link, was, todo, at, overlapped>>

\* monitor_start if was_running: there is a monitor ...
ExitCheck(r) ==
    /\ pc[r] = "exit"
    /\ Go(r, IF was[r] /\ monitor = NoThread THEN "start" ELSE "idle")
    /\ UNCHANGED <<loop, radio, was, todo, at, overlapped>>

\* ... or a new one is created and started.
Start(r) ==
    /\ pc[r] = "start"
    /\ \E t \in Threads :
          /\ thread[t] = "none"
          /\ monitor' = t
          /\ thread' = [thread EXCEPT ![t] = "waiting"]
          /\ stopped' = [stopped EXCEPT ![t] = FALSE]
    /\ Go(r, "idle")
    /\ UNCHANGED <<radio, was, todo, at, overlapped>>

-----------------------------------------------------------------------------
(* A monitor thread: PeriodicWorker._run *)

\* Mutant: the loop sleeps and does not look at the event.
TickBegins_Sleeps(t) ==
    /\ thread[t] = "waiting"
    /\ thread' = [thread EXCEPT ![t] = "ticking"]
    /\ UNCHANGED <<monitor, stopped, radio, request, overlapped>>

\* stop.wait(interval) timed out.
TickBegins(t) ==
    /\ thread[t] = "waiting" /\ ~stopped[t]
    /\ thread' = [thread EXCEPT ![t] = "ticking"]
    /\ UNCHANGED <<monitor, stopped, radio, request, overlapped>>

\* _monitor_tick: a device that is down is given an attempt to connect.
Kick(t, d) ==
    /\ thread[t] = "ticking" /\ link[d] = "none"
    /\ link' = [link EXCEPT ![d] = "connecting"]
    /\ UNCHANGED <<loop, adapter, request, overlapped>>

\* The tick returns, or raises and is logged.
TickEnds(t) ==
    /\ thread[t] = "ticking"
    /\ thread' = [thread EXCEPT ![t] = "waiting"]
    /\ UNCHANGED <<monitor, stopped, radio, request, overlapped>>

\* The stop event is set: the loop is left.
ThreadEnds(t) ==
    /\ thread[t] = "waiting" /\ stopped[t]
    /\ thread' = [thread EXCEPT ![t] = "none"]
    /\ UNCHANGED <<monitor, stopped, radio, request, overlapped>>

-----------------------------------------------------------------------------
(* The worker of a device *)

Dial(d) ==
    /\ link[d] = "connecting" /\ adapter = Nobody
    /\ adapter' = d
    /\ link' = [link EXCEPT ![d] = "dialling"]
    /\ UNCHANGED <<loop, request, overlapped>>

DialEnds(d) ==
    /\ link[d] = "dialling"
    /\ adapter' = Nobody
    /\ \E state \in {"up", "none"} : link' = [link EXCEPT ![d] = state]
    /\ UNCHANGED <<loop, request, overlapped>>

LinkDrop(d) ==
    /\ link[d] = "up"
    /\ link' = [link EXCEPT ![d] = "closing"]
    /\ UNCHANGED <<loop, adapter, request, overlapped>>

LinkClosed(d) ==
    /\ link[d] = "closing"
    /\ link' = [link EXCEPT ![d] = "none"]
    /\ UNCHANGED <<loop, adapter, request, overlapped>>

-----------------------------------------------------------------------------
\* What a request goes on to do once it has begun.
Continue(r) ==
    \/ StopCheck(r) \/ Stop(r) \/ StopRaises(r) \/ Joined(r)
    \/ ListFails(r) \/ \E d \in Devices : Look(r, d)
    \/ Disconnect(r) \/ DisconnectRaises(r)
    \/ Open(r) \/ ScanBegins(r) \/ ScanEnds(r) \/ ExitCheck(r) \/ Start(r)

Loop(t) == TickBegins(t) \/ TickEnds(t) \/ ThreadEnds(t)

Next ==
    \/ \E r \in Requests : Enter(r) \/ Continue(r)
    \/ \E t \in Threads : Loop(t) \/ \E d \in Devices : Kick(t, d)
    \/ \E d \in Devices : Dial(d) \/ DialEnds(d) \/ LinkDrop(d) \/ LinkClosed(d)

Spec == Init /\ [][Next]_vars

\* Threads are scheduled, ticks and connection attempts end, and the lock comes
\* to a scan that waits for it again and again, as a thread's name does.
Fairness ==
    /\ \A r \in Requests : /\ WF_vars(Continue(r))
                           /\ SF_vars(ScanBegins(r)) /\ SF_vars(Start(r))
    /\ \A t \in Threads : WF_vars(TickEnds(t)) /\ WF_vars(ThreadEnds(t))
    /\ \A d \in Devices : WF_vars(DialEnds(d)) /\ WF_vars(LinkClosed(d))

LiveSpec == Spec /\ Fairness

-----------------------------------------------------------------------------
(* Properties *)

Restarting(r) == pc[r] \in {"window", "scanning", "exit", "start"} /\ was[r]

\* As long as no two scans have overlapped: a monitor thread that was not told to
\* stop is the one _monitor_worker knows, so the next scan can stop it, and there
\* is never a second; a scan that stopped the monitor has none running beside it
\* that starts another tick, however long the thread it stopped stays in one.
OneMonitor == ~overlapped =>
    /\ \A t \in Threads : thread[t] # "none" /\ ~stopped[t] => t = monitor
    /\ \A r \in Requests : Restarting(r) => monitor = NoThread

\* A monitor thread that was told to stop while it was in a tick does end, also
\* when stop() has given up waiting for it.
StoppedEnds == \A t \in Threads : stopped[t] ~> (thread[t] = "none")

\* The finally block: a scan that has got as far as the window puts a monitor
\* back, whether the scan succeeds or raises, unless another scan gets in its way.
WindowRestores == \A r \in Requests : Restarting(r) ~> (monitor # NoThread \/ overlapped)

\* monitor ticks against scan_window's disconnects and the radio: what the manager holds
\* for a device goes through the life of one link, as module Links has it.
LinkOf(d) == IF link[d] = "dialling" THEN "connecting" ELSE link[d]
Backend   == INSTANCE Links WITH Peers <- Devices, state <- [d \in Devices |-> LinkOf(d)]
ImplementsLinks == Backend!Spec

-----------------------------------------------------------------------------
(* What the repository says and the code does not do *)

\* scan_window: "on exit we restart the monitor (only if it was running)".
MonitorRestored == [][\A r \in Requests :
    pc[r] # "idle" /\ pc'[r] = "idle" /\ was[r] => monitor' # NoThread]_vars
=============================================================================
