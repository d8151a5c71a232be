--------------------------- MODULE BluepyManager ---------------------------
(***************************************************************************)
(* The Bluetooth backend (ble/bluepy_manager.py, ble/bluepy_worker.py):    *)
(* calling threads, one worker thread per peripheral with a queue of       *)
(* commands and their futures, the registry of workers under its lock, and *)
(* the adapter lock shared by connection attempts and scans.               *)
(*                                                                         *)
(* read, write, subscribe and unsubscribe take the same path through the   *)
(* facade and the worker and are one operation here, "gatt".  Worker and   *)
(* command names are reused once nothing refers to the object they named,  *)
(* so behaviours are unbounded and only what exists at one time is bounded. *)
(***************************************************************************)
EXTENDS Integers, Sequences, FiniteSets

CONSTANTS
    Callers,    \* threads that call the manager: the monitor and web requests
    Addresses,  \* peripherals
    Workers,    \* bound: names of _PeripheralWorker objects
    Cmds,       \* bound: names of _Cmd objects and their futures
    NoWorker,   \* no worker
    NoCmd,      \* no command
    Scanner     \* the holder of the adapter lock during a scan

ASSUME NamesAssumption == /\ NoWorker \notin Workers
                          /\ Scanner \notin Workers \cup {NoWorker}
                          /\ NoCmd \notin Cmds

VARIABLES
    registry,   \* _workers: address -> the worker registered for it
    adapter,    \* who holds _adapter_lock
    wpc,        \* where worker w is in run / _loop
    addrOf,     \* the address worker w was created for
    air,        \* does the library hold a live link for worker w
    queue,      \* _queue of worker w
    fut,        \* the future of command c
    pc,         \* where caller p is
    at,         \* the worker caller p has in hand
    mine        \* the command caller p has submitted last

worker == <<wpc, addrOf, air>>
caller == <<pc, at, mine>>
vars   == <<registry, adapter, worker, queue, fut, caller>>

WorkerStates ==
    {"unborn", "start", "dialling", "ready", "serve", "poll", "draining",
     "leaving", "hangup", "failing", "exited"}
CallerStates ==
    {"idle", "found", "put", "gatt", "dial", "popped", "shutdown", "join",
     "scan", "scanning"}
Command == [op : {"gatt", "shutdown"}, cmd : Cmds]

TypeOK ==
    /\ registry \in [Addresses -> Workers \cup {NoWorker}]
    /\ adapter \in Workers \cup {NoWorker, Scanner}
    /\ wpc \in [Workers -> WorkerStates]
    /\ addrOf \in [Workers -> Addresses]
    /\ air \in [Workers -> BOOLEAN]
    /\ queue \in [Workers -> Seq(Command)]
    /\ fut \in [Cmds -> {"pending", "ok", "error"}]
    /\ pc \in [Callers -> CallerStates]
    /\ at \in [Callers -> Workers \cup {NoWorker}]
    /\ mine \in [Callers -> Cmds \cup {NoCmd}]
    /\ \A p \in Callers :
          /\ pc[p] \notin {"idle", "scan", "scanning"} => at[p] \in Workers
          /\ pc[p] \in {"gatt", "shutdown"} => mine[p] \in Cmds

-----------------------------------------------------------------------------
(* Helpers *)

\* Thread.is_alive
IsAlive(w) == wpc[w] \notin {"unborn", "exited"}

\* _connected: set before the loop, cleared in its finally block.
IsConnected(w) == wpc[w] \in {"serve", "poll", "draining", "leaving"}

Registered(w) == \E a \in Addresses : registry[a] = w
Queued(c, w)  == \E i \in DOMAIN queue[w] : queue[w][i].cmd = c

\* Names that no live object bears.
FreeWorker(w) == ~IsAlive(w) /\ ~Registered(w) /\ \A p \in Callers : at[p] # w
FreeCmd(c)    == /\ \A w \in Workers : ~Queued(c, w)
                 /\ \A p \in Callers : mine[p] # c

Go(p, state) == pc' = [pc EXCEPT ![p] = state]

\* The call of p ends: it returns, or raises what it met.
Return(p) == /\ Go(p, "idle")
             /\ at' = [at EXCEPT ![p] = NoWorker]
             /\ mine' = [mine EXCEPT ![p] = NoCmd]

Move(w, state) == wpc' = [wpc EXCEPT ![w] = state]

\* submit: a new future, the command at the end of the queue.  Nobody reads the
\* queue of a thread that has ended; it is not kept.
Submit(p, w, operation) ==
    \E c \in Cmds :
        /\ FreeCmd(c)
        /\ fut' = [fut EXCEPT ![c] = "pending"]
        /\ queue' = IF IsAlive(w)
                    THEN [queue EXCEPT ![w] = Append(@, [op |-> operation, cmd |-> c])]
                    ELSE queue
        /\ mine' = [mine EXCEPT ![p] = c]

Init ==
    /\ registry = [a \in Addresses |-> NoWorker]
    /\ adapter = NoWorker
    /\ wpc = [w \in Workers |-> "unborn"]
    /\ addrOf \in [Workers -> Addresses]
    /\ air = [w \in Workers |-> FALSE]
    /\ queue = [w \in Workers |-> <<>>]
    /\ fut = [c \in Cmds |-> "pending"]
    /\ pc = [p \in Callers |-> "idle"]
    /\ at = [p \in Callers |-> NoWorker]
    /\ mine = [p \in Callers |-> NoCmd]

-----------------------------------------------------------------------------
(* The facade *)

\* Mutant: a worker is replaced as soon as it is not connected.
EnsureWorker_Replaces(p, a, state) ==
    /\ pc[p] = "idle"
    /\ Go(p, state)
    /\ registry[a] # NoWorker => ~IsConnected(registry[a])
    /\ \E w \in Workers :
          /\ FreeWorker(w)
          /\ registry' = [registry EXCEPT ![a] = w]
          /\ Move(w, "start")
          /\ addrOf' = [addrOf EXCEPT ![w] = a]
          /\ at' = [at EXCEPT ![p] = IF state = "idle" THEN NoWorker ELSE w]
    /\ UNCHANGED <<adapter, air, queue, fut, mine>>

\* _ensure_worker under the registry lock: the registered worker if its thread
\* is alive, otherwise a new one.  `state` is where the caller goes on.
EnsureWorker(p, a, state) ==
    /\ pc[p] = "idle"
    /\ Go(p, state)
    /\ UNCHANGED <<adapter, fut, mine>>
    /\ \/ /\ registry[a] # NoWorker /\ IsAlive(registry[a])
          /\ at' = [at EXCEPT ![p] = IF state = "idle" THEN NoWorker ELSE registry[a]]
          /\ UNCHANGED <<registry, worker, queue>>
       \/ /\ registry[a] # NoWorker => ~IsAlive(registry[a])
          /\ \E w \in Workers :
                /\ FreeWorker(w)
                /\ registry' = [registry EXCEPT ![a] = w]
                /\ Move(w, "start")
                /\ addrOf' = [addrOf EXCEPT ![w] = a]
                /\ UNCHANGED <<air, queue>>
                /\ at' = [at EXCEPT ![p] = IF state = "idle" THEN NoWorker ELSE w]

\* ensure_connecting does not wait; connect waits until the connect future is
\* done, or times out.
EnsureConnecting(p, a) == EnsureWorker(p, a, "idle")
Connect(p, a)          == EnsureWorker(p, a, "dial")

ConnectEnds(p) ==
    /\ pc[p] = "dial"
    /\ Return(p)
    /\ UNCHANGED <<registry, adapter, worker, queue, fut>>

\* _require_worker: look the worker up under the lock ...
Lookup(p, a) ==
    /\ pc[p] = "idle" /\ registry[a] # NoWorker
    /\ Go(p, "found")
    /\ at' = [at EXCEPT ![p] = registry[a]]
    /\ UNCHANGED <<registry, adapter, worker, queue, fut, mine>>

\* ... check outside the lock that it is connected (ConnectionError if not) ...
Require(p) ==
    /\ pc[p] = "found"
    /\ IF IsConnected(at[p])
       THEN Go(p, "put") /\ UNCHANGED <<at, mine>>
       ELSE Return(p)
    /\ UNCHANGED <<registry, adapter, worker, queue, fut>>

\* ... and queue the command.
SubmitGatt(p) ==
    /\ pc[p] = "put"
    /\ Submit(p, at[p], "gatt")
    /\ Go(p, "gatt")
    /\ UNCHANGED <<registry, adapter, worker, at>>

\* future.result(timeout): the value, the exception, or TimeoutError.
GattEnds(p) ==
    /\ pc[p] = "gatt"
    /\ Return(p)
    /\ UNCHANGED <<registry, adapter, worker, queue, fut>>

\* Mutants: `worker is None` is not checked; a worker that has not connected yet
\* is unregistered without a shutdown.
Pop_NoneUnchecked(p, a) ==
    /\ pc[p] = "idle"
    /\ registry' = [registry EXCEPT ![a] = NoWorker]
    /\ at' = [at EXCEPT ![p] = registry[a]]
    /\ Go(p, "popped")
    /\ UNCHANGED <<adapter, worker, queue, fut, mine>>

Pop_ForgetsUnconnected(p, a) ==
    /\ pc[p] = "idle" /\ registry[a] # NoWorker
    /\ registry' = [registry EXCEPT ![a] = NoWorker]
    /\ IF IsConnected(registry[a])
       THEN Go(p, "popped") /\ at' = [at EXCEPT ![p] = registry[a]]
       ELSE UNCHANGED <<pc, at>>
    /\ UNCHANGED <<adapter, worker, queue, fut, mine>>

\* disconnect: unregister the worker under the lock ...
Pop(p, a) ==
    /\ pc[p] = "idle" /\ registry[a] # NoWorker
    /\ registry' = [registry EXCEPT ![a] = NoWorker]
    /\ at' = [at EXCEPT ![p] = registry[a]]
    /\ Go(p, "popped")
    /\ UNCHANGED <<adapter, worker, queue, fut, mine>>

\* ... queue its shutdown behind the commands it still has ...
SubmitShutdown(p) ==
    /\ pc[p] = "popped"
    /\ Submit(p, at[p], "shutdown")
    /\ Go(p, "shutdown")
    /\ UNCHANGED <<registry, adapter, worker, at>>

\* ... wait for it, or time out, and in any case join the thread ...
ShutdownEnds(p) ==
    /\ pc[p] = "shutdown"
    /\ Go(p, "join")
    /\ mine' = [mine EXCEPT ![p] = NoCmd]
    /\ UNCHANGED <<registry, adapter, worker, queue, fut, at>>

\* ... for at most the same time again.
JoinEnds(p) ==
    /\ pc[p] = "join"
    /\ Return(p)
    /\ UNCHANGED <<registry, adapter, worker, queue, fut>>

\* start_scan waits for the adapter lock and holds it during the scan and its retry.
StartScan(p) ==
    /\ pc[p] = "idle" /\ Go(p, "scan")
    /\ UNCHANGED <<registry, adapter, worker, queue, fut, at, mine>>

ScanBegins(p) ==
    /\ pc[p] = "scan" /\ adapter = NoWorker
    /\ adapter' = Scanner
    /\ Go(p, "scanning")
    /\ UNCHANGED <<registry, worker, queue, fut, at, mine>>

ScanEnds(p) ==
    /\ pc[p] = "scanning"
    /\ adapter' = NoWorker
    /\ Go(p, "idle")
    /\ UNCHANGED <<registry, worker, queue, fut, at, mine>>

-----------------------------------------------------------------------------
(* A worker thread: run *)

\* Mutant: the connection attempt does not wait for the lock.
AcquireAdapter_Unlocked(w) ==
    /\ wpc[w] = "start"
    /\ adapter' = w
    /\ Move(w, "dialling")
    /\ UNCHANGED <<registry, addrOf, air, queue, fut, caller>>

\* with self._adapter_lock: one attempt at a time, and none during a scan.
AcquireAdapter(w) ==
    /\ wpc[w] = "start" /\ adapter = NoWorker
    /\ adapter' = w
    /\ Move(w, "dialling")
    /\ UNCHANGED <<registry, addrOf, air, queue, fut, caller>>

\* btle.Peripheral() returns a linked peripheral; the lock is released.
DialSucceeds(w) ==
    /\ wpc[w] = "dialling"
    /\ adapter' = NoWorker
    /\ air' = [air EXCEPT ![w] = TRUE]
    /\ Move(w, "ready")
    /\ UNCHANGED <<registry, addrOf, queue, fut, caller>>

\* Mutant: the lock is released only when the attempt succeeds.
DialFails_KeepsLock(w) ==
    /\ wpc[w] = "dialling"
    /\ Move(w, "failing")
    /\ UNCHANGED <<registry, adapter, addrOf, air, queue, fut, caller>>

\* It raises: the thread is about to end, and what is in the queue stays there.
DialFails(w) ==
    /\ wpc[w] = "dialling"
    /\ adapter' = NoWorker
    /\ Move(w, "failing")
    /\ UNCHANGED <<registry, addrOf, air, queue, fut, caller>>

\* _connected is set, the connect future is done.
Announce(w) ==
    /\ wpc[w] = "ready"
    /\ Move(w, "serve")
    /\ UNCHANGED <<registry, adapter, addrOf, air, queue, fut, caller>>

\* The peripheral goes out of range or is switched off.
LinkLost(w) ==
    /\ air[w]
    /\ air' = [air EXCEPT ![w] = FALSE]
    /\ UNCHANGED <<registry, adapter, wpc, addrOf, queue, fut, caller>>

(* _loop *)

\* Take the oldest command off the queue of w and resolve its future.
Resolve(w, outcome) ==
    /\ queue' = [queue EXCEPT ![w] = Tail(@)]
    /\ fut' = [fut EXCEPT ![Head(queue[w]).cmd] = outcome]

\* _handle_command: a GATT operation succeeds or raises; unsubscribe swallows the
\* error of a lost link and succeeds.  The loop goes on in any case.
HandleGatt(w) ==
    /\ wpc[w] = "serve" /\ queue[w] # <<>> /\ Head(queue[w]).op = "gatt"
    /\ \E outcome \in {"ok", "error"} : Resolve(w, outcome)
    /\ UNCHANGED <<registry, adapter, worker, caller>>

\* Mutant: shutdown is answered, the stop event is not set.
HandleShutdown_NoStop(w) ==
    /\ wpc[w] = "serve" /\ queue[w] # <<>> /\ Head(queue[w]).op = "shutdown"
    /\ Resolve(w, "ok")
    /\ UNCHANGED <<registry, adapter, worker, caller>>

\* shutdown sets the stop event: the loop is left, with the rest of the queue.
HandleShutdown(w) ==
    /\ wpc[w] = "serve" /\ queue[w] # <<>> /\ Head(queue[w]).op = "shutdown"
    /\ Resolve(w, "ok")
    /\ Move(w, "leaving")
    /\ UNCHANGED <<registry, adapter, addrOf, air, caller>>

\* Nothing is queued: wait for notifications ...
Poll(w) ==
    /\ wpc[w] = "serve" /\ queue[w] = <<>>
    /\ Move(w, "poll")
    /\ UNCHANGED <<registry, adapter, addrOf, air, queue, fut, caller>>

\* ... until one arrives or the poll interval is over ...
PollEnds(w) ==
    /\ wpc[w] = "poll" /\ air[w]
    /\ Move(w, "serve")
    /\ UNCHANGED <<registry, adapter, addrOf, air, queue, fut, caller>>

\* Mutant: BTLEDisconnectError does not end the loop.
LossNoticed_GoesOn(w) ==
    /\ wpc[w] = "poll" /\ ~air[w]
    /\ Move(w, "serve")
    /\ UNCHANGED <<registry, adapter, addrOf, air, queue, fut, caller>>

\* ... or the loss of the link is noticed: BTLEDisconnectError ...
LossNoticed(w) ==
    /\ wpc[w] = "poll" /\ ~air[w]
    /\ Move(w, "draining")
    /\ UNCHANGED <<registry, adapter, addrOf, air, queue, fut, caller>>

\* ... or another exception of the library ends the loop.
PollRaises(w) ==
    /\ wpc[w] = "poll"
    /\ Move(w, "leaving")
    /\ UNCHANGED <<registry, adapter, addrOf, air, queue, fut, caller>>

\* Mutant: the futures of drained commands are left pending.
DrainOne_Silent(w) ==
    /\ wpc[w] = "draining" /\ queue[w] # <<>>
    /\ queue' = [queue EXCEPT ![w] = Tail(@)]
    /\ UNCHANGED <<registry, adapter, worker, fut, caller>>

\* _drain_with_error, one command at a time, until the queue is seen empty.
DrainOne(w) ==
    /\ wpc[w] = "draining" /\ queue[w] # <<>>
    /\ Resolve(w, "error")
    /\ UNCHANGED <<registry, adapter, worker, caller>>

DrainEnds(w) ==
    /\ wpc[w] = "draining" /\ queue[w] = <<>>
    /\ Move(w, "leaving")
    /\ UNCHANGED <<registry, adapter, addrOf, air, queue, fut, caller>>

\* The finally block: _connected is cleared, then the peripheral disconnected.
ClearConnected(w) ==
    /\ wpc[w] = "leaving"
    /\ Move(w, "hangup")
    /\ UNCHANGED <<registry, adapter, addrOf, air, queue, fut, caller>>

Exit(w) ==
    /\ wpc[w] \in {"hangup", "failing"}
    /\ air' = [air EXCEPT ![w] = FALSE]
    /\ queue' = [queue EXCEPT ![w] = <<>>]
    /\ Move(w, "exited")
    /\ UNCHANGED <<registry, adapter, addrOf, fut, caller>>

-----------------------------------------------------------------------------
Facade(p) ==
    \/ \E a \in Addresses :
          EnsureConnecting(p, a) \/ Connect(p, a) \/ Lookup(p, a) \/ Pop(p, a)
    \/ StartScan(p)

\* What a caller goes on to do once it has begun.
Continue(p) ==
    \/ ConnectEnds(p)
    \/ Require(p) \/ SubmitGatt(p) \/ GattEnds(p)
    \/ SubmitShutdown(p) \/ ShutdownEnds(p) \/ JoinEnds(p)
    \/ ScanBegins(p) \/ ScanEnds(p)

Run(w) ==
    \/ AcquireAdapter(w) \/ DialSucceeds(w) \/ DialFails(w) \/ Announce(w)
    \/ HandleGatt(w) \/ HandleShutdown(w)
    \/ Poll(w) \/ PollEnds(w) \/ LossNoticed(w) \/ PollRaises(w)
    \/ DrainOne(w) \/ DrainEnds(w)
    \/ ClearConnected(w) \/ Exit(w)

Next == \/ \E p \in Callers : Facade(p) \/ Continue(p)
        \/ \E w \in Workers : Run(w) \/ LinkLost(w)

Spec == Init /\ [][Next]_vars

\* Threads are scheduled, a connection attempt and a scan end, and the lock is
\* given to whoever waits for it again and again.
Fairness ==
    /\ \A p \in Callers : WF_vars(Continue(p)) /\ SF_vars(ScanBegins(p)) /\ SF_vars(SubmitShutdown(p))
    /\ \A w \in Workers : WF_vars(Run(w)) /\ SF_vars(AcquireAdapter(w))

LiveSpec == Spec /\ Fairness

-----------------------------------------------------------------------------
(* Properties *)

\* _adapter_lock: whenever a connection attempt is pending, in whatever worker,
\* no other is and no scan runs, because the one who is busy with the adapter
\* is the one who holds the lock.
AdapterExclusive ==
    /\ \A w \in Workers : wpc[w] = "dialling" <=> adapter = w
    /\ \A p, q \in Callers : pc[p] = "scanning" /\ pc[q] = "scanning" => p = q
    /\ (\E p \in Callers : pc[p] = "scanning") <=> adapter = Scanner

\* disconnect against _ensure_worker: a worker thread the registry does not know
\* is on its way out, whether it was dialling, serving or draining when it was
\* unregistered.  No path leaves a thread that holds a link nobody can reach.
Doomed(w) ==
    \/ wpc[w] \in {"draining", "leaving", "hangup", "failing"} \/ ~IsAlive(w)
    \/ \E i \in DOMAIN queue[w] : queue[w][i].op = "shutdown"
    \/ \E p \in Callers : pc[p] = "popped" /\ at[p] = w
UnregisteredIsDoomed == \A w \in Workers : Registered(w) \/ Doomed(w)

\* submit, _handle_command, _drain_with_error: a future that a caller waits for
\* and that is not done belongs to a command that is still in the queue of its
\* worker, or the worker has ended; none is taken off a queue and forgotten.
PendingIsQueued == \A p \in Callers :
    pc[p] \in {"gatt", "shutdown"} /\ fut[mine[p]] = "pending" /\ IsAlive(at[p])
        => Queued(mine[p], at[p])

\* is_connected, _ensure_worker and disconnect from outside: through the registry each
\* address shows the life of one link, as module Links has it.  A worker whose attempt
\* failed or whose link is lost is never replaced while its thread lives, and no link is
\* up but one that was asked for since the last disconnect, whatever workers nobody knows
\* are still doing.
LinkOf(w) ==
    CASE w = NoWorker -> "none"
      [] w # NoWorker /\ ~IsAlive(w) -> "none"
      [] w # NoWorker /\ wpc[w] \in {"start", "dialling", "ready"} -> "connecting"
      [] w # NoWorker /\ IsConnected(w) -> "up"
      [] w # NoWorker /\ wpc[w] \in {"hangup", "failing"} -> "closing"

Seen  == [a \in Addresses |-> LinkOf(registry[a])]
Shown == INSTANCE Links WITH Peers <- Addresses, state <- Seen
ImplementsLinks == Shown!Spec

\* ... and it does go: the link of an unregistered worker is dropped.
UnregisteredExits == \A w \in Workers : (IsAlive(w) /\ ~Registered(w)) ~> ~IsAlive(w)

\* is_connected does not stay true on a lost link, once commands stop coming in
\* (the loop prefers a queued command to noticing the loss).
LossIsSeen == \A w \in Workers :
    (<>[](queue[w] = <<>>)) => ((IsConnected(w) /\ ~air[w]) ~> ~IsConnected(w))

\* Attempts to connect never keep a scan from the adapter for good.
ScanGetsAdapter == \A p \in Callers : (pc[p] = "scan") ~> (pc[p] = "scanning")
=============================================================================
