----------------------- MODULE BluepyManagerProofs -----------------------
(***************************************************************************)
(* What BluepyManager guarantees for every number of calling threads,      *)
(* peripherals, workers and commands.                                      *)
(***************************************************************************)
EXTENDS BluepyManager, SequenceTheorems, TLAPS

\* The head and the tail of a command queue that is not empty.
LEMMA QueueEnds ==
    ASSUME NEW q \in Seq(Command), q # <<>>
    PROVE  /\ Head(q) \in Command
           /\ Tail(q) \in Seq(Command)
           /\ Len(q) \in Nat /\ Len(q) >= 1
           /\ Len(Tail(q)) = Len(q) - 1
           /\ \A i \in 1 .. Len(q) - 1 : Tail(q)[i] = q[i + 1]
           /\ Head(q) = q[1]
  BY HeadTailProperties

\* submit keeps every future a future and every queue a queue of commands.
LEMMA SubmitTypes ==
    ASSUME TypeOK, NEW p \in Callers, NEW w \in Workers,
           NEW operation \in {"gatt", "shutdown"}, Submit(p, w, operation)
    PROVE  /\ queue' \in [Workers -> Seq(Command)]
           /\ fut' \in [Cmds -> {"pending", "ok", "error"}]
           /\ mine' \in [Callers -> Cmds \cup {NoCmd}]
           /\ mine'[p] \in Cmds
           /\ \A q \in Callers \ {p} : mine'[q] = mine[q]
  <1>1. PICK c \in Cmds :
            /\ fut' = [fut EXCEPT ![c] = "pending"]
            /\ queue' = IF IsAlive(w)
                        THEN [queue EXCEPT ![w] = Append(@, [op |-> operation, cmd |-> c])]
                        ELSE queue
            /\ mine' = [mine EXCEPT ![p] = c]
    BY DEF Submit
  <1>2. [op |-> operation, cmd |-> c] \in Command
    BY DEF Command
  <1>3. Append(queue[w], [op |-> operation, cmd |-> c]) \in Seq(Command)
    BY <1>2 DEF TypeOK
  <1>4. queue' \in [Workers -> Seq(Command)]
    BY <1>1, <1>3 DEF TypeOK
  <1>5. /\ fut' \in [Cmds -> {"pending", "ok", "error"}]
        /\ mine' \in [Callers -> Cmds \cup {NoCmd}]
        /\ mine'[p] \in Cmds
        /\ \A q \in Callers \ {p} : mine'[q] = mine[q]
    BY <1>1 DEF TypeOK
  <1> QED
    BY <1>4, <1>5

\* So does taking the oldest command and resolving its future.
LEMMA ResolveTypes ==
    ASSUME TypeOK, NEW w \in Workers, queue[w] # <<>>,
           NEW outcome \in {"ok", "error"}, Resolve(w, outcome)
    PROVE  /\ queue' \in [Workers -> Seq(Command)]
           /\ fut' \in [Cmds -> {"pending", "ok", "error"}]
  <1>1. queue[w] \in Seq(Command)
    BY DEF TypeOK
  <1>2. Tail(queue[w]) \in Seq(Command)
    BY <1>1, QueueEnds
  <1> QED
    BY <1>2 DEF TypeOK, Resolve

-----------------------------------------------------------------------------
(* Types *)

\* A step of a caller keeps every variable in its type; who goes on with a
\* worker or waits for a command has one.
LEMMA CallerKeepsTypes ==
    ASSUME TypeOK, NEW p \in Callers, Facade(p) \/ Continue(p)
    PROVE  TypeOK'
  <1> USE NamesAssumption
  <1>1. ASSUME NEW a \in Addresses, NEW state \in {"idle", "dial"}, EnsureWorker(p, a, state)
        PROVE  TypeOK'
    <2>1. PICK w \in Workers :
              /\ at' = [at EXCEPT ![p] = IF state = "idle" THEN NoWorker ELSE w]
              /\ registry' \in [Addresses -> Workers \cup {NoWorker}]
              /\ wpc' \in [Workers -> WorkerStates]
              /\ addrOf' \in [Workers -> Addresses]
              /\ air' = air /\ queue' = queue
      <3>1. CASE registry[a] # NoWorker /\ IsAlive(registry[a])
        <4>1. /\ registry[a] \in Workers
              /\ at' = [at EXCEPT ![p] = IF state = "idle" THEN NoWorker ELSE registry[a]]
              /\ UNCHANGED <<registry, worker, queue>>
          BY <1>1, <3>1 DEF EnsureWorker, TypeOK
        <4> QED
          BY <4>1 DEF TypeOK, worker
      <3>2. CASE ~(registry[a] # NoWorker /\ IsAlive(registry[a]))
        <4>1. PICK w \in Workers :
                  /\ registry' = [registry EXCEPT ![a] = w]
                  /\ Move(w, "start")
                  /\ addrOf' = [addrOf EXCEPT ![w] = a]
                  /\ UNCHANGED <<air, queue>>
                  /\ at' = [at EXCEPT ![p] = IF state = "idle" THEN NoWorker ELSE w]
          BY <1>1, <3>2 DEF EnsureWorker
        <4> QED
          BY <4>1 DEF TypeOK, Move, WorkerStates
      <3> QED
        BY <3>1, <3>2
    <2>2. pc' = [pc EXCEPT ![p] = state] /\ UNCHANGED <<adapter, fut, mine>>
      BY <1>1 DEF EnsureWorker, Go
    <2>3. /\ pc' \in [Callers -> CallerStates]
          /\ at' \in [Callers -> Workers \cup {NoWorker}]
      BY <2>1, <2>2 DEF TypeOK, CallerStates
    <2>4. ASSUME NEW q \in Callers
          PROVE  /\ pc'[q] \notin {"idle", "scan", "scanning"} => at'[q] \in Workers
                 /\ pc'[q] \in {"gatt", "shutdown"} => mine'[q] \in Cmds
      <3>1. CASE q = p
        BY <2>1, <2>2, <3>1 DEF TypeOK
      <3>2. CASE q # p
        BY <2>1, <2>2, <3>2 DEF TypeOK
      <3> QED
        BY <3>1, <3>2
    <2> QED
      BY <2>1, <2>2, <2>3, <2>4 DEF TypeOK
  <1>2. ASSUME NEW a \in Addresses, Lookup(p, a) PROVE TypeOK'
    BY <1>2 DEF Lookup, TypeOK, Go, worker, CallerStates
  <1>3. ASSUME NEW a \in Addresses, Pop(p, a) PROVE TypeOK'
    BY <1>3 DEF Pop, TypeOK, Go, worker, CallerStates
  <1>4. CASE StartScan(p)
    BY <1>4 DEF StartScan, TypeOK, Go, worker, CallerStates
  <1>5. CASE ConnectEnds(p) \/ GattEnds(p) \/ JoinEnds(p)
    BY <1>5 DEF ConnectEnds, GattEnds, JoinEnds, TypeOK, Go, Return, worker, CallerStates
  <1>6. CASE Require(p)
    BY <1>6 DEF Require, TypeOK, Go, Return, worker, CallerStates
  <1>7. CASE SubmitGatt(p)
    <2>1. at[p] \in Workers /\ Submit(p, at[p], "gatt")
      BY <1>7 DEF SubmitGatt, TypeOK
    <2>2. /\ queue' \in [Workers -> Seq(Command)]
          /\ fut' \in [Cmds -> {"pending", "ok", "error"}]
          /\ mine' \in [Callers -> Cmds \cup {NoCmd}]
          /\ mine'[p] \in Cmds
          /\ \A q \in Callers \ {p} : mine'[q] = mine[q]
      BY <2>1, SubmitTypes
    <2> QED
      BY <1>7, <2>2 DEF SubmitGatt, TypeOK, Go, worker, CallerStates
  <1>8. CASE SubmitShutdown(p)
    <2>1. at[p] \in Workers /\ Submit(p, at[p], "shutdown")
      BY <1>8 DEF SubmitShutdown, TypeOK
    <2>2. /\ queue' \in [Workers -> Seq(Command)]
          /\ fut' \in [Cmds -> {"pending", "ok", "error"}]
          /\ mine' \in [Callers -> Cmds \cup {NoCmd}]
          /\ mine'[p] \in Cmds
          /\ \A q \in Callers \ {p} : mine'[q] = mine[q]
      BY <2>1, SubmitTypes
    <2> QED
      BY <1>8, <2>2 DEF SubmitShutdown, TypeOK, Go, worker, CallerStates
  <1>9. CASE ShutdownEnds(p)
    BY <1>9 DEF ShutdownEnds, TypeOK, Go, worker, CallerStates
  <1>10. CASE ScanBegins(p) \/ ScanEnds(p)
    BY <1>10 DEF ScanBegins, ScanEnds, TypeOK, Go, worker, CallerStates
  <1> QED
    BY <1>1, <1>2, <1>3, <1>4, <1>5, <1>6, <1>7, <1>8, <1>9, <1>10
    DEF Facade, Continue, EnsureConnecting, Connect

\* A step of a worker, or the loss of its link, keeps every variable in its type.
LEMMA WorkerKeepsTypes ==
    ASSUME TypeOK, NEW w \in Workers, Run(w) \/ LinkLost(w)
    PROVE  TypeOK'
  <1> USE NamesAssumption
  <1>1. CASE AcquireAdapter(w) \/ DialFails(w)
    BY <1>1 DEF AcquireAdapter, DialFails, TypeOK, Move, WorkerStates, caller
  <1>2. CASE DialSucceeds(w)
    BY <1>2 DEF DialSucceeds, TypeOK, Move, WorkerStates, caller
  <1>3. CASE Announce(w) \/ Poll(w) \/ PollEnds(w) \/ LossNoticed(w) \/ PollRaises(w)
               \/ DrainEnds(w) \/ ClearConnected(w)
    BY <1>3 DEF Announce, Poll, PollEnds, LossNoticed, PollRaises, DrainEnds,
                ClearConnected, TypeOK, Move, WorkerStates, caller
  <1>4. CASE LinkLost(w)
    BY <1>4 DEF LinkLost, TypeOK, caller
  <1>5. CASE HandleGatt(w)
    <2>1. PICK outcome \in {"ok", "error"} : Resolve(w, outcome)
      BY <1>5 DEF HandleGatt
    <2>2. /\ queue' \in [Workers -> Seq(Command)]
          /\ fut' \in [Cmds -> {"pending", "ok", "error"}]
      BY <1>5, <2>1, ResolveTypes DEF HandleGatt
    <2> QED
      BY <1>5, <2>2 DEF HandleGatt, TypeOK, worker, caller
  <1>6. CASE HandleShutdown(w)
    <2>1. /\ queue' \in [Workers -> Seq(Command)]
          /\ fut' \in [Cmds -> {"pending", "ok", "error"}]
      BY <1>6, ResolveTypes DEF HandleShutdown
    <2> QED
      BY <1>6, <2>1 DEF HandleShutdown, TypeOK, Move, WorkerStates, caller
  <1>7. CASE DrainOne(w)
    <2>1. /\ queue' \in [Workers -> Seq(Command)]
          /\ fut' \in [Cmds -> {"pending", "ok", "error"}]
      BY <1>7, ResolveTypes DEF DrainOne
    <2> QED
      BY <1>7, <2>1 DEF DrainOne, TypeOK, worker, caller
  <1>8. CASE Exit(w)
    BY <1>8 DEF Exit, TypeOK, Move, WorkerStates, caller
  <1> QED
    BY <1>1, <1>2, <1>3, <1>4, <1>5, <1>6, <1>7, <1>8 DEF Run

\* Every variable keeps to its type, and a caller that goes on with a worker, or
\* waits for a command, has one.
THEOREM TypeCorrect == Spec => []TypeOK
  <1>1. Init => TypeOK
    BY NamesAssumption DEF Init, TypeOK, WorkerStates, CallerStates
  <1>2. TypeOK /\ [Next]_vars => TypeOK'
    <2> SUFFICES ASSUME TypeOK, [Next]_vars PROVE TypeOK'
      OBVIOUS
    <2>1. CASE UNCHANGED vars
      BY <2>1 DEF TypeOK, vars, worker, caller
    <2> QED
      BY <2>1, CallerKeepsTypes, WorkerKeepsTypes DEF Next
  <1> QED
    BY <1>1, <1>2, PTL DEF Spec

-----------------------------------------------------------------------------
(* The adapter lock *)

\* A step that leaves the lock, the scans and the pending attempts as they are
\* leaves the lock with the one who is busy.
LEMMA QuietStep ==
    ASSUME AdapterExclusive, adapter' = adapter,
           \A p \in Callers : pc'[p] = "scanning" <=> pc[p] = "scanning",
           \A w \in Workers : wpc'[w] = "dialling" <=> wpc[w] = "dialling"
    PROVE  AdapterExclusive'
  BY DEF AdapterExclusive

\* Callers take the lock for a scan only while nobody has it, and give it back.
LEMMA CallersShareAdapter ==
    ASSUME TypeOK, AdapterExclusive, NEW p \in Callers, Facade(p) \/ Continue(p)
    PROVE  AdapterExclusive'
  <1> USE NamesAssumption
  <1>1. CASE ScanBegins(p)
    BY <1>1 DEF ScanBegins, Go, worker, TypeOK, AdapterExclusive
  <1>2. CASE ScanEnds(p)
    BY <1>2 DEF ScanEnds, Go, worker, TypeOK, AdapterExclusive
  <1>3. ASSUME NEW a \in Addresses, NEW state \in {"idle", "dial"}, EnsureWorker(p, a, state)
        PROVE  AdapterExclusive'
    <2>1. adapter' = adapter /\ pc' = [pc EXCEPT ![p] = state] /\ pc[p] = "idle"
      BY <1>3 DEF EnsureWorker, Go
    <2>2. \A q \in Callers : pc'[q] = "scanning" <=> pc[q] = "scanning"
      BY <2>1 DEF TypeOK
    <2>3. \A w \in Workers : wpc'[w] = "dialling" <=> wpc[w] = "dialling"
      BY <1>3 DEF EnsureWorker, FreeWorker, IsAlive, Move, worker, TypeOK
    <2> QED
      BY <2>1, <2>2, <2>3, QuietStep
  <1>4. ASSUME NEW a \in Addresses, Lookup(p, a) \/ Pop(p, a) PROVE AdapterExclusive'
    <2>1. /\ adapter' = adapter /\ wpc' = wpc
          /\ \A q \in Callers : pc'[q] = "scanning" <=> pc[q] = "scanning"
      BY <1>4 DEF Lookup, Pop, Go, worker, TypeOK
    <2> QED
      BY <2>1, QuietStep
  <1>5. CASE \/ StartScan(p) \/ ConnectEnds(p) \/ Require(p) \/ SubmitGatt(p)
             \/ GattEnds(p) \/ SubmitShutdown(p) \/ ShutdownEnds(p) \/ JoinEnds(p)
    <2>1. /\ adapter' = adapter /\ wpc' = wpc
          /\ \A q \in Callers : pc'[q] = "scanning" <=> pc[q] = "scanning"
      BY <1>5 DEF StartScan, ConnectEnds, Require, SubmitGatt, GattEnds, SubmitShutdown,
                  ShutdownEnds, JoinEnds, Go, Return, worker, TypeOK
    <2> QED
      BY <2>1, QuietStep
  <1> QED
    BY <1>1, <1>2, <1>3, <1>4, <1>5 DEF Facade, Continue, EnsureConnecting, Connect

\* Workers hold it exactly during the connection attempt.
LEMMA WorkersShareAdapter ==
    ASSUME TypeOK, AdapterExclusive, NEW w \in Workers, Run(w) \/ LinkLost(w)
    PROVE  AdapterExclusive'
  <1> USE NamesAssumption
  <1>1. CASE AcquireAdapter(w)
    BY <1>1 DEF AcquireAdapter, Move, caller, TypeOK, AdapterExclusive
  <1>2. CASE DialSucceeds(w) \/ DialFails(w)
    BY <1>2 DEF DialSucceeds, DialFails, Move, caller, TypeOK, AdapterExclusive
  <1>3. CASE \/ Announce(w) \/ Poll(w) \/ PollEnds(w) \/ LossNoticed(w) \/ PollRaises(w)
             \/ DrainEnds(w) \/ ClearConnected(w) \/ HandleShutdown(w) \/ Exit(w)
    <2>1. /\ adapter' = adapter /\ pc' = pc
          /\ \A v \in Workers : wpc'[v] = "dialling" <=> wpc[v] = "dialling"
      BY <1>3 DEF Announce, Poll, PollEnds, LossNoticed, PollRaises, DrainEnds,
                  ClearConnected, HandleShutdown, Exit, Move, caller, TypeOK
    <2> QED
      BY <2>1, QuietStep
  <1>4. CASE HandleGatt(w) \/ DrainOne(w) \/ LinkLost(w)
    <2>1. adapter' = adapter /\ pc' = pc /\ wpc' = wpc
      BY <1>4 DEF HandleGatt, DrainOne, LinkLost, worker, caller
    <2> QED
      BY <2>1, QuietStep
  <1> QED
    BY <1>1, <1>2, <1>3, <1>4 DEF Run

\* No connection attempt runs beside another or beside a scan.
THEOREM AdapterIsExclusive == Spec => []AdapterExclusive
  <1>1. Init => AdapterExclusive
    BY NamesAssumption DEF Init, AdapterExclusive
  <1>2. TypeOK /\ AdapterExclusive /\ [Next]_vars => AdapterExclusive'
    <2> SUFFICES ASSUME TypeOK, AdapterExclusive, [Next]_vars PROVE AdapterExclusive'
      OBVIOUS
    <2>1. CASE UNCHANGED vars
      BY <2>1 DEF AdapterExclusive, vars, worker, caller
    <2> QED
      BY <2>1, CallersShareAdapter, WorkersShareAdapter DEF Next
  <1> QED
    BY <1>1, <1>2, TypeCorrect, PTL DEF Spec

-----------------------------------------------------------------------------
(* Unregistered workers *)

HasShutdown(w) == \E i \in DOMAIN queue[w] : queue[w][i].op = "shutdown"
Popped(w)      == \E p \in Callers : pc[p] = "popped" /\ at[p] = w
OnItsWayOut(w) == wpc[w] \in {"draining", "leaving", "hangup", "failing"} \/ ~IsAlive(w)

\* A step that takes no worker out of the registry, no shutdown out of a queue or
\* a caller's hand and brings no worker back leaves the doomed doomed.
LEMMA StaysDoomed ==
    ASSUME UnregisteredIsDoomed, NEW w \in Workers,
           Registered(w) => Registered(w)' \/ OnItsWayOut(w)',
           OnItsWayOut(w) => OnItsWayOut(w)',
           HasShutdown(w) => HasShutdown(w)' \/ OnItsWayOut(w)',
           Popped(w) => Popped(w)' \/ HasShutdown(w)' \/ OnItsWayOut(w)'
    PROVE  Registered(w)' \/ Doomed(w)'
  BY DEF UnregisteredIsDoomed, Doomed, HasShutdown, Popped, OnItsWayOut

\* submit keeps the shutdowns that are queued, and queues its own on a live worker.
LEMMA SubmitKeepsShutdown ==
    ASSUME TypeOK, NEW p \in Callers, NEW w \in Workers,
           NEW operation \in {"gatt", "shutdown"}, Submit(p, w, operation)
    PROVE  /\ \A v \in Workers : HasShutdown(v) => HasShutdown(v)'
           /\ operation = "shutdown" /\ IsAlive(w) => HasShutdown(w)'
  <1>1. PICK c \in Cmds :
            queue' = IF IsAlive(w)
                     THEN [queue EXCEPT ![w] = Append(@, [op |-> operation, cmd |-> c])]
                     ELSE queue
    BY DEF Submit
  <1> DEFINE e == [op |-> operation, cmd |-> c]
  <1>2. e \in Command /\ e.op = operation
    BY DEF Command
  <1>3. \A v \in Workers : queue[v] \in Seq(Command)
    BY DEF TypeOK
  <1>4. CASE IsAlive(w)
    <2>1. queue' = [queue EXCEPT ![w] = Append(queue[w], e)]
      BY <1>1, <1>4
    <2>2. queue'[w] = Append(queue[w], e) /\ \A v \in Workers \ {w} : queue'[v] = queue[v]
      BY <2>1 DEF TypeOK
    <2>3. /\ DOMAIN queue[w] = 1 .. Len(queue[w]) /\ Len(queue[w]) \in Nat
          /\ DOMAIN Append(queue[w], e) = 1 .. Len(queue[w]) + 1
          /\ \A i \in 1 .. Len(queue[w]) : Append(queue[w], e)[i] = queue[w][i]
          /\ Append(queue[w], e)[Len(queue[w]) + 1] = e
      BY <1>2, <1>3
    <2>4. HasShutdown(w) => HasShutdown(w)'
      BY <2>2, <2>3 DEF HasShutdown
    <2>5. operation = "shutdown" => HasShutdown(w)'
      <3> SUFFICES ASSUME operation = "shutdown" PROVE HasShutdown(w)'
        OBVIOUS
      <3> DEFINE n == Len(queue[w]) + 1
      <3>1. n \in DOMAIN queue'[w] /\ queue'[w][n] = e
        BY <2>2, <2>3
      <3>2. queue'[w][n].op = "shutdown"
        BY <3>1, <1>2
      <3> QED
        BY <3>1, <3>2 DEF HasShutdown
    <2>6. \A v \in Workers \ {w} : HasShutdown(v) => HasShutdown(v)'
      BY <2>2 DEF HasShutdown
    <2> QED
      BY <2>4, <2>5, <2>6
  <1>5. CASE ~IsAlive(w)
    BY <1>1, <1>5 DEF HasShutdown
  <1> QED
    BY <1>4, <1>5

\* disconnect and _ensure_worker leave no worker that is neither registered nor
\* on its way out; no other call of a caller does.
LEMMA CallersDoom ==
    ASSUME TypeOK, UnregisteredIsDoomed, NEW p \in Callers, Facade(p) \/ Continue(p)
    PROVE  UnregisteredIsDoomed'
  <1> USE NamesAssumption
  <1> SUFFICES ASSUME NEW v \in Workers PROVE Registered(v)' \/ Doomed(v)'
    BY DEF UnregisteredIsDoomed
  <1>1. ASSUME NEW a \in Addresses, NEW state \in {"idle", "dial"}, EnsureWorker(p, a, state)
        PROVE  Registered(v)' \/ Doomed(v)'
    <2>1. /\ pc[p] = "idle" /\ pc' = [pc EXCEPT ![p] = state]
          /\ \A q \in Callers \ {p} : at'[q] = at[q]
          /\ queue' = queue
      BY <1>1 DEF EnsureWorker, Go, TypeOK
    <2>2. (Popped(v) => Popped(v)') /\ (HasShutdown(v) => HasShutdown(v)')
      BY <2>1 DEF Popped, HasShutdown, TypeOK
    <2>3. CASE registry' = registry /\ wpc' = wpc
      BY <2>2, <2>3, StaysDoomed DEF Registered, OnItsWayOut, IsAlive
    <2>4. CASE ~(registry' = registry /\ wpc' = wpc)
      <3>1. PICK w \in Workers :
                /\ registry[a] # NoWorker => ~IsAlive(registry[a])
                /\ registry' = [registry EXCEPT ![a] = w]
                /\ wpc' = [wpc EXCEPT ![w] = "start"]
        BY <1>1, <2>4 DEF EnsureWorker, Move, worker
      <3>2. CASE v = w
        BY <3>1, <3>2 DEF Registered, TypeOK
      <3>3. CASE v # w
        <4>1. wpc'[v] = wpc[v]
          BY <3>1, <3>3 DEF TypeOK
        <4>2. Registered(v) => Registered(v)' \/ OnItsWayOut(v)'
          BY <3>1, <4>1 DEF Registered, OnItsWayOut, IsAlive, TypeOK
        <4>3. OnItsWayOut(v) => OnItsWayOut(v)'
          BY <4>1 DEF OnItsWayOut, IsAlive
        <4> QED
          BY <2>2, <4>2, <4>3, StaysDoomed
      <3> QED
        BY <3>2, <3>3
    <2> QED
      BY <2>3, <2>4
  <1>2. ASSUME NEW a \in Addresses, Pop(p, a)
        PROVE  Registered(v)' \/ Doomed(v)'
    <2>1. /\ pc[p] = "idle" /\ pc' = [pc EXCEPT ![p] = "popped"]
          /\ at' = [at EXCEPT ![p] = registry[a]]
          /\ registry' = [registry EXCEPT ![a] = NoWorker]
          /\ wpc' = wpc /\ queue' = queue
      BY <1>2 DEF Pop, Go, worker
    <2>2. CASE registry[a] = v
      BY <2>1, <2>2 DEF Doomed, TypeOK
    <2>3. CASE registry[a] # v
      <3>1. Registered(v) => Registered(v)'
        BY <2>1, <2>3 DEF Registered, TypeOK
      <3>2. (Popped(v) => Popped(v)') /\ (HasShutdown(v) => HasShutdown(v)')
        BY <2>1 DEF Popped, HasShutdown, TypeOK
      <3>3. OnItsWayOut(v) => OnItsWayOut(v)'
        BY <2>1 DEF OnItsWayOut, IsAlive
      <3> QED
        BY <3>1, <3>2, <3>3, StaysDoomed
    <2> QED
      BY <2>2, <2>3
  <1>3. CASE SubmitShutdown(p)
    <2>1. /\ pc[p] = "popped" /\ pc' = [pc EXCEPT ![p] = "shutdown"]
          /\ at[p] \in Workers /\ Submit(p, at[p], "shutdown")
          /\ at' = at /\ registry' = registry /\ wpc' = wpc
      BY <1>3 DEF SubmitShutdown, Go, worker, TypeOK
    <2>2. /\ HasShutdown(v) => HasShutdown(v)'
          /\ IsAlive(at[p]) => HasShutdown(at[p])'
      BY <2>1, SubmitKeepsShutdown
    <2>3. Popped(v) => Popped(v)' \/ HasShutdown(v)' \/ OnItsWayOut(v)'
      BY <2>1, <2>2 DEF Popped, OnItsWayOut, IsAlive, TypeOK
    <2> QED
      BY <2>1, <2>2, <2>3, StaysDoomed DEF Registered, OnItsWayOut, IsAlive
  <1>4. CASE SubmitGatt(p)
    <2>1. /\ pc[p] = "put" /\ pc' = [pc EXCEPT ![p] = "gatt"]
          /\ at[p] \in Workers /\ Submit(p, at[p], "gatt")
          /\ at' = at /\ registry' = registry /\ wpc' = wpc
      BY <1>4 DEF SubmitGatt, Go, worker, TypeOK
    <2>2. HasShutdown(v) => HasShutdown(v)'
      BY <2>1, SubmitKeepsShutdown
    <2>3. Popped(v) => Popped(v)'
      BY <2>1 DEF Popped, TypeOK
    <2> QED
      BY <2>1, <2>2, <2>3, StaysDoomed DEF Registered, OnItsWayOut, IsAlive
  <1>5. ASSUME \/ \E a \in Addresses : Lookup(p, a)
               \/ StartScan(p) \/ ConnectEnds(p) \/ Require(p) \/ GattEnds(p)
               \/ ShutdownEnds(p) \/ JoinEnds(p) \/ ScanBegins(p) \/ ScanEnds(p)
        PROVE  Registered(v)' \/ Doomed(v)'
    <2>1. registry' = registry /\ wpc' = wpc /\ queue' = queue
      BY <1>5 DEF Lookup, StartScan, ConnectEnds, Require, GattEnds, ShutdownEnds,
                  JoinEnds, ScanBegins, ScanEnds, worker
    <2>2. /\ pc[p] # "popped"
          /\ \A q \in Callers \ {p} : pc'[q] = pc[q] /\ at'[q] = at[q]
      BY <1>5 DEF Lookup, StartScan, ConnectEnds, Require, GattEnds, ShutdownEnds,
                  JoinEnds, ScanBegins, ScanEnds, Go, Return, TypeOK
    <2>3. Popped(v) => Popped(v)'
      BY <2>2 DEF Popped
    <2> QED
      BY <2>1, <2>3, StaysDoomed DEF Registered, OnItsWayOut, IsAlive, HasShutdown
  <1> QED
    BY <1>1, <1>2, <1>3, <1>4, <1>5 DEF Facade, Continue, EnsureConnecting, Connect

\* A worker loses the shutdown in its queue only by obeying it or by draining.
LEMMA WorkersStayDoomed ==
    ASSUME TypeOK, UnregisteredIsDoomed, NEW w \in Workers, Run(w) \/ LinkLost(w)
    PROVE  UnregisteredIsDoomed'
  <1> SUFFICES ASSUME NEW v \in Workers PROVE Registered(v)' \/ Doomed(v)'
    BY DEF UnregisteredIsDoomed
  <1>1. registry' = registry /\ pc' = pc /\ at' = at
    BY DEF Run, LinkLost, AcquireAdapter, DialSucceeds, DialFails, Announce, HandleGatt,
           HandleShutdown, Poll, PollEnds, LossNoticed, PollRaises, DrainOne, DrainEnds,
           ClearConnected, Exit, caller
  <1>2. (Registered(v) => Registered(v)') /\ (Popped(v) => Popped(v)')
    BY <1>1 DEF Registered, Popped
  <1>3. CASE AcquireAdapter(w) \/ DialSucceeds(w) \/ Announce(w) \/ Poll(w) \/ PollEnds(w)
    <2>1. queue' = queue /\ (OnItsWayOut(v) => OnItsWayOut(v)')
      BY <1>3 DEF AcquireAdapter, DialSucceeds, Announce, Poll, PollEnds, Move,
                  OnItsWayOut, IsAlive, TypeOK
    <2> QED
      BY <1>2, <2>1, StaysDoomed DEF HasShutdown
  <1>4. CASE LinkLost(w)
    <2>1. queue' = queue /\ wpc' = wpc
      BY <1>4 DEF LinkLost
    <2> QED
      BY <1>2, <2>1, StaysDoomed DEF HasShutdown, OnItsWayOut, IsAlive
  <1>5. CASE \/ DialFails(w) \/ HandleShutdown(w) \/ LossNoticed(w) \/ PollRaises(w)
             \/ DrainEnds(w) \/ ClearConnected(w) \/ Exit(w) \/ DrainOne(w)
    <2>1. CASE v = w
      <3>1. OnItsWayOut(w)'
        BY <1>5 DEF DialFails, HandleShutdown, LossNoticed, PollRaises, DrainEnds,
                    ClearConnected, Exit, DrainOne, Move, worker, OnItsWayOut, IsAlive, TypeOK
      <3> QED
        BY <2>1, <3>1 DEF OnItsWayOut, Doomed
    <2>2. CASE v # w
      <3>1. queue'[v] = queue[v] /\ wpc'[v] = wpc[v]
        BY <1>5, <2>2 DEF DialFails, HandleShutdown, LossNoticed, PollRaises, DrainEnds,
                    ClearConnected, Exit, DrainOne, Move, worker, Resolve, TypeOK
      <3> QED
        BY <1>2, <3>1, StaysDoomed DEF HasShutdown, OnItsWayOut, IsAlive
    <2> QED
      BY <2>1, <2>2
  <1>6. CASE HandleGatt(w)
    <2>1. /\ wpc' = wpc /\ queue[w] # <<>> /\ Head(queue[w]).op = "gatt"
          /\ queue' = [queue EXCEPT ![w] = Tail(@)]
      BY <1>6 DEF HandleGatt, Resolve, worker
    <2>2. HasShutdown(v) => HasShutdown(v)'
      <3>1. CASE v = w
        <4>1. queue[w] \in Seq(Command) /\ queue'[w] = Tail(queue[w])
          BY <2>1 DEF TypeOK
        <4>2. /\ Tail(queue[w]) \in Seq(Command)
              /\ Len(queue[w]) \in Nat /\ Len(queue[w]) >= 1
              /\ Len(Tail(queue[w])) = Len(queue[w]) - 1
              /\ \A i \in 1 .. Len(queue[w]) - 1 : Tail(queue[w])[i] = queue[w][i + 1]
              /\ Head(queue[w]) = queue[w][1]
          BY <2>1, <4>1, QueueEnds
        <4> SUFFICES ASSUME NEW i \in DOMAIN queue[w], queue[w][i].op = "shutdown"
                     PROVE  HasShutdown(w)'
          BY <3>1 DEF HasShutdown
        <4>3. i \in 1 .. Len(queue[w]) /\ i # 1
          BY <2>1, <4>1, <4>2
        <4>4. /\ i - 1 \in 1 .. Len(queue[w]) - 1
              /\ Tail(queue[w])[i - 1] = queue[w][i]
          BY <4>2, <4>3
        <4>5. i - 1 \in DOMAIN queue'[w] /\ queue'[w][i - 1].op = "shutdown"
          BY <4>1, <4>2, <4>4
        <4> QED
          BY <4>5 DEF HasShutdown
      <3>2. CASE v # w
        BY <2>1, <3>2 DEF HasShutdown, TypeOK
      <3> QED
        BY <3>1, <3>2
    <2> QED
      BY <1>2, <2>1, <2>2, StaysDoomed DEF OnItsWayOut, IsAlive
  <1> QED
    BY <1>3, <1>4, <1>5, <1>6 DEF Run

\* A worker thread the registry does not know is on its way out: no sequence of
\* connects, disconnects, losses and failures leaves a link that nobody can reach.
THEOREM UnregisteredAreDoomed == Spec => []UnregisteredIsDoomed
  <1>1. Init => UnregisteredIsDoomed
    BY DEF Init, UnregisteredIsDoomed, Doomed, IsAlive
  <1>2. TypeOK /\ UnregisteredIsDoomed /\ [Next]_vars => UnregisteredIsDoomed'
    <2> SUFFICES ASSUME TypeOK, UnregisteredIsDoomed, [Next]_vars
                 PROVE  UnregisteredIsDoomed'
      OBVIOUS
    <2>1. CASE UNCHANGED vars
      BY <2>1 DEF UnregisteredIsDoomed, Doomed, Registered, IsAlive, vars, worker, caller
    <2> QED
      BY <2>1, CallersDoom, WorkersStayDoomed DEF Next
  <1> QED
    BY <1>1, <1>2, TypeCorrect, PTL DEF Spec

-----------------------------------------------------------------------------
(* Pending futures *)

Waiting(p)  == pc[p] \in {"gatt", "shutdown"}
Answered(p) == fut[mine[p]] # "pending" \/ ~IsAlive(at[p])

\* PendingIsQueued, of one caller.
Awaits(p) == Waiting(p) => Answered(p) \/ Queued(mine[p], at[p])

\* A caller that does not move is served as before when its worker does not come
\* back to life and its command goes only with an answer.
LEMMA StaysQueued ==
    ASSUME NEW p \in Callers, Awaits(p),
           pc'[p] = pc[p], at'[p] = at[p], mine'[p] = mine[p],
           Waiting(p) /\ Answered(p) => Answered(p)',
           Waiting(p) /\ Queued(mine[p], at[p]) => Answered(p)' \/ Queued(mine[p], at[p])'
    PROVE  Awaits(p)'
  BY DEF Awaits, Waiting, Answered, Queued, IsAlive

\* The oldest command goes, with an answer; the others stay.
LEMMA ResolveAnswers ==
    ASSUME TypeOK, NEW w \in Workers, queue[w] # <<>>,
           NEW outcome \in {"ok", "error"}, Resolve(w, outcome),
           NEW c \in Cmds
    PROVE  /\ fut[c] # "pending" => fut'[c] # "pending"
           /\ \A v \in Workers : Queued(c, v) => fut'[c] # "pending" \/ Queued(c, v)'
  <1>1. /\ queue' = [queue EXCEPT ![w] = Tail(queue[w])]
        /\ fut' = [fut EXCEPT ![Head(queue[w]).cmd] = outcome]
    BY DEF Resolve
  <1>2. queue[w] \in Seq(Command)
    BY DEF TypeOK
  <1>3. /\ Head(queue[w]) \in Command
        /\ Tail(queue[w]) \in Seq(Command)
        /\ Len(queue[w]) \in Nat /\ Len(queue[w]) >= 1
        /\ Len(Tail(queue[w])) = Len(queue[w]) - 1
        /\ \A i \in 1 .. Len(queue[w]) - 1 : Tail(queue[w])[i] = queue[w][i + 1]
        /\ Head(queue[w]) = queue[w][1]
    BY <1>2, QueueEnds
  <1>4. Head(queue[w]).cmd \in Cmds
    BY <1>3 DEF Command
  <1>5. fut[c] # "pending" => fut'[c] # "pending"
    BY <1>1, <1>4 DEF TypeOK
  <1>6. ASSUME NEW v \in Workers, Queued(c, v), fut'[c] = "pending"
        PROVE  Queued(c, v)'
    <2>1. Head(queue[w]).cmd # c
      BY <1>1, <1>4, <1>6 DEF TypeOK
    <2>2. CASE v = w
      <3>1. PICK i \in DOMAIN queue[w] : queue[w][i].cmd = c
        BY <1>6, <2>2 DEF Queued
      <3>2. i \in 1 .. Len(queue[w]) /\ i # 1
        BY <1>2, <1>3, <2>1, <3>1
      <3>3. i - 1 \in DOMAIN Tail(queue[w]) /\ Tail(queue[w])[i - 1] = queue[w][i]
        BY <1>3, <3>2
      <3>4. queue'[w] = Tail(queue[w])
        BY <1>1 DEF TypeOK
      <3>5. i - 1 \in DOMAIN queue'[w] /\ queue'[w][i - 1].cmd = c
        BY <3>1, <3>3, <3>4
      <3> QED
        BY <2>2, <3>5 DEF Queued
    <2>3. CASE v # w
      BY <1>1, <1>6, <2>3 DEF Queued, TypeOK
    <2> QED
      BY <2>2, <2>3
  <1> QED
    BY <1>5, <1>6

\* submit puts the new command where its caller waits for it and disturbs no other
\* caller: the name it gives the command is nobody else's.
LEMMA SubmitIsQueued ==
    ASSUME TypeOK, NEW p \in Callers, NEW operation \in {"gatt", "shutdown"},
           at[p] \in Workers, Submit(p, at[p], operation)
    PROVE  /\ IsAlive(at[p]) => Queued(mine[p], at[p])' \/ at'[p] # at[p]
           /\ \A q \in Callers \ {p} :
                 /\ mine'[q] = mine[q]
                 /\ mine[q] \in Cmds => fut'[mine[q]] = fut[mine[q]]
           /\ \A c \in Cmds, v \in Workers :
                 (\E i \in DOMAIN queue[v] : queue[v][i].cmd = c)
                    => \E i \in DOMAIN queue'[v] : queue'[v][i].cmd = c
  <1>1. PICK c \in Cmds :
            /\ FreeCmd(c)
            /\ fut' = [fut EXCEPT ![c] = "pending"]
            /\ queue' = IF IsAlive(at[p])
                        THEN [queue EXCEPT ![at[p]] =
                                  Append(@, [op |-> operation, cmd |-> c])]
                        ELSE queue
            /\ mine' = [mine EXCEPT ![p] = c]
    BY DEF Submit
  <1> DEFINE w == at[p]
             e == [op |-> operation, cmd |-> c]
  <1>2. e \in Command /\ e.cmd = c
    BY DEF Command
  <1>3. queue[w] \in Seq(Command)
    BY DEF TypeOK
  <1>4. /\ DOMAIN queue[w] = 1 .. Len(queue[w]) /\ Len(queue[w]) \in Nat
        /\ DOMAIN Append(queue[w], e) = 1 .. Len(queue[w]) + 1
        /\ \A i \in 1 .. Len(queue[w]) : Append(queue[w], e)[i] = queue[w][i]
        /\ Append(queue[w], e)[Len(queue[w]) + 1] = e
    BY <1>2, <1>3
  <1>5. \A q \in Callers \ {p} :
            /\ mine'[q] = mine[q]
            /\ mine[q] \in Cmds => fut'[mine[q]] = fut[mine[q]]
    BY <1>1 DEF FreeCmd, TypeOK
  <1>6. CASE IsAlive(w)
    <2>1. queue' = [queue EXCEPT ![w] = Append(queue[w], e)]
      BY <1>1, <1>6
    <2>2. queue'[w] = Append(queue[w], e) /\ \A v \in Workers \ {w} : queue'[v] = queue[v]
      BY <2>1 DEF TypeOK
    <2> DEFINE n == Len(queue[w]) + 1
    <2>3. n \in DOMAIN queue'[w] /\ queue'[w][n].cmd = c /\ mine'[p] = c
      BY <1>1, <1>2, <1>4, <2>2 DEF TypeOK
    <2>4. Queued(mine[p], at[p])' \/ at'[p] # at[p]
      BY <2>3 DEF Queued
    <2>5. \A d \in Cmds, v \in Workers :
              (\E i \in DOMAIN queue[v] : queue[v][i].cmd = d)
                 => \E i \in DOMAIN queue'[v] : queue'[v][i].cmd = d
      BY <1>4, <2>2
    <2> QED
      BY <1>5, <2>4, <2>5
  <1>7. CASE ~IsAlive(w)
    BY <1>1, <1>5, <1>7
  <1> QED
    BY <1>6, <1>7

\* Every call leaves the waiting callers' commands where they are.
LEMMA CallersKeepPending ==
    ASSUME TypeOK, PendingIsQueued, NEW p \in Callers, Facade(p) \/ Continue(p)
    PROVE  PendingIsQueued'
  <1> USE NamesAssumption
  <1> SUFFICES ASSUME NEW q \in Callers PROVE Awaits(q)'
    BY DEF PendingIsQueued, Awaits, Waiting, Answered
  <1>1. Awaits(q)
    BY DEF PendingIsQueued, Awaits, Waiting, Answered
  <1>2. ASSUME NEW a \in Addresses, NEW state \in {"idle", "dial"}, EnsureWorker(p, a, state)
        PROVE  Awaits(q)'
    <2>1. /\ pc[p] = "idle" /\ pc' = [pc EXCEPT ![p] = state]
          /\ \A r \in Callers \ {p} : at'[r] = at[r]
          /\ queue' = queue /\ fut' = fut /\ mine' = mine
      BY <1>2 DEF EnsureWorker, Go, TypeOK
    <2>2. CASE q = p
      BY <2>1, <2>2 DEF Awaits, Waiting, TypeOK
    <2>3. CASE q # p
      <3>1. pc'[q] = pc[q] /\ at'[q] = at[q]
        BY <2>1, <2>3 DEF TypeOK
      <3>2. wpc' = wpc \/ \E w \in Workers :
                /\ \A r \in Callers : at[r] # w
                /\ wpc' = [wpc EXCEPT ![w] = "start"]
        BY <1>2 DEF EnsureWorker, FreeWorker, Move, worker
      <3>3. Waiting(q) => wpc'[at[q]] = wpc[at[q]]
        BY <3>2 DEF Waiting, TypeOK
      <3>4. Waiting(q) /\ Answered(q) => Answered(q)'
        BY <2>1, <3>1, <3>3 DEF Answered, IsAlive
      <3>5. Queued(mine[q], at[q]) => Queued(mine[q], at[q])'
        BY <2>1, <3>1 DEF Queued
      <3> QED
        BY <1>1, <2>1, <3>1, <3>4, <3>5, StaysQueued
    <2> QED
      BY <2>2, <2>3
  <1>3. ASSUME NEW operation \in {"gatt", "shutdown"}, Submit(p, at[p], operation),
               at[p] \in Workers, at' = at, wpc' = wpc,
               \A r \in Callers \ {p} : pc'[r] = pc[r]
        PROVE  Awaits(q)'
    <2>1. /\ IsAlive(at[p]) => Queued(mine[p], at[p])'
          /\ \A r \in Callers \ {p} :
                /\ mine'[r] = mine[r]
                /\ mine[r] \in Cmds => fut'[mine[r]] = fut[mine[r]]
          /\ \A c \in Cmds, v \in Workers :
                (\E i \in DOMAIN queue[v] : queue[v][i].cmd = c)
                   => \E i \in DOMAIN queue'[v] : queue'[v][i].cmd = c
      BY <1>3, SubmitIsQueued
    <2>2. CASE q = p
      BY <1>3, <2>1, <2>2 DEF Awaits, Answered, IsAlive
    <2>3. CASE q # p
      <3>1. /\ pc'[q] = pc[q] /\ at'[q] = at[q] /\ mine'[q] = mine[q]
            /\ Waiting(q) => mine[q] \in Cmds /\ at[q] \in Workers
        BY <1>3, <2>1, <2>3 DEF Waiting, TypeOK
      <3>2. Waiting(q) /\ Answered(q) => Answered(q)'
        BY <1>3, <2>1, <2>3, <3>1 DEF Answered, IsAlive
      <3>3. Waiting(q) /\ Queued(mine[q], at[q]) => Queued(mine[q], at[q])'
        BY <2>1, <3>1 DEF Queued
      <3> QED
        BY <1>1, <3>1, <3>2, <3>3, StaysQueued
    <2> QED
      BY <2>2, <2>3
  <1>4. CASE SubmitGatt(p)
    <2>1. /\ Submit(p, at[p], "gatt") /\ at[p] \in Workers /\ at' = at /\ wpc' = wpc
          /\ \A r \in Callers \ {p} : pc'[r] = pc[r]
      BY <1>4 DEF SubmitGatt, Go, worker, TypeOK
    <2> QED
      BY <2>1, <1>3
  <1>5. CASE SubmitShutdown(p)
    <2>1. /\ Submit(p, at[p], "shutdown") /\ at[p] \in Workers /\ at' = at /\ wpc' = wpc
          /\ \A r \in Callers \ {p} : pc'[r] = pc[r]
      BY <1>5 DEF SubmitShutdown, Go, worker, TypeOK
    <2> QED
      BY <2>1, <1>3
  <1>6. ASSUME \/ \E a \in Addresses : Lookup(p, a) \/ Pop(p, a)
               \/ StartScan(p) \/ ConnectEnds(p) \/ Require(p) \/ GattEnds(p)
               \/ ShutdownEnds(p) \/ JoinEnds(p) \/ ScanBegins(p) \/ ScanEnds(p)
        PROVE  Awaits(q)'
    <2>1. /\ wpc' = wpc /\ queue' = queue /\ fut' = fut
          /\ pc'[p] \notin {"gatt", "shutdown"}
          /\ \A r \in Callers \ {p} : pc'[r] = pc[r] /\ at'[r] = at[r] /\ mine'[r] = mine[r]
      BY <1>6 DEF Lookup, Pop, StartScan, ConnectEnds, Require, GattEnds, ShutdownEnds,
                  JoinEnds, ScanBegins, ScanEnds, Go, Return, worker, TypeOK
    <2>2. CASE q = p
      BY <2>1, <2>2 DEF Awaits, Waiting
    <2>3. CASE q # p
      <3>1. pc'[q] = pc[q] /\ at'[q] = at[q] /\ mine'[q] = mine[q]
        BY <2>1, <2>3
      <3>2. /\ Answered(q) => Answered(q)'
            /\ Queued(mine[q], at[q]) => Queued(mine[q], at[q])'
        BY <2>1, <3>1 DEF Answered, IsAlive, Queued
      <3> QED
        BY <1>1, <3>1, <3>2, StaysQueued
    <2> QED
      BY <2>2, <2>3
  <1> QED
    BY <1>2, <1>4, <1>5, <1>6 DEF Facade, Continue, EnsureConnecting, Connect

\* A worker answers each command it takes off its queue, until it ends.
LEMMA WorkersKeepPending ==
    ASSUME TypeOK, PendingIsQueued, NEW w \in Workers, Run(w) \/ LinkLost(w)
    PROVE  PendingIsQueued'
  <1> SUFFICES ASSUME NEW q \in Callers PROVE Awaits(q)'
    BY DEF PendingIsQueued, Awaits, Waiting, Answered
  <1>1. Awaits(q)
    BY DEF PendingIsQueued, Awaits, Waiting, Answered
  <1>2. /\ pc' = pc /\ at' = at /\ mine' = mine
        /\ Waiting(q) => mine[q] \in Cmds /\ at[q] \in Workers
    BY DEF Run, LinkLost, AcquireAdapter, DialSucceeds, DialFails, Announce, HandleGatt,
           HandleShutdown, Poll, PollEnds, LossNoticed, PollRaises, DrainOne, DrainEnds,
           ClearConnected, Exit, caller, Waiting, TypeOK
  <1>3. \A v \in Workers : ~IsAlive(v) => ~IsAlive(v)'
    BY DEF Run, LinkLost, AcquireAdapter, DialSucceeds, DialFails, Announce, HandleGatt,
           HandleShutdown, Poll, PollEnds, LossNoticed, PollRaises, DrainOne, DrainEnds,
           ClearConnected, Exit, Move, worker, IsAlive, TypeOK
  <1>4. CASE \/ AcquireAdapter(w) \/ DialSucceeds(w) \/ DialFails(w) \/ Announce(w)
             \/ Poll(w) \/ PollEnds(w) \/ LossNoticed(w) \/ PollRaises(w)
             \/ DrainEnds(w) \/ ClearConnected(w) \/ LinkLost(w)
    <2>1. queue' = queue /\ fut' = fut
      BY <1>4 DEF AcquireAdapter, DialSucceeds, DialFails, Announce, Poll, PollEnds,
                  LossNoticed, PollRaises, DrainEnds, ClearConnected, LinkLost
    <2>2. /\ Waiting(q) /\ Answered(q) => Answered(q)'
          /\ Queued(mine[q], at[q]) => Queued(mine[q], at[q])'
      BY <1>2, <1>3, <2>1 DEF Answered, Queued
    <2> QED
      BY <1>1, <1>2, <2>2, StaysQueued
  <1>5. CASE HandleGatt(w) \/ HandleShutdown(w) \/ DrainOne(w)
    <2>1. PICK outcome \in {"ok", "error"} : queue[w] # <<>> /\ Resolve(w, outcome)
      BY <1>5 DEF HandleGatt, HandleShutdown, DrainOne
    <2>2. ASSUME NEW c \in Cmds
          PROVE  /\ fut[c] # "pending" => fut'[c] # "pending"
                 /\ \A v \in Workers : Queued(c, v) => fut'[c] # "pending" \/ Queued(c, v)'
      BY <2>1, ResolveAnswers
    <2>3. Waiting(q) /\ Answered(q) => Answered(q)'
      BY <1>2, <1>3, <2>2 DEF Answered
    <2>4. Waiting(q) /\ Queued(mine[q], at[q]) => Answered(q)' \/ Queued(mine[q], at[q])'
      BY <1>2, <2>2 DEF Answered, Queued
    <2> QED
      BY <1>1, <1>2, <2>3, <2>4, StaysQueued
  <1>6. CASE Exit(w)
    <2>1. fut' = fut /\ ~IsAlive(w)' /\ \A v \in Workers \ {w} : queue'[v] = queue[v]
      BY <1>6 DEF Exit, Move, IsAlive, TypeOK
    <2>2. Waiting(q) /\ Answered(q) => Answered(q)'
      BY <1>2, <1>3, <2>1 DEF Answered
    <2>3. Waiting(q) /\ Queued(mine[q], at[q]) => Answered(q)' \/ Queued(mine[q], at[q])'
      BY <1>2, <2>1 DEF Answered, Queued
    <2> QED
      BY <1>1, <1>2, <2>2, <2>3, StaysQueued
  <1> QED
    BY <1>4, <1>5, <1>6 DEF Run

\* A pending future a caller waits for belongs to a command in the queue of its
\* worker, as long as the worker lives: none is taken off a queue and forgotten.
THEOREM PendingAreQueued == Spec => []PendingIsQueued
  <1>1. Init => PendingIsQueued
    BY DEF Init, PendingIsQueued
  <1>2. TypeOK /\ PendingIsQueued /\ [Next]_vars => PendingIsQueued'
    <2> SUFFICES ASSUME TypeOK, PendingIsQueued, [Next]_vars PROVE PendingIsQueued'
      OBVIOUS
    <2>1. CASE UNCHANGED vars
      BY <2>1 DEF PendingIsQueued, Queued, IsAlive, vars, worker, caller
    <2> QED
      BY <2>1, CallersKeepPending, WorkersKeepPending DEF Next
  <1> QED
    BY <1>1, <1>2, TypeCorrect, PTL DEF Spec

-----------------------------------------------------------------------------
(* The links *)

\* A worker is registered for one address at most.
OneAddress == \A a, b \in Addresses : registry[a] = registry[b] /\ registry[a] # NoWorker => a = b

\* What a worker on its way through run looks like from outside.
LEMMA Phases ==
    ASSUME TypeOK, NEW w \in Workers
    PROVE  /\ wpc[w] \in {"unborn", "exited"} => LinkOf(w) = "none"
           /\ wpc[w] \in {"start", "dialling", "ready"} => LinkOf(w) = "connecting"
           /\ wpc[w] \in {"serve", "poll", "draining", "leaving"} => LinkOf(w) = "up"
           /\ wpc[w] \in {"hangup", "failing"} => LinkOf(w) = "closing"
           /\ LinkOf(NoWorker) = "none"
  BY NamesAssumption DEF LinkOf, IsAlive, IsConnected

\* A caller asks for a link or gives one up, or changes nothing others can see.
LEMMA CallersKeepToLinks ==
    ASSUME TypeOK, TypeOK', OneAddress, NEW p \in Callers, Facade(p) \/ Continue(p)
    PROVE  OneAddress' /\ [Shown!Next]_Seen
  <1> USE NamesAssumption
  <1> USE DEF Shown!Next, Shown!Ask, Shown!Forget, Shown!Becomes
  <1>1. ASSUME registry' = registry, wpc' = wpc
        PROVE  OneAddress' /\ Seen' = Seen
    <2>1. \A a \in Addresses : LinkOf(registry[a])' = LinkOf(registry[a])
      BY <1>1 DEF LinkOf, IsAlive, IsConnected
    <2> QED
      BY <1>1, <2>1 DEF OneAddress, Seen
  <1>2. ASSUME NEW a \in Addresses, NEW state \in {"idle", "dial"}, EnsureWorker(p, a, state)
        PROVE  OneAddress' /\ [Shown!Next]_Seen
    <2>1. CASE registry[a] # NoWorker /\ IsAlive(registry[a])
      BY <1>1, <1>2, <2>1 DEF EnsureWorker, worker
    <2>2. CASE ~(registry[a] # NoWorker /\ IsAlive(registry[a]))
      <3>1. PICK w \in Workers : /\ FreeWorker(w)
                                 /\ registry' = [registry EXCEPT ![a] = w]
                                 /\ wpc' = [wpc EXCEPT ![w] = "start"]
        BY <1>2, <2>2 DEF EnsureWorker, Move
      <3>2. \A b \in Addresses : registry[b] # w
        BY <3>1 DEF FreeWorker, Registered
      <3>3. registry'[a] = w /\ \A b \in Addresses \ {a} : registry'[b] = registry[b]
        BY <3>1 DEF TypeOK
      <3>4. Seen[a] = "none"
        <4>1. CASE registry[a] = NoWorker
          BY <4>1, Phases, <3>1 DEF Seen
        <4>2. CASE registry[a] # NoWorker
          <5>1. registry[a] \in Workers /\ wpc[registry[a]] \in {"unborn", "exited"}
            BY <2>2, <4>2 DEF IsAlive, TypeOK
          <5> QED
            BY <5>1, Phases DEF Seen
        <4> QED
          BY <4>1, <4>2
      <3>5. Seen'[a] = "connecting"
        <4>1. registry'[a] \in Workers /\ wpc'[registry'[a]] = "start"
          BY <3>1, <3>3 DEF TypeOK
        <4>2. LinkOf(registry[a])' = "connecting"
          BY <4>1 DEF LinkOf, IsAlive, IsConnected
        <4> QED
          BY <4>2 DEF Seen
      <3>6. ASSUME NEW b \in Addresses \ {a} PROVE Seen'[b] = Seen[b]
        <4>1. registry[b] \in Workers => wpc'[registry[b]] = wpc[registry[b]]
          BY <3>1, <3>2 DEF TypeOK
        <4>2. LinkOf(registry[b])' = LinkOf(registry[b])
          BY <3>3, <4>1 DEF LinkOf, IsAlive, IsConnected, TypeOK
        <4> QED
          BY <4>2 DEF Seen
      <3>7. Seen' = [Seen EXCEPT ![a] = "connecting"]
        BY <3>5, <3>6 DEF Seen
      <3>8. OneAddress'
        BY <3>2, <3>3 DEF OneAddress
      <3>9. Shown!Ask(a)
        BY <3>4, <3>7
      <3> QED
        BY <3>8, <3>9
    <2> QED
      BY <2>1, <2>2
  <1>3. ASSUME NEW a \in Addresses, Pop(p, a)
        PROVE  OneAddress' /\ [Shown!Next]_Seen
    <2>1. registry' = [registry EXCEPT ![a] = NoWorker] /\ wpc' = wpc
      BY <1>3 DEF Pop, worker
    <2>2. registry'[a] = NoWorker /\ \A b \in Addresses \ {a} : registry'[b] = registry[b]
      BY <2>1 DEF TypeOK
    <2>3. Seen'[a] = "none"
      BY <2>2 DEF Seen, LinkOf
    <2>4. \A b \in Addresses \ {a} : LinkOf(registry[b])' = LinkOf(registry[b])
      BY <2>1, <2>2 DEF LinkOf, IsAlive, IsConnected
    <2>5. Seen' = [Seen EXCEPT ![a] = "none"]
      BY <2>3, <2>4 DEF Seen
    <2>6. registry[a] \in Workers
      BY <1>3 DEF Pop, TypeOK
    <2>7. Seen[a] \in {"none", "connecting", "up", "closing"}
      BY <2>6, Phases DEF Seen, TypeOK, WorkerStates
    <2>8. Seen[a] = "none" => Seen' = Seen
      BY <2>5 DEF Seen
    <2> QED
      BY <2>2, <2>5, <2>7, <2>8 DEF OneAddress
  <1>4. CASE StartScan(p) \/ Continue(p) \/ \E a \in Addresses : Lookup(p, a)
    BY <1>1, <1>4 DEF StartScan, Lookup, Continue, ConnectEnds, Require, SubmitGatt, GattEnds,
                      SubmitShutdown, ShutdownEnds, JoinEnds, ScanBegins, ScanEnds, worker
  <1> QED
    BY <1>2, <1>3, <1>4 DEF Facade, EnsureConnecting, Connect

\* A worker that is registered takes the link of its one address a step further.
LEMMA WorkersKeepToLinks ==
    ASSUME TypeOK, TypeOK', OneAddress, NEW w \in Workers, Run(w) \/ LinkLost(w)
    PROVE  OneAddress' /\ [Shown!Next]_Seen
  <1> USE NamesAssumption
  <1>1. registry' = registry
    BY DEF Run, LinkLost, AcquireAdapter, DialSucceeds, DialFails, Announce, HandleGatt,
           HandleShutdown, Poll, PollEnds, LossNoticed, PollRaises, DrainOne, DrainEnds,
           ClearConnected, Exit
  <1>2. \A v \in Workers \ {w} : wpc'[v] = wpc[v]
    BY DEF Run, LinkLost, AcquireAdapter, DialSucceeds, DialFails, Announce, HandleGatt,
           HandleShutdown, Poll, PollEnds, LossNoticed, PollRaises, DrainOne, DrainEnds,
           ClearConnected, Exit, Move, worker, TypeOK
  <1>3. \A b \in Addresses : registry[b] # w => LinkOf(registry[b])' = LinkOf(registry[b])
    BY <1>1, <1>2 DEF LinkOf, IsAlive, IsConnected, TypeOK
  <1>4. \/ wpc[w] \in {"start", "dialling", "ready"} /\ wpc'[w] \in {"dialling", "ready", "failing", "serve"}
        \/ wpc[w] \in {"serve", "poll", "draining"} /\ wpc'[w] \in {"serve", "poll", "draining", "leaving"}
        \/ wpc[w] = "leaving" /\ wpc'[w] = "hangup"
        \/ wpc[w] \in {"hangup", "failing"} /\ wpc'[w] = "exited"
        \/ wpc'[w] = wpc[w]
    BY DEF Run, LinkLost, AcquireAdapter, DialSucceeds, DialFails, Announce, HandleGatt,
           HandleShutdown, Poll, PollEnds, LossNoticed, PollRaises, DrainOne, DrainEnds,
           ClearConnected, Exit, Move, worker, TypeOK
  <1>5. LET old == LinkOf(w)  new == LinkOf(w)'
        IN  \/ old = new
            \/ old = "connecting" /\ new \in {"up", "closing"}
            \/ old = "up" /\ new = "closing"
            \/ old = "closing" /\ new = "none"
    BY <1>4 DEF LinkOf, IsAlive, IsConnected, TypeOK
  <1>6. CASE \A a \in Addresses : registry[a] # w
    BY <1>1, <1>3, <1>6 DEF Seen, OneAddress
  <1>7. ASSUME NEW a \in Addresses, registry[a] = w
        PROVE  [Shown!Next]_Seen
    <2>1. \A b \in Addresses \ {a} : registry[b] # w
      BY <1>7 DEF OneAddress
    <2>2. Seen[a] = LinkOf(w) /\ Seen'[a] = LinkOf(w)'
      BY <1>1, <1>7 DEF Seen, LinkOf, IsAlive, IsConnected
    <2>3. \A b \in Addresses \ {a} : Seen'[b] = Seen[b]
      BY <1>3, <2>1 DEF Seen
    <2>4. Seen' = [Seen EXCEPT ![a] = Seen'[a]]
      BY <2>3 DEF Seen
    <2>5. Seen'[a] = Seen[a] => Seen' = Seen
      BY <2>3 DEF Seen
    <2> QED
      BY <1>5, <2>2, <2>4, <2>5
         DEF Shown!Next, Shown!Answer, Shown!Fail, Shown!Lose, Shown!Forget, Shown!Becomes
  <1> QED
    BY <1>1, <1>6, <1>7 DEF OneAddress

\* Through the registry each address shows the life of one link, for every number of
\* callers, workers and addresses: BluepyManager implements Links.
THEOREM ManagerImplementsLinks == Spec => ImplementsLinks
  <1>1. Init => OneAddress /\ Shown!Init
    BY NamesAssumption DEF Init, OneAddress, Seen, Shown!Init, Shown!States, LinkOf
  <1>2. TypeOK /\ TypeOK' /\ OneAddress /\ [Next]_vars => OneAddress' /\ [Shown!Next]_Seen
    <2> SUFFICES ASSUME TypeOK, TypeOK', OneAddress, [Next]_vars
                 PROVE  OneAddress' /\ [Shown!Next]_Seen
      OBVIOUS
    <2>1. CASE UNCHANGED vars
      BY <2>1 DEF OneAddress, Seen, LinkOf, IsAlive, IsConnected, vars, worker
    <2> QED
      BY <2>1, CallersKeepToLinks, WorkersKeepToLinks DEF Next
  <1> QED
    BY <1>1, <1>2, TypeCorrect, PTL DEF Spec, ImplementsLinks, Shown!Spec
=============================================================================
