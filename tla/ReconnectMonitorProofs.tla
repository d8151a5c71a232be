---------------------- MODULE ReconnectMonitorProofs -----------------------
(* Proofs about ReconnectMonitor, for all addresses, ids and backoff constants. *)
EXTENDS ReconnectMonitor, TLAPS

USE MaxIdAssumption, BackoffAssumption, ElapsedAssumption

\* min(backoff * factor, cap) stays between the backoff it lengthens and the cap.
LEMMA LongerType ==
    ASSUME NEW b \in 0 .. Cap
    PROVE  /\ Longer(b) \in 0 .. Cap
           /\ b <= Longer(b)
<1>1. b * Factor \in Nat /\ b <= b * Factor
    <2>1. PICK f \in Nat : Factor = f + 1
        BY Factor - 1 \in Nat
    <2>2. b * Factor = b * f + b /\ b * f \in Nat
        BY <2>1
    <2> QED BY <2>2
<1> QED BY <1>1 DEF Longer, Smaller

\* Time only ever shortens a wait.
LEMMA LeftType ==
    ASSUME NEW w \in 0 .. Cap, NEW d \in Elapsed
    PROVE  Left(w, d) \in 0 .. w
BY DEF Left

\* An update of the bookkeeping of one address keeps its type.
LEMMA RecordType ==
    ASSUME MonTypeOK, NEW a \in Addresses,
           NEW s \in Statuses \cup {"none", "absent"}, NEW b \in 0 .. Cap, NEW w \in 0 .. Cap,
           NEW sub \in BOOLEAN, Record(a, s, b, w, sub)
    PROVE  MonTypeOK'
<1>1. /\ status' \in [Addresses -> Statuses \cup {"none", "absent"}]
      /\ backoff' \in [Addresses -> 0 .. Cap]
      /\ wait' \in [Addresses -> 0 .. Cap]
    BY DEF MonTypeOK, Record
<1>2. subscribed' \in [Addresses -> BOOLEAN]
    BY Zenon DEF MonTypeOK, Record
<1> QED BY <1>1, <1>2 DEF MonTypeOK

\* So does one that leaves `subscribed` as it is.
LEMMA RecordKeepingType ==
    ASSUME MonTypeOK, NEW a \in Addresses,
           NEW s \in Statuses \cup {"none", "absent"}, NEW b \in 0 .. Cap, NEW w \in 0 .. Cap,
           Record(a, s, b, w, subscribed[a])
    PROVE  MonTypeOK'
<1>1. subscribed[a] \in BOOLEAN
    BY Zenon DEF MonTypeOK
<1>2. subscribed' \in [Addresses -> BOOLEAN]
    BY <1>1, Zenon DEF MonTypeOK, Record
<1>3. /\ status' \in [Addresses -> Statuses \cup {"none", "absent"}]
      /\ backoff' \in [Addresses -> 0 .. Cap]
      /\ wait' \in [Addresses -> 0 .. Cap]
    BY DEF MonTypeOK, Record
<1> QED BY <1>2, <1>3 DEF MonTypeOK

\* What a field of a typed bookkeeping holds.
LEMMA FieldTypes ==
    ASSUME MonTypeOK, NEW a \in Addresses
    PROVE  /\ status[a] \in Statuses \cup {"none", "absent"}
           /\ backoff[a] \in 0 .. Cap /\ wait[a] \in 0 .. Cap
           /\ subscribed[a] \in BOOLEAN
BY DEF MonTypeOK

\* Every component keeps its type, whatever the constants.
THEOREM TypeCorrect == Spec => []TypeOK
<1> USE DEF Ids, NoId, LinkStates
<1>1. Init => TypeOK
    BY DEF Init, TypeOK, MonTypeOK
<1>2. TypeOK /\ [Next]_vars => TypeOK'
    <2> SUFFICES ASSUME TypeOK, [Next]_vars PROVE TypeOK'
        OBVIOUS
    <2> USE DEF TypeOK, db, web, tick
    <2>0. pc \notin {"idle", "next"} => Addr \in Addresses /\ dev.id \in Ids /\ dev \in Device
        BY DEF Addr, Device
    <2>a. {"none", "disconnected", "reconnecting", "connected"} \subseteq Statuses \cup {"none", "absent"}
          /\ Base \in 0 .. Cap /\ 0 \in 0 .. Cap
        BY DEF Statuses
    <2>1. ASSUME NEW d \in Elapsed, TickStart(d) PROVE TypeOK'
        <3>1. todo' \subseteq Device
            BY <2>1 DEF TickStart, Device
        <3>2. wait' \in [Addresses -> 0 .. Cap]
            BY <2>1, LeftType DEF TickStart, Age, MonTypeOK
        <3>3. MonTypeOK'
            BY <2>1, <3>2, <2>a DEF TickStart, MonTypeOK
        <3> QED BY <2>1, <3>1, <3>3 DEF TickStart
    <2>2. ASSUME NEW d \in Elapsed, TickSkipped(d) PROVE TypeOK'
        <3>1. wait' \in [Addresses -> 0 .. Cap]
            BY <2>2, LeftType DEF TickSkipped, Age, MonTypeOK
        <3> QED BY <2>2, <3>1 DEF TickSkipped, MonTypeOK
    <2>3. ASSUME NEW x \in todo, Observe(x) PROVE TypeOK'
        <3>1. x.addr \in Addresses /\ x \in Device
            BY DEF Device
        <3>2. MonTypeOK'
            <4>1. CASE status[x.addr] = "absent"
                BY <2>3, <3>1, <4>1, <2>a, RecordType DEF Observe
            <4>2. CASE status[x.addr] # "absent"
                BY <2>3, <4>2 DEF Observe, mon, MonTypeOK
            <4> QED BY <4>1, <4>2
        <3> QED BY <2>3, <3>1, <3>2 DEF Observe
    <2>4. CASE SeeDrop
        <3>1. MonTypeOK'
            BY <2>4, <2>0, <2>a, RecordType DEF SeeDrop
        <3> QED BY <2>4, <3>1, <2>0 DEF SeeDrop, Emit, Touched, Proceed, Statuses
    <2>5. CASE SeeDropFails \/ NotDue
        <3>1. MonTypeOK'
            BY <2>5, <2>0, FieldTypes, RecordType DEF SeeDropFails, NotDue
        <3> QED BY <2>5, <3>1 DEF SeeDropFails, NotDue, GiveUp, Proceed
    <2>7. CASE Kick
        <3>1. MonTypeOK'
            BY <2>7, <2>0, <2>a, FieldTypes, RecordType DEF Kick
        <3> QED BY <2>7, <3>1, <2>0 DEF Kick, Emit, EnsureConnecting, Statuses
    <2>8. CASE Recheck
        <3>1. MonTypeOK'
            <4>1. CASE IsConnected(Addr)
                BY <2>8, <4>1 DEF Recheck, mon, MonTypeOK
            <4>2. CASE ~IsConnected(Addr)
                <5>1. Addr \in Addresses
                    BY <2>8, <2>0 DEF Recheck
                <5>2. Longer(backoff[Addr]) \in 0 .. Cap
                    BY <5>1, FieldTypes, LongerType
                <5> QED BY <2>8, <4>2, <5>1, <5>2, FieldTypes, RecordKeepingType DEF Recheck
            <4> QED BY <4>1, <4>2
        <3> QED BY <2>8, <3>1, <2>0 DEF Recheck, Proceed
    <2>9. CASE Subscribe
        <3>1. MonTypeOK'
            BY <2>9, <2>0, FieldTypes, RecordType DEF Subscribe
        <3> QED BY <2>9, <3>1, <2>0 DEF Subscribe
    <2>10. CASE SubscribeFails
        BY <2>10 DEF SubscribeFails, GiveUp, mon, MonTypeOK
    <2>11. CASE Report
        <3>1. MonTypeOK'
            BY <2>11, <2>0, <2>a, FieldTypes, RecordType DEF Report, Statuses
        <3> QED BY <2>11, <3>1, <2>0 DEF Report, Emit, Touched, Proceed, Statuses
    <2>12. CASE ReportFails
        <3>1. MonTypeOK'
            <4>1. Addr \in Addresses
                BY <2>12, <2>0 DEF ReportFails
            <4> QED BY <2>12, <4>1, <2>a, FieldTypes, RecordKeepingType DEF ReportFails
        <3> QED BY <2>12, <3>1 DEF ReportFails, GiveUp
    <2>13. CASE TickEnd
        BY <2>13 DEF TickEnd, mon, MonTypeOK
    <2>14. CASE Radio
        BY <2>14 DEF Radio, LinkUp, LinkFail, LinkDrop, LinkClosed, Worker, mon, MonTypeOK
    <2>15. ASSUME NEW a \in Addresses, AddDevice(a) PROVE TypeOK'
        <3>1. nextId \in Ids /\ nextId' \in 1 .. MaxId + 1
            BY <2>15 DEF AddDevice
        <3>2. row' \in [Addresses -> Ids \cup {NoId}] /\ adding' \subseteq Addresses
            BY <2>15, <3>1 DEF AddDevice
        <3> QED BY <2>15, <3>1, <3>2 DEF AddDevice, mon, MonTypeOK
    <2>16. ASSUME NEW a \in Addresses, ConnectNew(a) \/ RemoveFails(a) PROVE TypeOK'
        BY <2>16 DEF ConnectNew, EnsureConnecting, RemoveFails, mon, MonTypeOK
    <2>18. ASSUME NEW a \in Addresses, RemoveDevice(a) PROVE TypeOK'
        <3>1. link' \in [Addresses -> LinkStates]
            BY <2>18 DEF RemoveDevice
        <3>2. removing' \in [Addresses -> Ids \cup {NoId}]
            BY <2>18 DEF RemoveDevice
        <3> QED BY <2>18, <3>1, <3>2 DEF RemoveDevice, mon, MonTypeOK
    <2>19. ASSUME NEW a \in Addresses, DeleteRow(a) PROVE TypeOK'
        <3>1. row' \in [Addresses -> Ids \cup {NoId}]
            BY <2>19 DEF DeleteRow
        <3>2. removing' \in [Addresses -> Ids \cup {NoId}]
            BY <2>19 DEF DeleteRow
        <3> QED BY <2>19, <3>1, <3>2 DEF DeleteRow, mon, MonTypeOK
    <2>17. CASE UNCHANGED vars
        BY <2>17 DEF vars, mon, MonTypeOK
    <2> QED
        BY <2>1, <2>2, <2>3, <2>4, <2>5, <2>7, <2>8, <2>9, <2>10, <2>11, <2>12,
           <2>13, <2>14, <2>15, <2>16, <2>17, <2>18, <2>19 DEF Next, Tick, Web
<1> QED BY <1>1, <1>2, PTL DEF Spec

-----------------------------------------------------------------------------
(* The bookkeeping *)

\* Only the rows the tick is working on are stamped or shown anything, and the
\* snapshot only shrinks during a tick.
LEMMA TickEffects ==
    ASSUME TypeOK,
           \/ SeeDrop \/ SeeDropFails \/ NotDue \/ Kick \/ Recheck \/ Subscribe
           \/ SubscribeFails \/ Report \/ ReportFails \/ TickEnd
    PROVE  /\ UNCHANGED <<row, nextId>>
           /\ todo' \in {todo, {}} /\ dev' \in {dev, NoDevice}
           /\ \A id \in Ids : id # dev.id => shown'[id] = shown[id] /\ stamp'[id] = stamp[id]
           /\ dev = NoDevice => shown' = shown /\ stamp' = stamp
<1> USE DEF db, Proceed, GiveUp
<1>0. pc \notin {"idle", "next"} => dev \in Device /\ dev.id \in Ids /\ dev # NoDevice
    BY DEF TypeOK, Device, NoDevice, Ids, NoId
<1>1. CASE SeeDrop
    BY <1>0, <1>1 DEF SeeDrop, Emit, Touched, TypeOK
<1>2. CASE Kick
    BY <1>0, <1>2 DEF Kick, Emit, TypeOK
<1>3. CASE Report
    BY <1>0, <1>3 DEF Report, Emit, Touched, TypeOK
<1>4. CASE SeeDropFails \/ NotDue \/ Recheck \/ Subscribe \/ SubscribeFails \/ ReportFails \/ TickEnd
    BY <1>4 DEF SeeDropFails, NotDue, Recheck, Subscribe, SubscribeFails, ReportFails, TickEnd
<1> QED BY <1>1, <1>2, <1>3, <1>4

\* What Radio and the link half of the requests leave alone.
LEMMA OtherEffects ==
    ASSUME \/ Radio \/ UNCHANGED vars
           \/ \E d \in Elapsed : TickSkipped(d)
           \/ \E a \in Addresses : ConnectNew(a) \/ RemoveDevice(a) \/ RemoveFails(a)
    PROVE  UNCHANGED <<row, nextId, todo, dev, pc, shown, stamp, status>>
BY DEF Radio, LinkUp, LinkFail, LinkDrop, LinkClosed, Worker, vars, db, mon, tick, web,
       TickSkipped, ConnectNew, RemoveDevice, RemoveFails

\* Rows, snapshot and the row in hand agree on which address an id belongs to.
THEOREM IdsUnique == Spec => []IdsAreUnique
<1>1. Init => IdsAreUnique
    BY DEF Init, IdsAreUnique, Snapshot, NoDevice, Ids, NoId
<1>2. TypeOK /\ IdsAreUnique /\ [Next]_vars => IdsAreUnique'
    <2> SUFFICES ASSUME TypeOK, IdsAreUnique, [Next]_vars PROVE IdsAreUnique'
        OBVIOUS
    <2>1. ASSUME NEW d \in Elapsed, TickStart(d) PROVE IdsAreUnique'
        <3>1. UNCHANGED <<row, nextId, dev, shown, stamp>> /\ dev = NoDevice
            BY <2>1 DEF TickStart, TypeOK, db
        <3>2. \A x \in todo' : x.addr \in Addresses /\ x.id = row[x.addr] /\ x.id # NoId
                               /\ x = [addr |-> x.addr, id |-> x.id]
            BY <2>1 DEF TickStart
        <3>3. Snapshot' = todo' /\ dev' \notin todo'
            BY <3>1, <3>2 DEF Snapshot, NoDevice, NoId
        <3>4. \A x, y \in todo' : x.id = y.id \/ x.addr = y.addr => x = y
            BY <3>2 DEF IdsAreUnique
        <3> QED BY <3>1, <3>2, <3>3, <3>4 DEF IdsAreUnique
    <2>2. ASSUME NEW x \in todo, Observe(x) PROVE IdsAreUnique'
        BY <2>2 DEF Observe, IdsAreUnique, Snapshot, TypeOK, db
    <2>3. CASE \/ SeeDrop \/ SeeDropFails \/ NotDue \/ Kick \/ Recheck \/ Subscribe
               \/ SubscribeFails \/ Report \/ ReportFails \/ TickEnd
        <3>1. Snapshot' \subseteq Snapshot
            BY <2>3, TickEffects DEF Snapshot
        <3>2. dev' \notin todo'
            BY <2>3, TickEffects DEF IdsAreUnique, TypeOK, Device, NoDevice, NoId, Ids
        <3>3. \A id \in Ids : id >= nextId => shown'[id] = "none" /\ stamp'[id] = "never"
            <4>1. dev # NoDevice => dev.id < nextId
                BY DEF IdsAreUnique, Snapshot
            <4> QED BY <2>3, <4>1, TickEffects DEF IdsAreUnique, TypeOK, Ids, Device
        <3> QED BY <2>3, <3>1, <3>2, <3>3, TickEffects DEF IdsAreUnique
    <2>4. CASE \/ Radio \/ UNCHANGED vars \/ \E d \in Elapsed : TickSkipped(d)
               \/ \E a \in Addresses : ConnectNew(a) \/ RemoveDevice(a) \/ RemoveFails(a)
        BY <2>4, OtherEffects DEF IdsAreUnique, Snapshot
    <2>5. ASSUME NEW a \in Addresses, AddDevice(a) PROVE IdsAreUnique'
        BY <2>5 DEF AddDevice, IdsAreUnique, Snapshot, TypeOK, tick, Ids, NoId, Device
    <2>6. ASSUME NEW a \in Addresses, DeleteRow(a) PROVE IdsAreUnique'
        BY <2>6 DEF DeleteRow, IdsAreUnique, Snapshot, TypeOK, tick, Ids, NoId, Device
    <2> QED BY <2>1, <2>2, <2>3, <2>4, <2>5, <2>6 DEF Next, Tick, Web
<1> QED BY <1>1, <1>2, TypeCorrect, PTL DEF Spec

\* An emission for the row in hand, together with the change of status it
\* reports, leaves every row shown what the books say of its address.
LEMMA EmissionIsBooked ==
    ASSUME TypeOK, IdsAreUnique, ShownIsBooked, dev \in Device, dev # NoDevice,
           NEW s \in Statuses,
           status' = [status EXCEPT ![Addr] = s], shown' = Emit(dev.id, Addr, s),
           row' = row, Snapshot' \subseteq Snapshot,
           \A id \in Ids : id # dev.id => stamp'[id] = stamp[id],
           Registered(dev.id) => (stamp'[dev.id] = "online" <=> shown'[dev.id] = "connected")
    PROVE  ShownIsBooked'
<1>0. /\ Addr \in Addresses /\ dev.id \in Ids /\ dev.id # NoId /\ dev \in Snapshot
      /\ s # "none"
    BY DEF Device, Addr, Ids, NoId, Snapshot, Statuses
<1>1. \A id \in Ids : id # dev.id => shown'[id] = shown[id]
    BY <1>0 DEF Emit, TypeOK
<1>2. shown'[dev.id] # "none" => shown'[dev.id] = s
    BY <1>0 DEF Emit, TypeOK, ShownIsBooked, Addr
<1>3. \A b \in Addresses : b # Addr => status'[b] = status[b]
    BY DEF TypeOK, MonTypeOK
<1>4. status'[Addr] = s
    BY <1>0 DEF TypeOK, MonTypeOK
<1>5. ASSUME NEW b \in Addresses, row'[b] # NoId
      PROVE  /\ shown'[row'[b]] # "none" => status'[b] = shown'[row'[b]]
             /\ stamp'[row'[b]] = "online" <=> shown'[row'[b]] = "connected"
    <2>1. row[b] \in Ids /\ row'[b] = row[b]
        BY <1>5 DEF TypeOK
    <2>2. CASE row[b] = dev.id
        <3>1. b = Addr
            BY <1>0, <2>2 DEF IdsAreUnique, Addr
        <3>2. Registered(dev.id)
            BY <2>2 DEF Registered
        <3> QED BY <1>2, <1>4, <2>1, <2>2, <3>1, <3>2
    <2>3. CASE row[b] # dev.id
        <3>1. b = Addr => shown[row[b]] = "none"
            BY <1>0, <1>5, <2>1, <2>3 DEF ShownIsBooked, Addr
        <3> QED BY <1>1, <1>3, <1>5, <2>1, <2>3, <3>1 DEF ShownIsBooked
    <2> QED BY <2>2, <2>3
<1>6. ASSUME NEW x \in Snapshot'
      PROVE  /\ shown'[x.id] # "none" => status'[x.addr] = shown'[x.id]
             /\ row'[x.addr] \notin {NoId, x.id} => shown'[row'[x.addr]] = "none"
    <2>1. x \in Snapshot /\ x.id \in Ids /\ x.addr \in Addresses
        BY <1>0, <1>6 DEF Snapshot, TypeOK, Device
    <2>2. CASE x = dev
        BY <1>1, <1>2, <1>4, <2>1, <2>2 DEF ShownIsBooked, Addr, TypeOK
    <2>3. CASE x # dev
        <3>1. x.id # dev.id /\ x.addr # Addr
            BY <1>0, <2>1, <2>3 DEF IdsAreUnique, Addr
        <3>2. row[x.addr] # NoId => row[x.addr] # dev.id /\ row[x.addr] \in Ids
            BY <1>0, <2>1, <3>1 DEF IdsAreUnique, Addr, TypeOK
        <3> QED BY <1>1, <1>3, <2>1, <3>1, <3>2 DEF ShownIsBooked
    <2> QED BY <2>2, <2>3
<1> QED BY <1>5, <1>6 DEF ShownIsBooked

\* The books, the stamps and what the dashboards were shown agree.
THEOREM BooksAgree == Spec => [](ShownIsBooked /\ WorkingOn)
<1> DEFINE Inv == ShownIsBooked /\ WorkingOn
<1>1. Init => Inv
    BY DEF Init, ShownIsBooked, WorkingOn, Snapshot, NoDevice, Ids, NoId
<1>2. TypeOK /\ TypeOK' /\ IdsAreUnique /\ Inv /\ [Next]_vars => Inv'
    <2> SUFFICES ASSUME TypeOK, TypeOK', IdsAreUnique, Inv, [Next]_vars PROVE Inv'
        OBVIOUS
    <2>0. pc \notin {"idle", "next"} => dev \in Device /\ dev.id \in Ids /\ dev # NoDevice
                                        /\ Addr \in Addresses /\ dev \in Snapshot
        BY DEF TypeOK, Device, NoDevice, Ids, NoId, Addr, Snapshot
    <2>1. ASSUME NEW d \in Elapsed, TickStart(d) PROVE Inv'
        <3>1. UNCHANGED <<row, nextId, dev, shown, stamp>> /\ dev = NoDevice /\ pc' = "next"
            BY <2>1 DEF TickStart, TypeOK, db
        <3>2. \A x \in todo' : x.addr \in Addresses /\ x.id = row[x.addr] /\ x.id # NoId
            BY <2>1 DEF TickStart
        <3>3. Snapshot' = todo'
            BY <3>1, <3>2 DEF Snapshot
        <3>4. \A a \in Addresses : row[a] # NoId => status'[a] = status[a]
            BY <2>1 DEF TickStart
        <3> QED BY <3>1, <3>2, <3>3, <3>4 DEF ShownIsBooked, WorkingOn
    <2>2. ASSUME NEW x \in todo, Observe(x) PROVE Inv'
        <3>1. x \in Device /\ x.addr \in Addresses /\ x # NoDevice /\ dev = NoDevice
            BY <2>2 DEF Observe, TypeOK, Device, NoDevice, Ids, NoId
        <3>2. Snapshot' = Snapshot /\ UNCHANGED <<row, shown, stamp>> /\ dev' = x
              /\ pc' \in {"up", "down"}
            BY <2>2, <3>1 DEF Observe, Snapshot, db
        <3>3. \A a \in Addresses : status'[a] = status[a] \/ status[a] = "absent"
            BY <2>2 DEF Observe, Record, mon, TypeOK, MonTypeOK
        <3>4. status'[x.addr] # "absent"
            BY <2>2, <3>1 DEF Observe, Record, mon, TypeOK, MonTypeOK
        <3>5. \A id \in Ids : shown[id] # "absent"
            BY DEF TypeOK, Statuses
        <3>6. ShownIsBooked'
            BY <3>2, <3>3, <3>5 DEF ShownIsBooked, TypeOK, Snapshot, Device
        <3>7. Known(x.addr)' /\ pc' # "idle" /\ pc' # "recheck"
            BY <3>2, <3>4 DEF Known
        <3> QED BY <3>2, <3>6, <3>7 DEF WorkingOn, Known, Addr
    <2>3. CASE SeeDrop
        <3>0. dev \in Device /\ dev.id \in Ids /\ dev # NoDevice /\ Addr \in Addresses /\ dev \in Snapshot
            BY <2>0, <2>3 DEF SeeDrop
        <3> USE <3>0, <2>3
        <3>1. /\ status' = [status EXCEPT ![Addr] = "disconnected"]
              /\ shown' = Emit(dev.id, Addr, "disconnected") /\ row' = row
              /\ todo' = todo /\ dev' = NoDevice /\ pc' = "next" /\ Snapshot' \subseteq Snapshot
            BY DEF SeeDrop, Record, Proceed, Snapshot, db
        <3>2. \A id \in Ids : id # dev.id => stamp'[id] = stamp[id]
            BY DEF SeeDrop, Touched, TypeOK
        <3>3. ASSUME Registered(dev.id)
              PROVE  stamp'[dev.id] = "online" <=> shown'[dev.id] = "connected"
            <4>1. row[Addr] = dev.id
                BY <3>3 DEF Registered, IdsAreUnique, Addr
            <4>2. shown'[dev.id] = "disconnected"
                BY <3>1 DEF SeeDrop, JustLost, Emit, TypeOK
            <4>3. stamp'[dev.id] # "online"
                BY <3>3, <4>1 DEF SeeDrop, Touched, TypeOK, ShownIsBooked, JustLost, Ids, NoId
            <4> QED BY <4>2, <4>3
        <3>4. ShownIsBooked'
            BY <3>1, <3>2, <3>3, EmissionIsBooked DEF Statuses
        <3> QED BY <3>1, <3>4 DEF WorkingOn
    <2>4. CASE Kick
        <3>0. dev \in Device /\ dev.id \in Ids /\ dev # NoDevice /\ Addr \in Addresses /\ dev \in Snapshot
            BY <2>0, <2>4 DEF Kick
        <3> USE <3>0, <2>4
        <3>1. /\ status' = [status EXCEPT ![Addr] = "reconnecting"]
              /\ shown' = Emit(dev.id, Addr, "reconnecting")
              /\ row' = row /\ stamp' = stamp
              /\ todo' = todo /\ dev' = dev /\ pc' = "recheck" /\ Snapshot' \subseteq Snapshot
            BY DEF Kick, Record, Snapshot, db
        <3>2. ASSUME Registered(dev.id)
              PROVE  stamp'[dev.id] = "online" <=> shown'[dev.id] = "connected"
            <4>1. row[Addr] = dev.id
                BY <3>2 DEF Registered, IdsAreUnique, Addr
            <4>2. shown[dev.id] # "connected"
                BY <4>1 DEF Kick, JustLost, ShownIsBooked, Ids, NoId
            <4> QED BY <3>1, <4>1, <4>2 DEF Emit, TypeOK, ShownIsBooked, Ids, NoId
        <3>3. ShownIsBooked'
            BY <3>1, <3>2, EmissionIsBooked DEF Statuses
        <3>4. status'[Addr] = "reconnecting" /\ Addr' = Addr
            BY <3>1 DEF TypeOK, MonTypeOK, Addr
        <3> QED BY <3>1, <3>3, <3>4 DEF WorkingOn, Known, Addr
    <2>5. CASE Report
        <3>0. dev \in Device /\ dev.id \in Ids /\ dev # NoDevice /\ Addr \in Addresses /\ dev \in Snapshot
            BY <2>0, <2>5 DEF Report
        <3> USE <3>0, <2>5
        <3>1. /\ status' = [status EXCEPT ![Addr] = "connected"]
              /\ shown' = Emit(dev.id, Addr, "connected") /\ row' = row
              /\ todo' = todo /\ dev' = NoDevice /\ pc' = "next" /\ Snapshot' \subseteq Snapshot
            BY DEF Report, Record, Proceed, Snapshot, db
        <3>2. \A id \in Ids : id # dev.id => stamp'[id] = stamp[id]
            BY DEF Report, Touched, TypeOK
        <3>3. ASSUME Registered(dev.id)
              PROVE  stamp'[dev.id] = "online" <=> shown'[dev.id] = "connected"
            <4>1. row[Addr] = dev.id
                BY <3>3 DEF Registered, IdsAreUnique, Addr
            <4>2. CASE status[Addr] = "connected"
                BY <4>1, <4>2 DEF Report, Emit, ShownIsBooked, Ids, NoId
            <4>3. CASE status[Addr] # "connected"
                BY <3>1, <3>3, <4>3 DEF Report, Emit, Touched, TypeOK
            <4> QED BY <4>2, <4>3
        <3>4. ShownIsBooked'
            BY <3>1, <3>2, <3>3, EmissionIsBooked DEF Statuses
        <3> QED BY <3>1, <3>4 DEF WorkingOn
    <2>6. CASE SeeDropFails \/ NotDue \/ Recheck \/ Subscribe \/ SubscribeFails \/ ReportFails \/ TickEnd
        <3>1. UNCHANGED <<row, shown, stamp, status>> /\ Snapshot' \subseteq Snapshot
            <4>1. UNCHANGED <<row, shown, stamp>> /\ Snapshot' \subseteq Snapshot
                BY <2>6 DEF SeeDropFails, NotDue, Recheck, Subscribe, SubscribeFails, ReportFails,
                            TickEnd, Proceed, GiveUp, Snapshot, db
            <4>2. status' = status
                BY <2>0, <2>6 DEF SeeDropFails, NotDue, Recheck, Subscribe, SubscribeFails,
                            ReportFails, TickEnd, Record, mon, TypeOK, MonTypeOK
            <4> QED BY <4>1, <4>2
        <3>2. pc' \notin {"idle", "next"} => dev' = dev /\ pc' \in {"up", "report"} /\ dev # NoDevice
            BY <2>0, <2>6 DEF SeeDropFails, NotDue, Recheck, Subscribe, SubscribeFails,
                            ReportFails, TickEnd, Proceed, GiveUp
        <3>3. pc' = "idle" => todo' = {}
            BY <2>6 DEF SeeDropFails, NotDue, Recheck, Subscribe, SubscribeFails,
                            ReportFails, TickEnd, Proceed, GiveUp
        <3>4. ShownIsBooked'
            BY <3>1 DEF ShownIsBooked
        <3>5. dev' # NoDevice => dev' = dev /\ dev # NoDevice
            <4>1. pc' \in {"idle", "next"} => dev' = NoDevice
                BY DEF TypeOK
            <4> QED BY <3>2, <4>1
        <3>6. dev' # NoDevice => Known(dev.addr)'
            <4>1. status' = status
                BY <3>1
            <4>2. dev # NoDevice => status[dev.addr] # "absent"
                BY DEF WorkingOn, Known, Addr
            <4> QED BY <4>1, <4>2, <3>5 DEF Known
        <3> QED BY <3>2, <3>3, <3>4, <3>6 DEF WorkingOn, Known, Addr
    <2>7. CASE \/ Radio \/ UNCHANGED vars \/ \E d \in Elapsed : TickSkipped(d)
               \/ \E a \in Addresses : ConnectNew(a) \/ RemoveDevice(a) \/ RemoveFails(a)
        BY <2>7, OtherEffects DEF ShownIsBooked, WorkingOn, Snapshot, Known, Addr
    <2>8. ASSUME NEW a \in Addresses, AddDevice(a) PROVE Inv'
        <3>1. /\ UNCHANGED <<todo, dev, pc, shown, stamp, status>> /\ Snapshot' = Snapshot
              /\ nextId \in Ids
              /\ \A b \in Addresses : row'[b] = row[b] \/ (b = a /\ row'[b] = nextId)
            BY <2>8 DEF AddDevice, Snapshot, tick, mon, TypeOK, Ids
        <3>2. shown[nextId] = "none" /\ stamp[nextId] = "never"
            BY <3>1 DEF IdsAreUnique, Ids
        <3>3. ShownIsBooked'
            BY <3>1, <3>2 DEF ShownIsBooked, Snapshot, TypeOK, Device
        <3> QED BY <3>1, <3>3 DEF WorkingOn, Known, Addr
    <2>9. ASSUME NEW a \in Addresses, DeleteRow(a) PROVE Inv'
        <3>1. /\ UNCHANGED <<todo, dev, pc, shown, stamp, status>> /\ Snapshot' = Snapshot
              /\ \A b \in Addresses : row'[b] = row[b] \/ row'[b] = NoId
            BY <2>9 DEF DeleteRow, Snapshot, tick, mon, TypeOK, Ids
        <3>2. ShownIsBooked'
            BY <3>1 DEF ShownIsBooked, Snapshot, TypeOK, Device
        <3> QED BY <3>1, <3>2 DEF WorkingOn, Known, Addr
    <2> QED BY <2>1, <2>2, <2>3, <2>4, <2>5, <2>6, <2>7, <2>8, <2>9 DEF Next, Tick, Web
<1> QED BY <1>1, <1>2, TypeCorrect, IdsUnique, PTL DEF Spec

\* The strengthened invariant the runs check, and the property it is there for:
\* the last-online stamp of a row is that of the transition its dashboards were
\* told of.
THEOREM BookkeepingCorrect == Spec => [](Bookkeeping /\ StampsMatchReports)
<1>1. TypeOK /\ IdsAreUnique /\ ShownIsBooked /\ WorkingOn => Bookkeeping /\ StampsMatchReports
    BY DEF Bookkeeping, ShownIsBooked, StampsMatchReports, TypeOK
<1> QED BY <1>1, TypeCorrect, IdsUnique, BooksAgree, PTL

\* Retries: the backoff and the wait stay within their bounds, and a device the
\* books call connected owes no wait.
THEOREM BackoffCorrect == Spec => []BackoffBounded
<1>1. Init => BackoffBounded
    BY DEF Init, BackoffBounded, Known
<1>2. TypeOK /\ WorkingOn /\ BackoffBounded /\ [Next]_vars => BackoffBounded'
    <2> SUFFICES ASSUME TypeOK, WorkingOn, BackoffBounded, [Next]_vars,
                        NEW a \in Addresses, Known(a)'
                 PROVE  /\ backoff'[a] \in Base .. Cap
                        /\ wait'[a] <= backoff'[a]
                        /\ status'[a] \in {"none", "connected"}
                              => backoff'[a] = Base /\ wait'[a] = 0
        BY DEF BackoffBounded
    <2> DEFINE Goal == /\ backoff'[a] \in Base .. Cap
                       /\ wait'[a] <= backoff'[a]
                       /\ status'[a] \in {"none", "connected"}
                              => backoff'[a] = Base /\ wait'[a] = 0
    <2> USE DEF BackoffBounded, Known, TypeOK, MonTypeOK
    <2>0. pc \notin {"idle", "next"} => Addr \in Addresses /\ Known(Addr)
        <3>1. pc \notin {"idle", "next"} => dev \in Device
            OBVIOUS
        <3> QED BY <3>1 DEF Device, NoDevice, Ids, NoId, WorkingOn, Addr
    <2>1. ASSUME NEW d \in Elapsed, TickStart(d) \/ TickSkipped(d) PROVE Goal
        <3>1. wait'[a] \in 0 .. wait[a]
            BY <2>1, LeftType DEF TickStart, TickSkipped, Age
        <3>2. status'[a] = status[a] /\ backoff'[a] = backoff[a]
            BY <2>1 DEF TickStart, TickSkipped
        <3> QED BY <3>1, <3>2
    <2>2. ASSUME NEW x \in todo, Observe(x) PROVE Goal
        BY <2>2 DEF Observe, Record, mon
    <2>3. CASE SeeDrop \/ SeeDropFails \/ NotDue
        BY <2>0, <2>3 DEF SeeDrop, SeeDropFails, NotDue, Record
    <2>4. CASE Kick
        BY <2>0, <2>4 DEF Kick, Record, JustLost
    <2>5. CASE Recheck
        <3>1. CASE IsConnected(Addr)
            BY <2>5, <3>1 DEF Recheck, mon
        <3>2. CASE ~IsConnected(Addr)
            <4>1. Longer(backoff[Addr]) \in Base .. Cap
                BY <2>0, <2>5, LongerType DEF Recheck
            <4>2. status[Addr] = "reconnecting"
                BY <2>5 DEF Recheck, WorkingOn
            <4> QED BY <2>0, <2>5, <3>2, <4>1, <4>2 DEF Recheck, Record
        <3> QED BY <3>1, <3>2
    <2>6. CASE Subscribe \/ Report \/ ReportFails
        BY <2>0, <2>6 DEF Subscribe, Report, ReportFails, Record
    <2>7. CASE \/ SubscribeFails \/ TickEnd \/ Radio \/ Web \/ UNCHANGED vars
        BY <2>7 DEF SubscribeFails, TickEnd, Radio, LinkUp, LinkFail, LinkDrop, LinkClosed, Worker,
                    Web, AddDevice, ConnectNew, RemoveDevice, RemoveFails, DeleteRow, mon, vars
    <2> QED BY <2>1, <2>2, <2>3, <2>4, <2>5, <2>6, <2>7 DEF Next, Tick
<1> QED BY <1>1, <1>2, TypeCorrect, BooksAgree, PTL DEF Spec

\* The monitor implements the announcements the dashboards are promised.
THEOREM Announces == Spec => AnnouncementsSpec
<1>1. Init => Announced!Init
    BY DEF Init, Announced!Init
<1>2. TypeOK /\ IdsAreUnique /\ ShownIsBooked /\ WorkingOn /\ [Next]_vars => [Announced!Next]_shown
    <2> SUFFICES ASSUME TypeOK, IdsAreUnique, ShownIsBooked, WorkingOn, [Next]_vars, shown' # shown
                 PROVE  \E id \in Ids, s \in Announced!Statuses : Announced!Announce(id, s)
        BY DEF Announced!Next
    <2> USE DEF Announced!Statuses, Announced!Announce, Announced!Follows
    <2>0. pc \notin {"idle", "next"} => /\ dev.id \in Ids /\ dev \in Snapshot
                                        /\ Addr \in Addresses /\ status[Addr] # "absent"
        BY DEF TypeOK, Device, NoDevice, Ids, NoId, Snapshot, Addr, WorkingOn, Known
    <2>1. pc \notin {"idle", "next"} => shown[dev.id] \in {"none", status[Addr]}
        BY <2>0 DEF ShownIsBooked, Addr
    <2>2. CASE SeeDrop
        <3>1. Announced!Announce(dev.id, "disconnected")
            BY <2>0, <2>1, <2>2 DEF SeeDrop, JustLost, Emit
        <3> QED BY <2>0, <2>2, <3>1 DEF SeeDrop
    <2>3. CASE Kick
        <3>0. Addr \in Addresses /\ status[Addr] # "absent" /\ dev.id \in Ids
            BY <2>0, <2>3 DEF Kick
        <3>1. status[Addr] = "disconnected"
            BY <2>3, <3>0 DEF Kick, JustLost, Emit, TypeOK, MonTypeOK, Statuses
        <3>2. Announced!Announce(dev.id, "reconnecting")
            BY <2>0, <2>1, <2>3, <3>1 DEF Kick, Emit
        <3> QED BY <2>0, <2>3, <3>2 DEF Kick
    <2>4. CASE Report
        <3>1. Announced!Announce(dev.id, "connected")
            <4>0. Addr \in Addresses /\ status[Addr] # "absent" /\ dev.id \in Ids
                BY <2>0, <2>4 DEF Report
            <4>1. status[Addr] \in {"none", "disconnected", "reconnecting"}
                BY <2>4, <4>0 DEF Report, Emit, TypeOK, MonTypeOK, Statuses
            <4>2. shown[dev.id] \in {"none", "disconnected", "reconnecting"}
                BY <2>1, <2>4, <4>1 DEF Report
            <4>3. shown' = [shown EXCEPT ![dev.id] = "connected"]
                BY <2>4, <4>1 DEF Report, Emit
            <4> QED BY <4>2, <4>3
        <3> QED BY <2>0, <2>4, <3>1 DEF Report
    <2>5. CASE ~(SeeDrop \/ Kick \/ Report)
        <3>1. shown' = shown
            BY <2>5 DEF Next, Tick, Radio, Web, TickStart, TickSkipped, Observe, SeeDropFails, NotDue,
                    Recheck, Subscribe, SubscribeFails, ReportFails, TickEnd, LinkUp, LinkFail,
                    LinkDrop, LinkClosed, Worker, AddDevice, ConnectNew, RemoveDevice, RemoveFails,
                    DeleteRow, vars
        <3> QED BY <3>1
    <2> QED BY <2>2, <2>3, <2>4, <2>5
<1> QED BY <1>1, <1>2, TypeCorrect, IdsUnique, BooksAgree, PTL DEF Spec, AnnouncementsSpec, Announced!Spec

\* The ticks and the requests act on links as module Links allows.
THEOREM KeepsToLinks == Spec => ImplementsLinks
<1>1. Init => Backend!Init
    BY DEF Init, Backend!Init, Backend!States
<1>2. TypeOK /\ [Next]_vars => [Backend!Next]_link
    <2> SUFFICES ASSUME TypeOK, [Next]_vars, link' # link PROVE Backend!Next
        OBVIOUS
    <2> USE DEF Backend!Next, Backend!Ask, Backend!Answer, Backend!Fail, Backend!Lose, Backend!Forget,
                Backend!Becomes
    <2>1. CASE Kick
        <3>1. Addr \in Addresses
            BY <2>1 DEF Kick, TypeOK, Device, Addr
        <3>2. Backend!Ask(Addr)
            BY <2>1, <3>1 DEF Kick, EnsureConnecting, TypeOK
        <3> QED BY <3>1, <3>2
    <2>2. ASSUME NEW a \in Addresses, ConnectNew(a) PROVE Backend!Ask(a)
        BY <2>2 DEF ConnectNew, EnsureConnecting, TypeOK
    <2>3. ASSUME NEW a \in Addresses, RemoveDevice(a) \/ RemoveFails(a) PROVE Backend!Forget(a)
        BY <2>3 DEF RemoveDevice, RemoveFails, IsConnected, TypeOK
    <2>4. CASE Radio
        BY <2>4 DEF Radio, LinkUp, LinkFail, LinkDrop, LinkClosed, Worker
    <2>5. Kick \/ Radio \/ \E a \in Addresses : ConnectNew(a) \/ RemoveDevice(a) \/ RemoveFails(a)
        BY DEF Next, Tick, Web, TickStart, TickSkipped, Observe, SeeDrop, SeeDropFails, NotDue, Recheck,
               Subscribe, SubscribeFails, Report, ReportFails, TickEnd, AddDevice, DeleteRow, vars
    <2> QED BY <2>1, <2>2, <2>3, <2>4, <2>5
<1> QED BY <1>1, <1>2, TypeCorrect, PTL DEF Spec, ImplementsLinks, Backend!Spec
=============================================================================
