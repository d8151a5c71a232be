-------------------------- MODULE ScanWindowProofs --------------------------
(***************************************************************************)
(* What ScanWindow guarantees for every number of requests, of devices and *)
(* of monitor threads.                                                     *)
(***************************************************************************)
EXTENDS ScanWindow, TLAPS

\* Every variable keeps to its type, for any number of overlapping scans; a
\* request has a device in hand exactly while it disconnects one.
THEOREM TypeCorrect == Spec => []TypeOK
  <1> USE NamesAssumption
  <1>1. Init => TypeOK
    <2> SUFFICES ASSUME Init PROVE TypeOK
      OBVIOUS
    <2>1. link \in [Devices -> {"none", "connecting", "dialling", "up", "closing"}]
      BY DEF Init
    <2>2. overlapped \in BOOLEAN /\ was \in [Requests -> BOOLEAN] /\ stopped \in [Threads -> BOOLEAN]
      BY DEF Init
    <2> QED
      BY <2>1, <2>2 DEF Init, TypeOK
  <1>2. TypeOK /\ [Next]_vars => TypeOK'
    <2> SUFFICES ASSUME TypeOK, [Next]_vars PROVE TypeOK'
      OBVIOUS
    <2>1. ASSUME NEW r \in Requests, Enter(r)
          PROVE  TypeOK'
      <3>1. (monitor # NoThread) \in BOOLEAN
        OBVIOUS
      <3>2. was' \in [Requests -> BOOLEAN]
        BY <2>1, <3>1, Zenon DEF Enter, TypeOK
      <3>3. (overlapped \/ \E s \in Requests : pc[s] # "idle") \in BOOLEAN
        OBVIOUS
      <3>4. overlapped' \in BOOLEAN
        BY <2>1, <3>3, Zenon DEF Enter
      <3> QED
        BY <2>1, <3>2, <3>4 DEF Enter, Go, loop, radio, TypeOK
    <2>2. ASSUME NEW r \in Requests,
                 \/ StopCheck(r) \/ Stop(r) \/ StopRaises(r)
                 \/ Joined(r) \/ ListFails(r) \/ Open(r)
          PROVE  TypeOK'
      <3>1. CASE StopCheck(r)
        BY <2>2, <3>1 DEF StopCheck, Go, loop, radio, TypeOK
      <3>2. CASE Stop(r)
        BY <2>2, <3>2 DEF Stop, Go, radio, TypeOK
      <3>3. CASE StopRaises(r) \/ Open(r)
        BY <2>2, <3>3 DEF StopRaises, Open, Go, loop, radio, TypeOK
      <3>4. CASE Joined(r)
        BY <2>2, <3>4 DEF Joined, Go, radio, TypeOK
      <3>5. CASE ListFails(r)
        BY <2>2, <3>5 DEF ListFails, Go, loop, radio, TypeOK
      <3> QED
        BY <2>2, <3>1, <3>2, <3>3, <3>4, <3>5
    <2>3. ASSUME NEW r \in Requests, NEW d \in Devices, Look(r, d)
          PROVE  TypeOK'
      BY <2>3 DEF Look, Go, loop, radio, TypeOK
    <2>4. ASSUME NEW r \in Requests, Disconnect(r) \/ DisconnectRaises(r)
          PROVE  TypeOK'
      <3>1. at[r] \in Devices
        BY <2>4 DEF Disconnect, DisconnectRaises, TypeOK
      <3> QED
        BY <2>4, <3>1 DEF Disconnect, DisconnectRaises, HangUp, Go, loop, TypeOK
    <2>5. ASSUME NEW r \in Requests, ScanBegins(r) \/ ScanEnds(r) \/ ExitCheck(r)
          PROVE  TypeOK'
      BY <2>5 DEF ScanBegins, ScanEnds, ExitCheck, Go, loop, radio, TypeOK
    <2>6. ASSUME NEW r \in Requests, Start(r)
          PROVE  TypeOK'
      BY <2>6 DEF Start, Go, radio, TypeOK
    <2>7. ASSUME NEW t \in Threads, Loop(t) \/ \E d \in Devices : Kick(t, d)
          PROVE  TypeOK'
      BY <2>7 DEF Loop, TickBegins, TickEnds, ThreadEnds, Kick, loop, radio, request, TypeOK
    <2>8. ASSUME NEW d \in Devices, Dial(d) \/ DialEnds(d) \/ LinkDrop(d) \/ LinkClosed(d)
          PROVE  TypeOK'
      BY <2>8 DEF Dial, DialEnds, LinkDrop, LinkClosed, loop, request, TypeOK
    <2>9. CASE UNCHANGED vars
      BY <2>9 DEF vars, loop, radio, request, TypeOK
    <2> QED
      BY <2>1, <2>2, <2>3, <2>4, <2>5, <2>6, <2>7, <2>8, <2>9 DEF Next, Continue
  <1> QED
    BY <1>1, <1>2, PTL DEF Spec

-----------------------------------------------------------------------------
(* One scan at a time *)

\* While no two scans have overlapped, one request at most is under way; from the
\* end of monitor_stop to the end of the finally block no monitor is kept, and the
\* monitor a request waits for has been told to stop.
Alone == \A r, s \in Requests : pc[r] # "idle" /\ pc[s] # "idle" => r = s

Handover ==
    /\ \A t \in Threads : thread[t] # "none" /\ ~stopped[t] => t = monitor
    /\ \A r \in Requests :
          /\ pc[r] \in {"drop", "disconnect", "window", "scanning", "exit"} => monitor = NoThread
          /\ pc[r] = "start" => monitor = NoThread
          /\ pc[r] = "join" => monitor \in Threads /\ stopped[monitor]

InTurn == ~overlapped => Alone /\ Handover

\* Every step keeps the requests apart, or notes that they are not.
LEMMA InTurnStep == TypeOK /\ InTurn /\ [Next]_vars => InTurn'
  <1> USE NamesAssumption DEF Alone, Handover, InTurn
  <1> SUFFICES ASSUME TypeOK, InTurn, [Next]_vars, ~overlapped' PROVE Alone' /\ Handover'
    OBVIOUS
  <1>1. ASSUME NEW r \in Requests, Enter(r) PROVE Alone' /\ Handover'
    <2>1. ~(overlapped \/ \E s \in Requests : pc[s] # "idle")
      BY <1>1, Zenon DEF Enter
    <2>2. Handover
      BY <2>1, Zenon
    <2>3. pc' = [pc EXCEPT ![r] = "entered"] /\ UNCHANGED <<monitor, thread, stopped>>
      BY <1>1 DEF Enter, Go, loop
    <2>4. pc \in [Requests -> {"idle", "entered", "stop", "join", "drop", "disconnect",
                              "window", "scanning", "exit", "start"}]
      BY DEF TypeOK
    <2>5. \A s \in Requests : pc'[s] = IF s = r THEN "entered" ELSE "idle"
      BY <2>1, <2>3, <2>4
    <2> QED
      BY <2>2, <2>3, <2>5
  <1>2. ASSUME NEW r \in Requests, StopCheck(r) \/ ListFails(r) \/ Open(r)
        PROVE  Alone' /\ Handover'
    BY <1>2 DEF StopCheck, ListFails, Open, Go, loop, radio, TypeOK
  <1>3. ASSUME NEW r \in Requests, Stop(r) \/ StopRaises(r) \/ Joined(r)
        PROVE  Alone' /\ Handover'
    BY <1>3 DEF Stop, StopRaises, Joined, Go, loop, radio, TypeOK
  <1>4. ASSUME NEW r \in Requests, NEW d \in Devices, Look(r, d)
        PROVE  Alone' /\ Handover'
    BY <1>4 DEF Look, Go, loop, radio, TypeOK
  <1>5. ASSUME NEW r \in Requests, Disconnect(r) \/ DisconnectRaises(r)
        PROVE  Alone' /\ Handover'
    BY <1>5 DEF Disconnect, DisconnectRaises, Go, loop, TypeOK
  <1>6. ASSUME NEW r \in Requests, ScanBegins(r) \/ ScanEnds(r) \/ ExitCheck(r)
        PROVE  Alone' /\ Handover'
    BY <1>6 DEF ScanBegins, ScanEnds, ExitCheck, Go, loop, radio, TypeOK
  <1>7. ASSUME NEW r \in Requests, Start(r) PROVE Alone' /\ Handover'
    BY <1>7 DEF Start, Go, radio, TypeOK
  <1>8. ASSUME NEW t \in Threads, Loop(t) \/ \E d \in Devices : Kick(t, d)
        PROVE  Alone' /\ Handover'
    BY <1>8 DEF Loop, TickBegins, TickEnds, ThreadEnds, Kick, loop, radio, request, TypeOK
  <1>9. ASSUME NEW d \in Devices, Dial(d) \/ DialEnds(d) \/ LinkDrop(d) \/ LinkClosed(d)
        PROVE  Alone' /\ Handover'
    BY <1>9 DEF Dial, DialEnds, LinkDrop, LinkClosed, loop, request, TypeOK
  <1>10. CASE UNCHANGED vars
    BY <1>10 DEF vars, loop, radio, request
  <1> QED
    BY <1>1, <1>2, <1>3, <1>4, <1>5, <1>6, <1>7, <1>8, <1>9, <1>10 DEF Next, Continue

\* As long as no scan was asked for while another was under way, _monitor_worker
\* knows the only monitor thread that was not told to stop, and there is none from
\* the end of monitor_stop to monitor_start: no scan leaves a thread behind that
\* nobody can stop, also when the thread outlives the two seconds stop() waits for it.
THEOREM ScansInTurn == Spec => []OneMonitor
  <1>1. Init => InTurn
    BY NamesAssumption DEF Init, InTurn, Alone, Handover
  <1>2. InTurn => OneMonitor
    BY DEF InTurn, Handover, OneMonitor, Restarting
  <1> QED
    BY <1>1, <1>2, InTurnStep, TypeCorrect, PTL DEF Spec

-----------------------------------------------------------------------------
(* The links *)

\* Every step on the links of the manager is one of module Links.
LEMMA LinkSteps == TypeOK /\ [Next]_vars => [Backend!Next]_[d \in Devices |-> LinkOf(d)]
  <1> DEFINE seen == [d \in Devices |-> LinkOf(d)]
  <1> SUFFICES ASSUME TypeOK, [Next]_vars, link' # link PROVE Backend!Next \/ seen' = seen
    BY DEF LinkOf
  <1>1. PICK d \in Devices, state \in {"none", "connecting", "dialling", "up", "closing"} :
           /\ link' = [link EXCEPT ![d] = state]
           /\ \/ link[d] = "none" /\ state = "connecting"
              \/ link[d] = "connecting" /\ state = "dialling"
              \/ link[d] = "dialling" /\ state \in {"up", "none"}
              \/ link[d] = "up" /\ state = "closing"
              \/ link[d] = "closing" /\ state = "none"
    <2>1. ASSUME NEW r \in Requests, Disconnect(r) \/ DisconnectRaises(r)
          PROVE  at[r] \in Devices /\ link[at[r]] = "up"
                 /\ link' = [link EXCEPT ![at[r]] = "closing"]
      BY <2>1 DEF Disconnect, DisconnectRaises, HangUp, TypeOK
    <2>2. ASSUME NEW t \in Threads, NEW d \in Devices, Kick(t, d)
          PROVE  link[d] = "none" /\ link' = [link EXCEPT ![d] = "connecting"]
      BY <2>2 DEF Kick
    <2>3. (\E r \in Requests : Disconnect(r) \/ DisconnectRaises(r))
          \/ (\E t \in Threads, d \in Devices : Kick(t, d))
          \/ (\E d \in Devices : Dial(d) \/ DialEnds(d) \/ LinkDrop(d) \/ LinkClosed(d))
      BY DEF Next, Continue, Enter, StopCheck, Stop, StopRaises, Joined, ListFails, Look, Open,
             ScanBegins, ScanEnds, ExitCheck, Start, Loop, TickBegins, TickEnds, ThreadEnds,
             radio, vars
    <2> QED
      BY <2>1, <2>2, <2>3 DEF Dial, DialEnds, LinkDrop, LinkClosed
  <1>2. seen' = [seen EXCEPT ![d] = IF state = "dialling" THEN "connecting" ELSE state]
    BY <1>1 DEF LinkOf, TypeOK
  <1>3. seen[d] = IF link[d] = "dialling" THEN "connecting" ELSE link[d]
    BY DEF LinkOf
  <1>4. seen = [seen EXCEPT ![d] = seen[d]]
    OBVIOUS
  <1>5. CASE link[d] = "connecting" /\ state = "dialling"
    BY <1>2, <1>3, <1>4, <1>5
  <1>6. CASE ~(link[d] = "connecting" /\ state = "dialling")
    BY <1>1, <1>2, <1>3, <1>6
       DEF Backend!Next, Backend!Ask, Backend!Answer, Backend!Lose, Backend!Forget, Backend!Becomes
  <1> QED
    BY <1>5, <1>6

\* scan_window and the monitor use the links as module Links, which BluepyManager
\* implements, allows.
THEOREM ScanKeepsToLinks == Spec => ImplementsLinks
  <1>1. Init => Backend!Init
    BY DEF Init, Backend!Init, Backend!States, LinkOf
  <1> QED
    BY <1>1, LinkSteps, TypeCorrect, PTL DEF Spec, ImplementsLinks, Backend!Spec
=============================================================================
