--------------------- MODULE ChannelSubscriptionsProofs ---------------------
(***************************************************************************)
(* What the subscriptions of a device come to, for every number of         *)
(* characteristics, of channels and of requests, with either backend.      *)
(*                                                                         *)
(* HeardIsShown speaks of a uuid nobody works on any more.  Why it holds   *)
(* then is said by what is true of the uuid all along (Sure): whoever is   *)
(* about to subscribe a channel has one that is there; what the worker has *)
(* still to do for a channel that is gone is followed by its               *)
(* unsubscription; and a channel that is there is heard, or on its way.    *)
(***************************************************************************)
EXTENDS ChannelSubscriptions, TLAPS

USE MaxIdAssumption, NamesAssumption

Unsubscribed == [u \in Uuids |-> NoId]

\* Where a caller can be and with what.
Placed ==
    /\ pc[Monitor] \in {"idle", "next", "submit", "subscribing", "subscribed", "over"}
    /\ \A r \in Requests : pc[r] # "next"
    /\ \A c \in Callers : pc[c] = "insert" => at[c].id = NoId /\ at[c].uuid \in Uuids
    /\ \A c \in Callers : pc[c] \notin {"idle", "next", "insert"} => at[c] \in Channel

\* A link is asked for only between ticks; without one nothing is queued and nothing heard.
Linked ==
    /\ asked => ~link /\ ~booked /\ pc[Monitor] = "idle"
    /\ ~link => queue = <<>> /\ handler = Unsubscribed

\* Ids are never given away twice, so a channel somebody has in hand is there or gone, and
\* never another one; the same goes for what is heard.
Fits(c) == c.id < nextId /\ rows[c.id] \in {c.uuid, NoUuid}
Fresh ==
    /\ \A c \in todo : Fits(c)
    /\ \A d \in Callers : at[d] \in Channel => Fits(at[d])
    /\ \A i \in DOMAIN queue : Fits(queue[i].of)
    /\ \A u \in Uuids : handler[u] # NoId => Fits([id |-> handler[u], uuid |-> u])

\* A command with a caller is waited for, and each caller has one.
Awaited ==
    /\ \A i \in DOMAIN queue : queue[i].by # Nobody => pc[queue[i].by] \in {"subscribing", "unsubscribing"}
    /\ \A i, j \in DOMAIN queue : queue[i].by = queue[j].by /\ queue[i].by # Nobody => i = j

\* The empty queue is a queue.
LEMMA EmptyQueue == <<>> \in Seq(Command) /\ Len(<<>>) = 0 /\ DOMAIN <<>> = {}
  OBVIOUS

\* Names of callers and of channels.
LEMMA Naming ==
    /\ NoChannel \notin Channel /\ NoId \notin Ids /\ Ids \subseteq Nat
    /\ Nobody \notin Callers
    /\ \A c \in Channel : c.id \in Ids /\ c.uuid \in Uuids /\ c = [id |-> c.id, uuid |-> c.uuid]
    /\ \A u \in Uuids : [id |-> NoId, uuid |-> u] # NoChannel /\ [id |-> NoId, uuid |-> u] \notin Channel
  BY DEF Channel, NoChannel, NoId, Ids, Callers

LEMMA Listing == Listed \subseteq Channel
  BY DEF Listed

LEMMA CommandsType ==
    ASSUME queue \in Seq(Command)
    PROVE  /\ DOMAIN queue = 1..Len(queue) /\ Len(queue) \in Nat
           /\ \A i \in DOMAIN queue : /\ queue[i] \in Command
                                      /\ queue[i].op \in {"subscribe", "unsubscribe"}
                                      /\ queue[i].of \in Channel
                                      /\ queue[i].by \in Callers \cup {Nobody}
<1>1. DOMAIN queue = 1..Len(queue) /\ Len(queue) \in Nat /\ \A i \in DOMAIN queue : queue[i] \in Command
  OBVIOUS
<1>. QED
  BY <1>1 DEF Command

-----------------------------------------------------------------------------
(* Types *)

\* A caller is somewhere with something in hand.
Located ==
    /\ pc \in [Callers -> {"idle", "next", "submit", "subscribing", "subscribed", "over",
                           "insert", "check", "delete", "forget", "unsubmit", "unsubscribing"}]
    /\ at \in [Callers -> Channel \cup {NoChannel} \cup [id : {NoId}, uuid : Uuids]]
    /\ \A c \in Callers : at[c] = NoChannel <=> pc[c] \in {"idle", "next"}
    /\ Placed

\* A caller that goes on, with a channel in hand.
LEMMA Goes ==
    ASSUME Located, NEW c \in Callers, NEW s, Go(c, s), NEW h, at' = [at EXCEPT ![c] = h],
           h \in Channel,
           IF c = Monitor THEN s \in {"submit", "subscribing", "subscribed", "over"}
           ELSE s \in {"submit", "subscribing", "subscribed", "over", "check", "delete",
                       "forget", "unsubmit", "unsubscribing"}
    PROVE  Located'
  BY Naming DEF Located, Placed, Go, Callers

\* A caller that is through.
LEMMA Leaves ==
    ASSUME Located, NEW c \in Callers, Leave(c)
    PROVE  Located'
  BY Naming DEF Located, Placed, Leave, Go, Callers


\* What Next adds to the conjunction of TypeOK and Placed.
LEMMA LocatedIs == TypeOK /\ Placed => Located
  BY DEF TypeOK, Located

\* What is put into the queue goes to its end.
LEMMA Appended ==
    ASSUME queue \in Seq(Command), NEW c \in Command, queue' = Append(queue, c)
    PROVE  /\ queue' \in Seq(Command)
           /\ Len(queue) \in Nat /\ Len(queue') = Len(queue) + 1
           /\ DOMAIN queue = 1..Len(queue) /\ DOMAIN queue' = 1..Len(queue) + 1
           /\ \A i \in DOMAIN queue : i \in DOMAIN queue' /\ queue'[i] = queue[i]
           /\ queue'[Len(queue) + 1] = c
  OBVIOUS

\* What is taken out comes from its front.
LEMMA Taken ==
    ASSUME queue \in Seq(Command), queue # <<>>, queue' = Tail(queue)
    PROVE  /\ queue' \in Seq(Command)
           /\ Len(queue) \in Nat \ {0} /\ Len(queue') = Len(queue) - 1
           /\ DOMAIN queue = 1..Len(queue) /\ DOMAIN queue' = 1..Len(queue) - 1
           /\ \A i \in DOMAIN queue' : i + 1 \in DOMAIN queue /\ queue'[i] = queue[i + 1]
           /\ 1 \in DOMAIN queue /\ Head(queue) = queue[1]
  OBVIOUS

\* A caller gives its commands up.
LEMMA GivenUp ==
    ASSUME queue \in Seq(Command), NEW c \in Callers, Timeout(c)
    PROVE  /\ queue' \in Seq(Command)
           /\ DOMAIN queue' = DOMAIN queue
           /\ \A i \in DOMAIN queue : /\ queue'[i].op = queue[i].op /\ queue'[i].of = queue[i].of
                                      /\ queue'[i].by = IF queue[i].by = c THEN Nobody ELSE queue[i].by
<1>1. DOMAIN queue = 1..Len(queue) /\ Len(queue) \in Nat
  BY CommandsType
<1>2. queue' = [i \in 1..Len(queue) |->
                   IF queue[i].by = c THEN [queue[i] EXCEPT !.by = Nobody] ELSE queue[i]]
  BY <1>1 DEF Timeout
<1>3. \A i \in 1..Len(queue) : queue'[i] \in Command
  BY <1>1, <1>2, CommandsType DEF Command
<1>4. queue' \in Seq(Command)
  BY <1>1, <1>2, <1>3
<1>5. \A i \in 1..Len(queue) : queue[i] \in Command
  BY <1>1
<1>. QED
  BY <1>1, <1>2, <1>4, <1>5 DEF Command

\* Each step of a caller takes it to where it can be.
LEMMA LocatedStep ==
    ASSUME TypeOK, Placed, Awaited, [Next]_vars
    PROVE  Located'
<1>l. Located
  BY LocatedIs
<1>k. ASSUME UNCHANGED <<pc, at>> PROVE Located'
  BY <1>k, <1>l DEF Located, Placed
<1>s. ASSUME NEW c \in Callers, NEW s, Go(c, s), at' = at,
             pc[c] \notin {"idle", "next", "insert"},
             IF c = Monitor THEN s \in {"submit", "subscribing", "subscribed", "over"}
             ELSE s \in {"submit", "subscribing", "subscribed", "over", "check", "delete",
                         "forget", "unsubmit", "unsubscribing"}
      PROVE  Located'
  <2>1. at[c] \in Channel /\ at' = [at EXCEPT ![c] = at[c]]
    BY <1>s, <1>l DEF Located, Placed
  <2>. QED
    BY <1>s, <1>l, <2>1, Goes
<1>1. CASE TickDown
  BY <1>1, <1>k DEF TickDown, thread
<1>2. CASE TickList
  BY <1>2, <1>l DEF TickList, Go, Located, Placed, Callers
<1>3. CASE TickNext
  <2>1. PICK c \in todo : at' = [at EXCEPT ![Monitor] = c]
    BY <1>3 DEF TickNext
  <2>2. c \in Channel /\ Go(Monitor, "submit") /\ Monitor \in Callers
    BY <1>3 DEF TickNext, TypeOK, Callers
  <2>. QED
    BY <1>l, <2>1, <2>2, Goes
<1>4. CASE TickBooked
  BY <1>4, <1>l DEF TickBooked, Go, Located, Placed, Callers
<1>5. CASE LinkUp
  BY <1>5, <1>k DEF LinkUp, thread
<1>6. CASE LinkFails
  BY <1>6, <1>k DEF LinkFails, thread
<1>7. CASE LinkDown
  <2>1. /\ at' = at
        /\ pc' = [c \in Callers |->
                    IF pc[c] \in {"subscribing", "unsubscribing"} THEN "over" ELSE pc[c]]
    BY <1>7 DEF LinkDown
  <2>. QED
    BY <2>1, <1>l DEF Located, Placed, Callers
<1>8. ASSUME Subscribe \/ SubscribeFails \/ Unsubscribe PROVE Located'
  <2>1. /\ queue # <<>> /\ at' = at
        /\ \E state \in {"subscribed", "over"} :
              pc' = [c \in Callers |-> IF c = Head(queue).by THEN state ELSE pc[c]]
    BY <1>8 DEF Subscribe, SubscribeFails, Unsubscribe, Answer
  <2>2. queue \in Seq(Command)
    BY DEF TypeOK
  <2>3. 1 \in DOMAIN queue /\ Head(queue) = queue[1]
    BY <2>1, <2>2
  <2>4. Head(queue).by \in Callers => pc[Head(queue).by] \in {"subscribing", "unsubscribing"}
    BY <2>3, Naming DEF Awaited
  <2>5. CASE Head(queue).by \in Callers
    BY <2>1, <2>4, <2>5, <1>l DEF Located, Placed, Callers
  <2>6. CASE Head(queue).by \notin Callers
    <3>1. pc' = pc
      BY <2>1, <2>6, <1>l DEF Located
    <3>. QED
      BY <2>1, <3>1, <1>k
  <2>. QED
    BY <2>5, <2>6
<1>9. ASSUME NEW c \in Callers, Submit(c) \/ MockSubscribe(c) \/ Remember(c) \/ Over(c) \/ Timeout(c)
      PROVE  Located'
  <2>1. CASE Leave(c)
    BY <2>1, <1>l, Leaves
  <2>2. CASE at' = at /\ (Go(c, "subscribing") \/ Go(c, "subscribed")) /\ pc[c] = "submit"
    BY <2>2, <1>s
  <2>. QED
    BY <1>9, <2>1, <2>2 DEF Submit, MockSubscribe, Remember, Over, Timeout
<1>10. ASSUME NEW r \in Requests, NEW u \in Uuids, AddCheck(r, u) PROVE Located'
  <2>1. /\ pc' = [pc EXCEPT ![r] = "insert"] /\ r \in Callers /\ r # Monitor
        /\ at' = [at EXCEPT ![r] = [id |-> NoId, uuid |-> u]]
    BY <1>10 DEF AddCheck, Go, Callers
  <2>. QED
    BY <2>1, <1>l, Naming DEF Located, Placed
<1>11. ASSUME NEW r \in Requests, AddInsert(r) PROVE Located'
  <2>1. /\ at' = [at EXCEPT ![r].id = nextId] /\ Go(r, "check") /\ r \in Callers /\ r # Monitor
        /\ pc[r] = "insert" /\ nextId \in Ids
    BY <1>11 DEF AddInsert, Callers, TypeOK, Ids
  <2>2. at[r] \in [id : {NoId}, uuid : Uuids]
    BY <2>1, <1>l, Naming DEF Located, Placed, Channel
  <2>3. [at[r] EXCEPT !.id = nextId] \in Channel
    BY <2>1, <2>2 DEF Channel
  <2>4. at' = [at EXCEPT ![r] = [at[r] EXCEPT !.id = nextId]]
    BY <2>1, <1>l DEF Located
  <2>. QED
    BY <2>1, <2>3, <2>4, <1>l, Goes
<1>12. ASSUME NEW r \in Requests, NEW id \in Ids, DeleteRead(r, id) PROVE Located'
  <2>1. /\ at' = [at EXCEPT ![r] = [id |-> id, uuid |-> rows[id]]] /\ Go(r, "delete")
        /\ r \in Callers /\ r # Monitor /\ rows[id] \in Uuids
    BY <1>12 DEF DeleteRead, Callers, TypeOK
  <2>2. [id |-> id, uuid |-> rows[id]] \in Channel
    BY <2>1 DEF Channel
  <2>. QED
    BY <2>1, <2>2, <1>l, Goes
<1>13. ASSUME NEW r \in Requests,
              \/ AddRefused(r) \/ AddedSubscribes(r) \/ DeleteRow(r) \/ DeleteFails(r)
              \/ Forget(r) \/ Unsubmit(r) \/ MockUnsubscribe(r)
       PROVE  Located'
  <2>0. r \in Callers /\ r # Monitor
    BY DEF Callers
  <2>1. CASE Leave(r)
    BY <2>0, <2>1, <1>l, Leaves
  <2>2. CASE /\ at' = at /\ pc[r] \in {"check", "delete", "forget", "unsubmit"}
             /\ \E s \in {"submit", "forget", "unsubmit", "unsubscribing"} : Go(r, s)
    BY <2>0, <2>2, <1>s
  <2>. QED
    BY <1>13, <2>1, <2>2 DEF AddRefused, AddedSubscribes, DeleteRow, DeleteFails, Forget, Unsubmit,
                             MockUnsubscribe
<1>14. CASE UNCHANGED vars
  BY <1>14, <1>k DEF vars, thread
<1>. QED
  BY <1>1, <1>2, <1>3, <1>4, <1>5, <1>6, <1>7, <1>8, <1>9, <1>10, <1>11, <1>12, <1>13, <1>14 DEF Next

-----------------------------------------------------------------------------

\* Callers that wait wait for the commands they have in the queue.
LEMMA AwaitedStep ==
    ASSUME TypeOK, Placed, Awaited, [Next]_vars
    PROVE  Awaited'
<1>l. Located /\ queue \in Seq(Command)
  BY LocatedIs DEF TypeOK
<1>q. /\ DOMAIN queue = 1..Len(queue) /\ Len(queue) \in Nat
      /\ \A i \in DOMAIN queue : queue[i].by \in Callers \cup {Nobody}
  BY <1>l, CommandsType
<1>k. ASSUME queue' = queue,
             \A c \in Callers : pc[c] \in {"subscribing", "unsubscribing"} => pc'[c] = pc[c]
      PROVE  Awaited'
  BY <1>k, <1>q DEF Awaited
<1>c. ASSUME queue' = queue, NEW c \in Callers, pc[c] \notin {"subscribing", "unsubscribing"},
             NEW s, pc' = [pc EXCEPT ![c] = s]
      PROVE  Awaited'
  BY <1>c, <1>k, <1>l DEF Located
<1>e. ASSUME queue' = <<>> PROVE Awaited'
  BY <1>e DEF Awaited
<1>a. ASSUME NEW c \in Callers, pc[c] \in {"submit", "unsubmit"},
             NEW s \in {"subscribing", "unsubscribing"}, pc' = [pc EXCEPT ![c] = s],
             NEW k \in Command, k.by = c, queue' = Append(queue, k)
      PROVE  Awaited'
  <2>1. /\ DOMAIN queue' = 1..Len(queue) + 1
        /\ \A i \in DOMAIN queue : queue'[i] = queue[i]
        /\ queue'[Len(queue) + 1] = k
    BY <1>a, <1>l, Appended
  <2>2. \A i \in DOMAIN queue : queue[i].by # c
    BY <1>a, Naming DEF Awaited
  <2>3. \A i \in DOMAIN queue' : i \in DOMAIN queue \/ i = Len(queue) + 1
    BY <2>1, <1>q
  <2>4. pc'[c] = s /\ \A d \in Callers \ {c} : pc'[d] = pc[d]
    BY <1>a, <1>l DEF Located
  <2>5. \A i \in DOMAIN queue : queue'[i].by # c /\ queue'[i].by = queue[i].by
    BY <2>1, <2>2
  <2>6. queue'[Len(queue) + 1].by = c
    BY <1>a, <2>1
  <2>7. ASSUME NEW i \in DOMAIN queue', queue'[i].by # Nobody
        PROVE  pc'[queue'[i].by] \in {"subscribing", "unsubscribing"}
    BY <1>q, <2>3, <2>4, <2>5, <2>6, <2>7, <1>a DEF Awaited
  <2>8. ASSUME NEW i \in DOMAIN queue', NEW j \in DOMAIN queue', queue'[i].by = queue'[j].by,
               queue'[i].by # Nobody
        PROVE  i = j
    BY <2>3, <2>5, <2>6, <2>8 DEF Awaited
  <2>. QED
    BY <2>7, <2>8 DEF Awaited
<1>1. ASSUME TickDown \/ TickList \/ TickBooked \/ LinkUp \/ LinkFails PROVE Awaited'
  <2>1. queue' = queue /\ (pc' = pc \/ \E s : pc' = [pc EXCEPT ![Monitor] = s]) /\ Monitor \in Callers
    BY <1>1 DEF TickDown, TickList, TickBooked, LinkUp, LinkFails, thread, Go, Callers
  <2>2. pc' = pc \/ pc[Monitor] \in {"idle", "next"}
    BY <1>1 DEF TickDown, TickList, TickBooked, LinkUp, LinkFails, thread
  <2>. QED
    BY <2>1, <2>2, <1>k, <1>c
<1>2. CASE TickNext
  <2>1. queue' = queue /\ Monitor \in Callers /\ pc[Monitor] = "next" /\ Go(Monitor, "submit")
    BY <1>2 DEF TickNext, Callers
  <2>. QED
    BY <2>1, <1>c DEF Go
<1>3. CASE LinkDown
  BY <1>3, <1>e DEF LinkDown
<1>4. ASSUME Subscribe \/ SubscribeFails \/ Unsubscribe PROVE Awaited'
  <2>1. /\ queue # <<>> /\ queue' = Tail(queue)
        /\ \E state : pc' = [c \in Callers |-> IF c = Head(queue).by THEN state ELSE pc[c]]
    BY <1>4 DEF Subscribe, SubscribeFails, Unsubscribe, Answer
  <2>2. /\ DOMAIN queue' = 1..Len(queue) - 1 /\ Head(queue) = queue[1] /\ 1 \in DOMAIN queue
        /\ \A i \in DOMAIN queue' : i + 1 \in DOMAIN queue /\ queue'[i] = queue[i + 1]
    BY <2>1, <1>l, Taken
  <2>3. \A c \in Callers : c # queue[1].by => pc'[c] = pc[c]
    BY <2>1, <2>2
  <2>4. \A i \in DOMAIN queue' : i \in Nat \ {0} /\ i + 1 # 1
    BY <2>2, <1>q
  <2>5. ASSUME NEW i \in DOMAIN queue', queue'[i].by # Nobody
        PROVE  pc'[queue'[i].by] \in {"subscribing", "unsubscribing"}
    <3>1. queue[i + 1].by # queue[1].by /\ queue[i + 1].by \in Callers
      BY <2>2, <2>4, <2>5, <1>q DEF Awaited
    <3>. QED
      BY <3>1, <2>2, <2>3, <2>5 DEF Awaited
  <2>6. ASSUME NEW i \in DOMAIN queue', NEW j \in DOMAIN queue', queue'[i].by = queue'[j].by,
               queue'[i].by # Nobody
        PROVE  i = j
    <3>1. i + 1 = j + 1
      BY <2>2, <2>6 DEF Awaited
    <3>. QED
      BY <3>1, <2>4
  <2>. QED
    BY <2>5, <2>6 DEF Awaited
<1>5. ASSUME NEW c \in Callers, Submit(c) PROVE Awaited'
  <2>1. CASE link
    <3>1. [op |-> "subscribe", of |-> at[c], by |-> c] \in Command
      BY <1>5, <1>l DEF Submit, Located, Placed, Command
    <3>. QED
      BY <1>5, <2>1, <3>1, <1>a DEF Submit, Go
  <2>2. CASE ~link
    BY <1>5, <2>2, <1>c DEF Submit, Leave, Go
  <2>. QED
    BY <2>1, <2>2
<1>6. ASSUME NEW c \in Callers, MockSubscribe(c) \/ Remember(c) \/ Over(c) PROVE Awaited'
  <2>1. /\ queue' = queue /\ pc[c] \in {"submit", "subscribed", "over"}
        /\ \E s : pc' = [pc EXCEPT ![c] = s]
    BY <1>6 DEF MockSubscribe, Remember, Over, Leave, Go
  <2>. QED
    BY <2>1, <1>c
<1>7. ASSUME NEW c \in Callers, Timeout(c) PROVE Awaited'
  <2>1. /\ DOMAIN queue' = DOMAIN queue
        /\ \A i \in DOMAIN queue : queue'[i].by = IF queue[i].by = c THEN Nobody ELSE queue[i].by
    BY <1>7, <1>l, GivenUp
  <2>2. \A d \in Callers \ {c} : pc'[d] = pc[d]
    BY <1>7, <1>l DEF Timeout, Leave, Go, Located
  <2>. QED
    BY <2>1, <2>2, <1>q DEF Awaited
<1>8. ASSUME NEW r \in Requests,
             \/ AddInsert(r) \/ AddRefused(r) \/ AddedSubscribes(r) \/ DeleteRow(r)
             \/ DeleteFails(r) \/ Forget(r) \/ MockUnsubscribe(r)
             \/ (\E u \in Uuids : AddCheck(r, u)) \/ (\E id \in Ids : DeleteRead(r, id))
      PROVE  Awaited'
  <2>1. /\ queue' = queue /\ r \in Callers /\ pc[r] \notin {"subscribing", "unsubscribing"}
        /\ \E s : pc' = [pc EXCEPT ![r] = s]
    BY <1>8 DEF AddInsert, AddRefused, AddedSubscribes, DeleteRow, DeleteFails, Forget,
                MockUnsubscribe, AddCheck, DeleteRead, Leave, Go, Callers
  <2>. QED
    BY <2>1, <1>c
<1>9. ASSUME NEW r \in Requests, Unsubmit(r) PROVE Awaited'
  <2>0. r \in Callers
    BY DEF Callers
  <2>1. CASE link
    <3>1. [op |-> "unsubscribe", of |-> at[r], by |-> r] \in Command
      BY <1>9, <2>0, <1>l DEF Unsubmit, Located, Placed, Command
    <3>. QED
      BY <1>9, <2>0, <2>1, <3>1, <1>a DEF Unsubmit, Go
  <2>2. CASE ~link
    BY <1>9, <2>0, <2>2, <1>c DEF Unsubmit, Leave, Go
  <2>. QED
    BY <2>1, <2>2
<1>10. CASE UNCHANGED vars
  BY <1>10, <1>k DEF vars, thread
<1>. QED
  BY <1>1, <1>2, <1>3, <1>4, <1>5, <1>6, <1>7, <1>8, <1>9, <1>10 DEF Next

\* The table, what it is known for and the queue keep to their types.
LEMMA TypeStep ==
    ASSUME TypeOK, Placed, Awaited, [Next]_vars
    PROVE  TypeOK'
<1>l. Located /\ Located'
  BY LocatedIs, LocatedStep
<1>q. /\ queue \in Seq(Command) /\ <<>> \in Seq(Command)
      /\ Unsubscribed \in [Uuids -> Ids \cup {NoId}]
  BY EmptyQueue DEF TypeOK, Unsubscribed
<1>p. /\ pc' \in [Callers -> {"idle", "next", "submit", "subscribing", "subscribed", "over",
                           "insert", "check", "delete", "forget", "unsubmit", "unsubscribing"}]
      /\ at' \in [Callers -> Channel \cup {NoChannel} \cup [id : {NoId}, uuid : Uuids]]
      /\ \A c \in Callers : at'[c] = NoChannel <=> pc'[c] \in {"idle", "next"}
  BY <1>l DEF Located
<1>. USE DEF TypeOK, table, radio, thread
<1>1. CASE TickDown
  <2>1. asked' \in BOOLEAN /\ link' \in BOOLEAN /\ crossed' \subseteq Uuids /\ (backend = "mock" => ~asked')
    <3>1. CASE EnsureConnecting /\ backend = "mock"
      BY <3>1 DEF EnsureConnecting, NewLink
    <3>2. CASE EnsureConnecting /\ backend # "mock"
      BY <3>2 DEF EnsureConnecting
    <3>3. CASE UNCHANGED <<asked, link, crossed>>
      BY <3>3
    <3>. QED
      BY <1>1, <3>1, <3>2, <3>3 DEF TickDown
  <2>2. booked' = FALSE /\ UNCHANGED <<backend, rows, nextId, known, handler, queue, todo>>
    BY <1>1 DEF TickDown
  <2>. QED
    BY <2>1, <2>2, <1>p
<1>2. CASE TickList
  BY <1>2, <1>p, Listing DEF TickList
<1>3. CASE TickNext
  BY <1>3, <1>p DEF TickNext
<1>4. CASE TickBooked
  BY <1>4, <1>p DEF TickBooked
<1>5. CASE LinkUp
  BY <1>5, <1>p DEF LinkUp, NewLink
<1>6. CASE LinkFails
  BY <1>6, <1>p DEF LinkFails
<1>7. CASE LinkDown
  BY <1>7, <1>p, <1>q DEF LinkDown, Unsubscribed
<1>8. ASSUME Subscribe \/ SubscribeFails \/ Unsubscribe PROVE TypeOK'
  <2>1. queue # <<>> /\ queue' = Tail(queue)
    BY <1>8 DEF Subscribe, SubscribeFails, Unsubscribe, Answer
  <2>2. queue' \in Seq(Command) /\ Head(queue).of \in Channel /\ backend # "mock"
    BY <2>1, <1>q, Taken, CommandsType
  <2>3. Head(queue).of.id \in Ids /\ Head(queue).of.uuid \in Uuids
    BY <2>2, Naming
  <2>4. handler' \in [Uuids -> Ids \cup {NoId}] /\ crossed' \subseteq Uuids
    BY <1>8, <2>3 DEF Subscribe, SubscribeFails, Unsubscribe
  <2>5. UNCHANGED <<backend, table, known, booked, asked, link, todo>>
    BY <1>8 DEF Subscribe, SubscribeFails, Unsubscribe
  <2>. HIDE DEF TypeOK
  <2>. QED
    BY <2>2, <2>4, <2>5, <1>p DEF TypeOK
<1>9. ASSUME NEW c \in Callers, Submit(c) PROVE TypeOK'
  <2>1. [op |-> "subscribe", of |-> at[c], by |-> c] \in Command
    BY <1>9, <1>l DEF Submit, Located, Placed, Command
  <2>2. queue' \in Seq(Command)
    BY <1>9, <2>1, <1>q, Appended DEF Submit
  <2>. QED
    BY <1>9, <2>2, <1>p DEF Submit
<1>10. ASSUME NEW c \in Callers, MockSubscribe(c) PROVE TypeOK'
  <2>1. at[c] \in Channel
    BY <1>10, <1>l DEF MockSubscribe, Located, Placed
  <2>. QED
    BY <1>10, <2>1, <1>p, Naming DEF MockSubscribe
<1>11. ASSUME NEW c \in Callers, Remember(c) PROVE TypeOK'
  <2>1. at[c] \in Channel
    BY <1>11, <1>l DEF Remember, Located, Placed
  <2>. QED
    BY <1>11, <2>1, <1>p, Naming DEF Remember
<1>12. ASSUME NEW c \in Callers, Over(c) PROVE TypeOK'
  BY <1>12, <1>p DEF Over
<1>13. ASSUME NEW c \in Callers, Timeout(c) PROVE TypeOK'
  <2>1. queue' \in Seq(Command) /\ (queue = <<>> => queue' = <<>>)
    <3>1. queue' \in Seq(Command) /\ DOMAIN queue' = DOMAIN queue
      BY <1>13, <1>q, GivenUp
    <3>. QED
      BY <3>1, <1>q
  <2>. QED
    BY <1>13, <2>1, <1>p DEF Timeout
<1>14. ASSUME NEW r \in Requests,
              \/ \E u \in Uuids : AddCheck(r, u)
              \/ \E id \in Ids : DeleteRead(r, id)
              \/ AddRefused(r) \/ AddedSubscribes(r) \/ DeleteFails(r)
       PROVE  TypeOK'
  BY <1>14, <1>p DEF AddCheck, DeleteRead, AddRefused, AddedSubscribes, DeleteFails
<1>15. ASSUME NEW r \in Requests, AddInsert(r) PROVE TypeOK'
  <2>1. at[r].uuid \in Uuids /\ nextId \in Ids
    BY <1>15, <1>l DEF AddInsert, Located, Placed, Callers, Ids
  <2>2. rows' = [rows EXCEPT ![nextId] = at[r].uuid] /\ nextId' = nextId + 1
    BY <1>15 DEF AddInsert
  <2>3. rows' \in [Ids -> Uuids \cup {NoUuid}] /\ nextId' \in 1..MaxId + 1
    BY <2>1, <2>2 DEF Ids
  <2>4. \A id \in Ids : id >= nextId' => rows'[id] = NoUuid
    BY <2>1, <2>2 DEF Ids
  <2>5. crossed' \subseteq Uuids
    BY <1>15, <2>1 DEF AddInsert
  <2>. QED
    BY <1>15, <2>3, <2>4, <2>5, <1>p DEF AddInsert
<1>16. ASSUME NEW r \in Requests, DeleteRow(r) PROVE TypeOK'
  <2>1. at[r] \in Channel
    BY <1>16, <1>l DEF DeleteRow, Located, Placed, Callers
  <2>2. /\ rows' \in [Ids -> Uuids \cup {NoUuid}]
        /\ \A id \in Ids : id >= nextId => rows'[id] = NoUuid
    BY <1>16, <2>1, Naming DEF DeleteRow
  <2>3. crossed' \subseteq Uuids
    BY <1>16, <2>1, Naming DEF DeleteRow
  <2>. QED
    BY <1>16, <2>2, <2>3, <1>p DEF DeleteRow
<1>17. ASSUME NEW r \in Requests, Forget(r) PROVE TypeOK'
  BY <1>17, <1>p DEF Forget
<1>18. ASSUME NEW r \in Requests, Unsubmit(r) PROVE TypeOK'
  <2>1. [op |-> "unsubscribe", of |-> at[r], by |-> r] \in Command
    BY <1>18, <1>l DEF Unsubmit, Located, Placed, Command, Callers
  <2>2. queue' \in Seq(Command)
    BY <1>18, <2>1, <1>q, Appended DEF Unsubmit
  <2>. QED
    BY <1>18, <2>2, <1>p DEF Unsubmit
<1>19. ASSUME NEW r \in Requests, MockUnsubscribe(r) PROVE TypeOK'
  BY <1>19, <1>p DEF MockUnsubscribe
<1>20. CASE UNCHANGED vars
  BY <1>20, <1>p DEF vars
<1>. QED
  BY <1>1, <1>2, <1>3, <1>4, <1>5, <1>6, <1>7, <1>8, <1>9, <1>10, <1>11, <1>12, <1>13, <1>14,
     <1>15, <1>16, <1>17, <1>18, <1>19, <1>20 DEF Next

\* What a link carries goes with it.
LEMMA LinkedStep ==
    ASSUME TypeOK, Placed, Linked, [Next]_vars
    PROVE  Linked'
<1>l. Located
  BY LocatedIs
<1>h. handler \in [Uuids -> Ids \cup {NoId}] /\ queue \in Seq(Command)
  BY DEF TypeOK
<1>. USE DEF Linked, table, radio, thread, Unsubscribed
<1>1. CASE TickDown
  <2>1. (asked' => ~link') /\ (~link' => ~link)
    <3>1. CASE EnsureConnecting
      <4>1. backend = "mock" => ~asked
        BY DEF TypeOK
      <4>2. ~link
        BY <1>1 DEF TickDown
      <4>. QED
        BY <3>1, <4>1, <4>2 DEF EnsureConnecting, NewLink
    <3>2. CASE UNCHANGED <<asked, link, crossed>>
      BY <1>1, <3>2 DEF TickDown
    <3>. QED
      BY <1>1, <3>1, <3>2 DEF TickDown
  <2>2. /\ booked' = FALSE /\ handler' = handler /\ queue' = queue
        /\ pc[Monitor] = "idle" /\ pc' = pc
    BY <1>1 DEF TickDown
  <2>. QED
    BY <2>1, <2>2
<1>2. ASSUME TickList \/ TickNext \/ TickBooked PROVE Linked'
  BY <1>2, <1>l DEF TickList, TickNext, TickBooked, Located, Placed
<1>3. CASE LinkUp
  BY <1>3 DEF LinkUp, NewLink
<1>4. CASE LinkFails
  BY <1>4 DEF LinkFails
<1>5. CASE LinkDown
  BY <1>5 DEF LinkDown
<1>6. ASSUME Subscribe \/ SubscribeFails \/ Unsubscribe PROVE Linked'
  BY <1>6 DEF Subscribe, SubscribeFails, Unsubscribe, Answer
<1>7. ASSUME NEW c \in Callers, Submit(c) \/ MockSubscribe(c) \/ Remember(c) \/ Over(c) \/ Timeout(c)
      PROVE  Linked'
  <2>1. asked' = asked /\ link' = link /\ booked' = booked
    BY <1>7 DEF Submit, MockSubscribe, Remember, Over, Timeout
  <2>2. ~link => queue' = <<>> /\ handler' = Unsubscribed
    <3>1. CASE Timeout(c)
      <4>1. DOMAIN queue' = DOMAIN queue /\ queue' \in Seq(Command)
        BY <3>1, <1>h, GivenUp
      <4>. QED
        BY <3>1, <4>1, <1>h DEF Timeout
    <3>. QED
      BY <1>7, <3>1 DEF Submit, MockSubscribe, Remember, Over
  <2>3. asked => pc'[Monitor] = "idle"
    <3>1. pc[c] # "idle" /\ \E s : Go(c, s)
      BY <1>7 DEF Submit, MockSubscribe, Remember, Over, Timeout, Leave
    <3>. QED
      BY <3>1, <1>l DEF Go, Located
  <2>. QED
    BY <2>1, <2>2, <2>3
<1>8. ASSUME NEW r \in Requests,
             \/ AddInsert(r) \/ AddRefused(r) \/ AddedSubscribes(r) \/ DeleteRow(r)
             \/ DeleteFails(r) \/ Forget(r) \/ MockUnsubscribe(r) \/ Unsubmit(r)
             \/ (\E u \in Uuids : AddCheck(r, u)) \/ (\E id \in Ids : DeleteRead(r, id))
      PROVE  Linked'
  <2>1. asked' = asked /\ link' = link /\ booked' = booked
    BY <1>8 DEF AddInsert, AddRefused, AddedSubscribes, DeleteRow, DeleteFails, Forget,
                MockUnsubscribe, Unsubmit, AddCheck, DeleteRead
  <2>2. ~link => queue' = <<>> /\ handler' = Unsubscribed
    <3>1. CASE MockUnsubscribe(r)
      BY <3>1, <1>h DEF MockUnsubscribe
    <3>. QED
      BY <1>8, <3>1 DEF AddInsert, AddRefused, AddedSubscribes, DeleteRow, DeleteFails, Forget,
                  Unsubmit, AddCheck, DeleteRead
  <2>3. pc'[Monitor] = pc[Monitor]
    <3>1. \E s : Go(r, s)
      BY <1>8 DEF AddInsert, AddRefused, AddedSubscribes, DeleteRow, DeleteFails, Forget,
                  MockUnsubscribe, Unsubmit, AddCheck, DeleteRead, Leave
    <3>. QED
      BY <3>1, <1>l DEF Go, Located, Callers
  <2>. QED
    BY <2>1, <2>2, <2>3
<1>9. CASE UNCHANGED vars
  BY <1>9 DEF vars
<1>. QED
  BY <1>1, <1>2, <1>3, <1>4, <1>5, <1>6, <1>7, <1>8, <1>9 DEF Next

-----------------------------------------------------------------------------
(* Channels *)

\* A row that has been inserted is only ever deleted.
LEMMA Aging ==
    ASSUME TypeOK, Placed, [Next]_vars
    PROVE  /\ nextId \in Nat /\ nextId' \in Nat /\ nextId <= nextId'
           /\ \A id \in Ids : id < nextId => rows'[id] \in {rows[id], NoUuid}
<1>t. nextId \in Nat /\ rows \in [Ids -> Uuids \cup {NoUuid}] /\ Ids \subseteq Nat
  BY Naming DEF TypeOK
<1>1. ASSUME NEW r \in Requests, AddInsert(r)
      PROVE  nextId' = nextId + 1 /\ \A id \in Ids : id < nextId => rows'[id] = rows[id]
  BY <1>1, <1>t DEF AddInsert
<1>2. ASSUME NEW r \in Requests, DeleteRow(r)
      PROVE  nextId' = nextId /\ \A id \in Ids : rows'[id] \in {rows[id], NoUuid}
  BY <1>2, <1>t DEF DeleteRow
<1>3. ASSUME TickDown \/ TickList \/ TickNext \/ TickBooked \/ LinkUp \/ LinkFails \/ LinkDown
             \/ Subscribe \/ SubscribeFails \/ Unsubscribe \/ UNCHANGED vars
      PROVE  UNCHANGED table
  BY <1>3 DEF TickDown, TickList, TickNext, TickBooked, LinkUp, LinkFails, LinkDown,
              Subscribe, SubscribeFails, Unsubscribe, vars
<1>4. ASSUME NEW c \in Callers, Submit(c) \/ MockSubscribe(c) \/ Remember(c) \/ Over(c) \/ Timeout(c)
      PROVE  UNCHANGED table
  BY <1>4 DEF Submit, MockSubscribe, Remember, Over, Timeout
<1>5. ASSUME NEW r \in Requests,
             \/ \E u \in Uuids : AddCheck(r, u)
             \/ \E id \in Ids : DeleteRead(r, id)
             \/ AddRefused(r) \/ AddedSubscribes(r) \/ DeleteFails(r)
             \/ Forget(r) \/ Unsubmit(r) \/ MockUnsubscribe(r)
      PROVE  UNCHANGED table
  BY <1>5 DEF AddCheck, DeleteRead, AddRefused, AddedSubscribes, DeleteFails, Forget, Unsubmit,
              MockUnsubscribe
<1>6. ASSUME UNCHANGED table
      PROVE  nextId' = nextId /\ \A id \in Ids : rows'[id] = rows[id]
  BY <1>6 DEF table
<1>. QED
  BY <1>1, <1>2, <1>3, <1>4, <1>5, <1>6, <1>t DEF Next

\* A channel that fits goes on to, whatever is inserted and deleted.
LEMMA FitsOn ==
    ASSUME TypeOK, Placed, [Next]_vars, NEW c \in Channel, Fits(c)
    PROVE  Fits(c)'
<1>1. c.id \in Ids /\ c.id \in Nat
  BY Naming
<1>. QED
  BY <1>1, Aging DEF Fits

\* A row that is there fits.
LEMMA RowFits ==
    ASSUME TypeOK, NEW c \in Channel, rows[c.id] = c.uuid
    PROVE  Fits(c)
<1>1. c.id \in Ids /\ c.id \in Nat /\ c.uuid \in Uuids /\ nextId \in Nat
  BY Naming DEF TypeOK
<1>. QED
  BY <1>1 DEF TypeOK, Fits

\* What a step puts into a hand, into the queue or on the link was in another hand before,
\* or is a row.
LEMMA FreshStep ==
    ASSUME TypeOK, Placed, Linked, Fresh, [Next]_vars
    PROVE  Fresh'
<1>l. Located /\ queue \in Seq(Command) /\ todo \subseteq Channel /\ handler \in [Uuids -> Ids \cup {NoId}]
  BY LocatedIs DEF TypeOK
<1>q. DOMAIN queue = 1..Len(queue) /\ Len(queue) \in Nat /\ \A i \in DOMAIN queue : queue[i].of \in Channel
  BY <1>l, CommandsType
<1>f. \A c \in Channel : Fits(c) => Fits(c)'
  BY FitsOn
<1>r. \A c \in Channel : rows[c.id] = c.uuid => Fits(c)'
  BY RowFits, FitsOn
<1>1. ASSUME NEW c \in todo' PROVE Fits(c)'
  <2>1. c \in todo \/ c \in Listed
    <3>1. ASSUME TickDown \/ TickBooked \/ LinkUp \/ LinkFails \/ LinkDown
                 \/ Subscribe \/ SubscribeFails \/ Unsubscribe \/ UNCHANGED vars
          PROVE  todo' = todo
      BY <3>1 DEF TickDown, TickBooked, LinkUp, LinkFails, LinkDown,
                  Subscribe, SubscribeFails, Unsubscribe, vars, thread
    <3>2. TickList => todo' = Listed
      BY DEF TickList
    <3>3. TickNext => todo' \subseteq todo
      BY DEF TickNext
    <3>4. ASSUME NEW d \in Callers, Submit(d) \/ MockSubscribe(d) \/ Remember(d) \/ Over(d) \/ Timeout(d)
          PROVE  todo' = todo
      BY <3>4 DEF Submit, MockSubscribe, Remember, Over, Timeout
    <3>5. ASSUME NEW r \in Requests,
                 \/ \E u \in Uuids : AddCheck(r, u)
                 \/ \E id \in Ids : DeleteRead(r, id)
                 \/ AddInsert(r) \/ AddRefused(r) \/ AddedSubscribes(r) \/ DeleteRow(r)
                 \/ DeleteFails(r) \/ Forget(r) \/ Unsubmit(r) \/ MockUnsubscribe(r)
          PROVE  todo' = todo
      BY <3>5 DEF AddCheck, DeleteRead, AddInsert, AddRefused, AddedSubscribes, DeleteRow,
                  DeleteFails, Forget, Unsubmit, MockUnsubscribe
    <3>. QED
      BY <1>1, <3>1, <3>2, <3>3, <3>4, <3>5 DEF Next
  <2>2. c \in Channel
    BY <2>1, <1>l, Listing
  <2>. QED
    BY <2>1, <2>2, <1>f, <1>r DEF Fresh, Listed
<1>2. ASSUME NEW d \in Callers, at'[d] \in Channel PROVE Fits(at[d])'
  <2>1. CASE at'[d] = at[d]
    BY <1>2, <2>1, <1>f DEF Fresh
  <2>2. CASE at'[d] \in todo
    BY <1>2, <2>2, <1>f DEF Fresh
  <2>3. CASE rows[at'[d].id] = at'[d].uuid
    BY <1>2, <2>3, <1>r
  <2>4. CASE at'[d].id < nextId' /\ rows'[at'[d].id] = at'[d].uuid
    BY <2>4 DEF Fits
  <2>n. NoChannel \notin Channel /\ \A u \in Uuids : [id |-> NoId, uuid |-> u] \notin Channel
    BY Naming
  <2>5. ASSUME TickDown \/ TickList \/ TickBooked \/ LinkUp \/ LinkFails \/ LinkDown
                 \/ Subscribe \/ SubscribeFails \/ Unsubscribe \/ UNCHANGED vars
        PROVE  at' = at
    BY <2>5 DEF TickDown, TickList, TickBooked, LinkUp, LinkFails, LinkDown,
                Subscribe, SubscribeFails, Unsubscribe, vars, thread
  <2>6. ASSUME TickNext PROVE at'[d] = at[d] \/ at'[d] \in todo
    BY <2>6, <1>l DEF TickNext, Located, Callers
  <2>7. ASSUME NEW c \in Callers, Submit(c) \/ MockSubscribe(c) \/ Remember(c) \/ Over(c) \/ Timeout(c)
        PROVE  at'[d] = at[d] \/ at'[d] = NoChannel
    BY <2>7, <1>l DEF Submit, MockSubscribe, Remember, Over, Timeout, Leave, Located
  <2>8. ASSUME NEW r \in Requests,
                 \/ AddRefused(r) \/ AddedSubscribes(r) \/ DeleteRow(r)
                 \/ DeleteFails(r) \/ Forget(r) \/ Unsubmit(r) \/ MockUnsubscribe(r)
        PROVE  at'[d] = at[d] \/ at'[d] = NoChannel
    BY <2>8, <1>l DEF AddRefused, AddedSubscribes, DeleteRow, DeleteFails, Forget, Unsubmit,
                      MockUnsubscribe, Leave, Located, Callers
  <2>9. ASSUME NEW r \in Requests, NEW u \in Uuids, AddCheck(r, u)
        PROVE  at'[d] = at[d] \/ at'[d] = [id |-> NoId, uuid |-> u]
    BY <2>9, <1>l DEF AddCheck, Located, Callers
  <2>10. ASSUME NEW r \in Requests, NEW id \in Ids, DeleteRead(r, id)
         PROVE  at'[d] = at[d] \/ rows[at'[d].id] = at'[d].uuid
    <3>1. at' = [at EXCEPT ![r] = [id |-> id, uuid |-> rows[id]]]
      BY <2>10 DEF DeleteRead
    <3>. QED
      BY <3>1, <1>l DEF Located, Callers
  <2>11. ASSUME NEW r \in Requests, AddInsert(r)
         PROVE  at'[d] = at[d] \/ (at'[d].id < nextId' /\ rows'[at'[d].id] = at'[d].uuid)
    <3>1. CASE d # r
      BY <2>11, <3>1, <1>l DEF AddInsert, Located
    <3>2. CASE d = r
      <4>1. nextId \in Ids /\ nextId \in Nat /\ nextId' = nextId + 1
        BY <2>11 DEF AddInsert, TypeOK, Ids
      <4>2. rows' = [rows EXCEPT ![nextId] = at[r].uuid] /\ rows'[nextId] = at[r].uuid
        BY <2>11, <4>1 DEF AddInsert, TypeOK
      <4>3. at'[r] = [at[r] EXCEPT !.id = nextId]
        BY <2>11, <3>2, <1>l DEF AddInsert, Located
      <4>4. at[r] \in [id : {NoId}, uuid : Uuids]
        BY <2>11, <3>2, <1>l, Naming DEF AddInsert, Located, Placed, Channel
      <4>5. at'[r].id = nextId /\ at'[r].uuid = at[r].uuid
        BY <4>3, <4>4
      <4>. QED
        BY <3>2, <4>1, <4>2, <4>5
    <3>. QED
      BY <3>1, <3>2
  <2>. QED
    BY <1>2, <2>1, <2>2, <2>3, <2>4, <2>n, <2>5, <2>6, <2>7, <2>8, <2>9, <2>10, <2>11 DEF Next
<1>3. ASSUME NEW i \in DOMAIN queue' PROVE Fits(queue[i].of)'
  <2>1. CASE \E j \in DOMAIN queue : queue'[i].of = queue[j].of
    BY <2>1, <1>q, <1>f DEF Fresh
  <2>2. CASE \E c \in Callers : queue'[i].of = at[c] /\ at[c] \in Channel
    BY <2>2, <1>f DEF Fresh
  <2>3. ASSUME TickDown \/ TickList \/ TickNext \/ TickBooked \/ LinkUp \/ LinkFails \/ UNCHANGED vars
        PROVE  queue' = queue
    BY <2>3 DEF TickDown, TickList, TickNext, TickBooked, LinkUp, LinkFails, vars
  <2>4. ~LinkDown
    BY <1>3 DEF LinkDown
  <2>5. ASSUME Subscribe \/ SubscribeFails \/ Unsubscribe
        PROVE  \E j \in DOMAIN queue : queue'[i].of = queue[j].of
    <3>1. queue # <<>> /\ queue' = Tail(queue)
      BY <2>5 DEF Subscribe, SubscribeFails, Unsubscribe, Answer
    <3>. QED
      BY <1>3, <1>l, <3>1, Taken
  <2>6. ASSUME NEW c \in Callers, at[c] \in Channel, NEW op \in {"subscribe", "unsubscribe"},
               queue' = Append(queue, [op |-> op, of |-> at[c], by |-> c])
        PROVE  (\E j \in DOMAIN queue : queue'[i].of = queue[j].of) \/ queue'[i].of = at[c]
    <3>1. [op |-> op, of |-> at[c], by |-> c] \in Command
      BY <2>6 DEF Command
    <3>. QED
      BY <2>6, <1>3, <1>l, <3>1, Appended
  <2>7. ASSUME NEW c \in Callers, Submit(c) PROVE Fits(queue[i].of)'
    <3>1. at[c] \in Channel
      BY <2>7, <1>l DEF Submit, Located, Placed
    <3>. QED
      BY <2>7, <3>1, <2>6, <2>1, <2>2, <1>3 DEF Submit
  <2>8. ASSUME NEW r \in Requests, Unsubmit(r) PROVE Fits(queue[i].of)'
    <3>1. at[r] \in Channel /\ r \in Callers
      BY <2>8, <1>l DEF Unsubmit, Located, Placed, Callers
    <3>. QED
      BY <2>8, <3>1, <2>6, <2>1, <2>2, <1>3 DEF Unsubmit
  <2>9. ASSUME NEW c \in Callers, MockSubscribe(c) \/ Remember(c) \/ Over(c)
        PROVE  queue' = queue
    BY <2>9 DEF MockSubscribe, Remember, Over
  <2>10. ASSUME NEW c \in Callers, Timeout(c)
         PROVE  \E j \in DOMAIN queue : queue'[i].of = queue[j].of
    BY <2>10, <1>3, <1>l, GivenUp
  <2>11. ASSUME NEW r \in Requests,
                 \/ \E u \in Uuids : AddCheck(r, u)
                 \/ \E id \in Ids : DeleteRead(r, id)
                 \/ AddInsert(r) \/ AddRefused(r) \/ AddedSubscribes(r) \/ DeleteRow(r)
                 \/ DeleteFails(r) \/ Forget(r) \/ MockUnsubscribe(r)
         PROVE  queue' = queue
    BY <2>11 DEF AddCheck, DeleteRead, AddInsert, AddRefused, AddedSubscribes, DeleteRow,
                 DeleteFails, Forget, MockUnsubscribe
  <2>. QED
    BY <1>3, <2>1, <2>3, <2>4, <2>5, <2>7, <2>8, <2>9, <2>10, <2>11 DEF Next
<1>4. ASSUME NEW u \in Uuids, handler'[u] # NoId PROVE Fits([id |-> handler[u], uuid |-> u])'
  <2>1. CASE handler'[u] = handler[u]
    <3>1. [id |-> handler[u], uuid |-> u] \in Channel /\ Fits([id |-> handler[u], uuid |-> u])
      BY <1>4, <2>1, <1>l DEF Channel, Fresh
    <3>. QED
      BY <2>1, <3>1, <1>f
  <2>2. ASSUME NEW c \in Channel, Fits(c), c.uuid = u, handler'[u] = c.id
        PROVE  Fits([id |-> handler[u], uuid |-> u])'
    <3>1. c = [id |-> handler'[u], uuid |-> u]
      BY <2>2, Naming
    <3>. QED
      BY <2>2, <3>1, <1>f
  <2>3. ASSUME TickDown \/ TickList \/ TickNext \/ TickBooked \/ LinkUp \/ LinkFails
               \/ SubscribeFails \/ UNCHANGED vars
        PROVE  handler' = handler
    BY <2>3 DEF TickDown, TickList, TickNext, TickBooked, LinkUp, LinkFails, SubscribeFails, vars, radio
  <2>4. ~LinkDown
    BY <1>4 DEF LinkDown
  <2>5. CASE Subscribe
    <3>1. /\ queue # <<>> /\ handler' = [handler EXCEPT ![Head(queue).of.uuid] = Head(queue).of.id]
          /\ Head(queue) = queue[1] /\ 1 \in DOMAIN queue
      BY <2>5, <1>l DEF Subscribe
    <3>2. queue[1].of \in Channel /\ Fits(queue[1].of)
      BY <3>1, <1>q DEF Fresh
    <3>3. handler'[u] = handler[u] \/ (queue[1].of.uuid = u /\ handler'[u] = queue[1].of.id)
      BY <3>1, <1>l
    <3>. QED
      BY <3>2, <3>3, <2>1, <2>2
  <2>6. ASSUME Unsubscribe PROVE handler'[u] = handler[u]
    BY <2>6, <1>4, <1>l DEF Unsubscribe
  <2>7. ASSUME NEW c \in Callers, Submit(c) \/ Remember(c) \/ Over(c) \/ Timeout(c)
        PROVE  handler' = handler
    BY <2>7 DEF Submit, Remember, Over, Timeout, radio
  <2>8. ASSUME NEW c \in Callers, MockSubscribe(c) PROVE Fits([id |-> handler[u], uuid |-> u])'
    <3>1. at[c] \in Channel /\ Fits(at[c])
      BY <2>8, <1>l DEF MockSubscribe, Located, Placed, Fresh
    <3>2. handler'[u] = handler[u] \/ (at[c].uuid = u /\ handler'[u] = at[c].id)
      BY <2>8, <1>l DEF MockSubscribe
    <3>. QED
      BY <3>1, <3>2, <2>1, <2>2
  <2>9. ASSUME NEW r \in Requests,
                 \/ \E v \in Uuids : AddCheck(r, v)
                 \/ \E id \in Ids : DeleteRead(r, id)
                 \/ AddInsert(r) \/ AddRefused(r) \/ AddedSubscribes(r) \/ DeleteRow(r)
                 \/ DeleteFails(r) \/ Forget(r) \/ Unsubmit(r)
        PROVE  handler' = handler
    BY <2>9 DEF AddCheck, DeleteRead, AddInsert, AddRefused, AddedSubscribes, DeleteRow,
                DeleteFails, Forget, Unsubmit, radio
  <2>10. ASSUME NEW r \in Requests, MockUnsubscribe(r) PROVE handler'[u] = handler[u]
    BY <2>10, <1>4, <1>l DEF MockUnsubscribe
  <2>. QED
    BY <2>1, <2>3, <2>4, <2>5, <2>6, <2>7, <2>8, <2>9, <2>10 DEF Next
<1>. QED
  BY <1>1, <1>2, <1>3, <1>4 DEF Fresh

-----------------------------------------------------------------------------
(* Subscriptions *)

IsSub(i, u)   == queue[i].op = "subscribe" /\ queue[i].of.uuid = u
IsUnsub(i, u) == queue[i].op = "unsubscribe" /\ queue[i].of.uuid = u

\* The channel of a command is there, or the one that is heard.
Live(i)  == rows[queue[i].of.id] = queue[i].of.uuid
Heard(u) == handler[u] # NoId /\ rows[handler[u]] = u

\* The unsubscription of a channel with uuid u is still to be queued.
Removed(u) == \E r \in Requests : pc[r] \in {"forget", "unsubmit"} /\ at[r].uuid = u

Pending(u) == \/ ~booked /\ pc[Monitor] = "idle"
              \/ \E c \in Channel : Subscribing(c) /\ c.uuid = u

\* What is about to be subscribed is there.
SubscribesRows(u) == \A c \in Channel : Subscribing(c) /\ c.uuid = u => rows[c.id] = u

\* Once the worker has a channel that is there, it is not told anything else any more.
StaysHeard(u) ==
    /\ \A i, j \in DOMAIN queue : i < j /\ IsSub(i, u) /\ Live(i) =>
          ~IsUnsub(j, u) /\ (IsSub(j, u) => Live(j))
    /\ Heard(u) => \A j \in DOMAIN queue : ~IsUnsub(j, u) /\ (IsSub(j, u) => Live(j))

\* What it has of a channel that is gone will be taken away from it.
IsCleared(u) ==
    \/ Removed(u)
    \/ /\ \A i \in DOMAIN queue : IsSub(i, u) /\ ~Live(i) =>
             \E j \in DOMAIN queue : i < j /\ IsUnsub(j, u)
       /\ handler[u] # NoId /\ ~Heard(u) => \E j \in DOMAIN queue : IsUnsub(j, u)

\* A channel that is there is heard, or somebody still sees to it.
IsServed(u) ==
    link /\ OfUuid(u) # {} =>
        Heard(u) \/ (\E i \in DOMAIN queue : IsSub(i, u) /\ Live(i)) \/ Pending(u)

Sure(u) ==
    /\ Removed(u) => OfUuid(u) = {}
    /\ SubscribesRows(u)
    /\ StaysHeard(u)
    /\ IsCleared(u)
    /\ IsServed(u)

Types == TypeOK /\ Placed /\ Awaited /\ Linked /\ Fresh
Surely == \A u \in Uuids \ crossed : Sure(u)

\* A step that is not about uuid u.
LEMMA Same ==
    ASSUME NEW u \in Uuids, Sure(u), rows' = rows, link' = link, handler'[u] = handler[u],
           DOMAIN queue' = DOMAIN queue,
           \A i \in DOMAIN queue : queue'[i].op = queue[i].op /\ queue'[i].of = queue[i].of,
           Removed(u)' <=> Removed(u),
           \A c \in Channel : c.uuid = u => (Subscribing(c)' <=> Subscribing(c)),
           ~booked /\ pc[Monitor] = "idle" => ~booked' /\ pc'[Monitor] = "idle"
    PROVE  Sure(u)'
<1>1. /\ \A i \in DOMAIN queue : /\ IsSub(i, u)' <=> IsSub(i, u)
                                 /\ IsUnsub(i, u)' <=> IsUnsub(i, u)
                                 /\ Live(i)' <=> Live(i)
      /\ Heard(u)' <=> Heard(u)
      /\ OfUuid(u)' = OfUuid(u)
  BY DEF IsSub, IsUnsub, Live, Heard, OfUuid
<1>2. SubscribesRows(u)'
  BY DEF Sure, SubscribesRows
<1>3. StaysHeard(u)'
  BY <1>1 DEF Sure, StaysHeard
<1>4. IsCleared(u)'
  BY <1>1 DEF Sure, IsCleared
<1>5. IsServed(u)'
  BY <1>1 DEF Sure, IsServed, Pending
<1>. QED
  BY <1>1, <1>2, <1>3, <1>4, <1>5 DEF Sure

\* A caller that neither was nor gets to where it matters.
LEMMA Elsewhere ==
    ASSUME Located, NEW c \in Callers, NEW s, pc' = [pc EXCEPT ![c] = s],
           pc[c] \notin {"forget", "unsubmit", "check", "submit"},
           s \notin {"forget", "unsubmit", "check", "submit"},
           \A d \in Callers \ {c} : at'[d] = at[d], todo' = todo
    PROVE  /\ \A u : Removed(u)' <=> Removed(u)
           /\ \A k : Subscribing(k)' <=> Subscribing(k)
<1>1. /\ \A d \in Callers : pc'[d] = IF d = c THEN s ELSE pc[d]
      /\ Requests \subseteq Callers
  BY DEF Located, Callers
<1>. QED
  BY <1>1 DEF Removed, Subscribing

\* Without a link there is only what somebody is about to do.
LEMMA Unlinked ==
    ASSUME NEW u \in Uuids, Sure(u), rows' = rows, ~link', queue' = <<>>, handler' = Unsubscribed,
           Removed(u)' => Removed(u),
           \A c \in Channel : c.uuid = u /\ Subscribing(c)' => Subscribing(c)
    PROVE  Sure(u)'
<1>1. OfUuid(u)' = OfUuid(u) /\ DOMAIN queue' = {} /\ handler'[u] = NoId
  BY EmptyQueue DEF OfUuid, Unsubscribed
<1>. QED
  BY <1>1 DEF Sure, SubscribesRows, StaysHeard, IsCleared, IsServed, Heard

\* A link that comes up is still to be booked.
LEMMA Linking ==
    ASSUME Types, NewLink, ~link, ~booked', pc[Monitor] = "idle",
           UNCHANGED <<rows, handler, queue, pc, at, todo>>, Surely,
           NEW u \in Uuids \ crossed'
    PROVE  Sure(u)'
<1>1. u \notin crossed \/ ~Held(u)
  BY DEF NewLink
<1>2. /\ OfUuid(u)' = OfUuid(u) /\ (Removed(u)' <=> Removed(u))
      /\ \A c : Subscribing(c)' <=> Subscribing(c)
  BY DEF OfUuid, Removed, Subscribing
<1>3. ~Held(u) => ~Removed(u) /\ \A c \in Channel : c.uuid = u => ~Subscribing(c)
  BY DEF Held, Removed, Subscribing, Callers
<1>4. (Removed(u) => OfUuid(u) = {}) /\ SubscribesRows(u)
  BY <1>1, <1>3 DEF Surely, Sure, SubscribesRows
<1>5. DOMAIN queue' = {} /\ handler'[u] = NoId
  BY EmptyQueue DEF Types, Linked, Unsubscribed
<1>. QED
  BY <1>2, <1>4, <1>5 DEF Sure, SubscribesRows, StaysHeard, IsCleared, IsServed, Heard, Pending

\* The steps of the monitor and of the link.
LEMMA LinkSure ==
    ASSUME Types, Surely, NEW u \in Uuids \ crossed',
           TickDown \/ TickList \/ TickNext \/ TickBooked \/ LinkUp \/ LinkFails \/ LinkDown
           \/ UNCHANGED vars
    PROVE  Sure(u)'
<1>l. Located /\ Monitor \in Callers
  BY LocatedIs DEF Types, Callers
<1>s. ASSUME u \notin crossed PROVE Sure(u)
  BY <1>s DEF Surely
<1>k. ASSUME UNCHANGED <<rows, link, handler, queue, pc, at, todo>>, u \notin crossed,
             ~booked => ~booked'
      PROVE  Sure(u)'
  BY <1>k, <1>s, Same DEF Removed, Subscribing
<1>1. CASE TickDown
  <2>1. /\ ~link /\ ~booked' /\ pc[Monitor] = "idle"
        /\ UNCHANGED <<rows, handler, queue, pc, at, todo>>
        /\ NewLink \/ (link' = link /\ crossed' = crossed)
    BY <1>1 DEF TickDown, EnsureConnecting, table, thread
  <2>. QED
    BY <2>1, <1>k, Linking
<1>2. CASE TickList
  <2>1. /\ link' = link /\ u \notin crossed /\ UNCHANGED <<rows, handler, queue, at>>
        /\ todo' = Listed /\ pc' = [pc EXCEPT ![Monitor] = "next"] /\ pc[Monitor] = "idle"
    BY <1>2 DEF TickList, table, radio, Go
  <2>2. Sure(u)
    BY <2>1, <1>s
  <2>3. \A d \in Callers : d # Monitor => pc'[d] = pc[d] /\ at'[d] = at[d]
    BY <2>1, <1>l DEF Located
  <2>4. pc'[Monitor] = "next" /\ Requests \subseteq Callers /\ Monitor \notin Requests
    BY <2>1, <1>l DEF Located, Callers
  <2>5. Removed(u)' <=> Removed(u)
    BY <2>3, <2>4 DEF Removed
  <2>6. SubscribesRows(u)'
    BY <2>1, <2>2, <2>3, <2>4 DEF Sure, SubscribesRows, Subscribing, Listed
  <2>7. \A c \in Listed : Subscribing(c)'
    BY <2>1 DEF Subscribing
  <2>8. \A id \in OfUuid(u) : [id |-> id, uuid |-> u] \in Listed
    BY DEF OfUuid, Listed, Channel
  <2>9. IsServed(u)'
    <3>1. OfUuid(u)' = OfUuid(u)
      BY <2>1 DEF OfUuid
    <3>2. ASSUME NEW id \in OfUuid(u) PROVE Pending(u)'
      <4>. DEFINE c == [id |-> id, uuid |-> u]
      <4>1. c \in Listed /\ c \in Channel /\ c.uuid = u /\ Subscribing(c)'
        BY <2>7, <2>8 DEF Listed
      <4>. QED
        BY <4>1 DEF Pending
    <3>. QED
      BY <3>1, <3>2 DEF IsServed
  <2>10. StaysHeard(u)' /\ IsCleared(u)' /\ (Removed(u) => OfUuid(u) = {})'
    BY <2>1, <2>2, <2>5
       DEF Sure, StaysHeard, IsCleared, IsSub, IsUnsub, Live, Heard, OfUuid
  <2>. QED
    BY <2>6, <2>9, <2>10 DEF Sure
<1>3. CASE TickNext
  <2>1. /\ link' = link /\ u \notin crossed /\ UNCHANGED <<rows, handler, queue>>
        /\ pc' = [pc EXCEPT ![Monitor] = "submit"] /\ pc[Monitor] = "next"
    BY <1>3 DEF TickNext, table, radio, Go
  <2>2. PICK c \in todo : todo' = todo \ {c} /\ at' = [at EXCEPT ![Monitor] = c]
    BY <1>3 DEF TickNext
  <2>3. \A d \in Callers : d # Monitor => pc'[d] = pc[d] /\ at'[d] = at[d]
    BY <2>1, <2>2, <1>l DEF Located
  <2>4. /\ pc'[Monitor] = "submit" /\ at'[Monitor] = c
        /\ Requests \subseteq Callers /\ Monitor \notin Requests
    BY <2>1, <2>2, <1>l DEF Located, Callers
  <2>5. Removed(u)' <=> Removed(u)
    BY <2>3, <2>4 DEF Removed
  <2>6. ASSUME NEW k PROVE Subscribing(k)' <=> Subscribing(k)
    BY <2>1, <2>2, <2>3, <2>4, <1>l DEF Subscribing
  <2>. QED
    BY <2>1, <2>5, <2>6, <1>s, Same
<1>4. CASE TickBooked
  <2>1. /\ UNCHANGED <<rows, link, handler, queue, at, todo, crossed>>
        /\ pc' = [pc EXCEPT ![Monitor] = "idle"] /\ pc[Monitor] = "next"
    BY <1>4 DEF TickBooked, table, radio, Go
  <2>2. (Removed(u)' <=> Removed(u)) /\ \A k : Subscribing(k)' <=> Subscribing(k)
    BY <2>1, <1>l, Elsewhere
  <2>. QED
    BY <2>1, <2>2, <1>s, Same
<1>5. CASE LinkUp
  <2>1. /\ NewLink /\ ~link /\ ~booked' /\ pc[Monitor] = "idle"
        /\ UNCHANGED <<rows, handler, queue, pc, at, todo>>
    BY <1>5 DEF LinkUp, Types, Linked, table, thread
  <2>. QED
    BY <2>1, Linking
<1>6. CASE LinkFails
  BY <1>6, <1>k DEF LinkFails, table, thread
<1>7. CASE LinkDown
  <2>1. /\ UNCHANGED <<rows, at, todo, crossed>> /\ ~link' /\ queue' = <<>> /\ handler' = Unsubscribed
        /\ pc' = [c \in Callers |->
                    IF pc[c] \in {"subscribing", "unsubscribing"} THEN "over" ELSE pc[c]]
    BY <1>7 DEF LinkDown, table, Unsubscribed
  <2>2. Requests \subseteq Callers
    BY DEF Callers
  <2>3. (Removed(u)' => Removed(u)) /\ \A k : Subscribing(k)' => Subscribing(k)
    BY <2>1, <2>2 DEF Removed, Subscribing
  <2>. QED
    BY <2>1, <2>3, <1>s, Unlinked
<1>8. CASE UNCHANGED vars
  BY <1>8, <1>k DEF vars, table, radio, thread
<1>. QED
  BY <1>1, <1>2, <1>3, <1>4, <1>5, <1>6, <1>7, <1>8

\* The steps of callers that neither touch rows nor reach the worker.
LEMMA IdleSure ==
    ASSUME Types, Surely, NEW u \in Uuids \ crossed', NEW c \in Callers,
           \/ Remember(c) \/ Over(c) \/ Timeout(c)
           \/ c # Monitor /\ \E v \in Uuids : AddCheck(c, v)
           \/ c # Monitor /\ \E id \in Ids : DeleteRead(c, id)
           \/ AddRefused(c) \/ DeleteFails(c) \/ AddedSubscribes(c) \/ Forget(c)
           \/ ~link /\ (Submit(c) \/ MockSubscribe(c) \/ Unsubmit(c))
    PROVE  Sure(u)'
<1>l. Located /\ Monitor \in Callers /\ Requests \subseteq Callers /\ queue \in Seq(Command)
  BY LocatedIs DEF Types, Callers, TypeOK
<1>u. crossed' = crossed
  BY DEF Remember, Over, Timeout, AddCheck, DeleteRead, AddRefused, DeleteFails, AddedSubscribes,
         Forget, Submit, MockSubscribe, Unsubmit
<1>s. Sure(u)
  BY <1>u DEF Surely
<1>n. UNCHANGED <<rows, link, handler, todo, booked>>
  BY DEF Remember, Over, Timeout, AddCheck, DeleteRead, AddRefused, DeleteFails, AddedSubscribes,
         Forget, Submit, MockSubscribe, Unsubmit, table, radio
<1>p. ASSUME NEW d \in Callers, NEW s, pc' = [pc EXCEPT ![d] = s], pc[Monitor] = "idle",
             pc[d] # "idle" \/ d # Monitor
      PROVE  pc'[Monitor] = "idle"
  BY <1>p, <1>l DEF Located
<1>e. ASSUME NEW s, s \notin {"forget", "unsubmit", "check", "submit"}, Go(c, s),
             pc[c] \notin {"forget", "unsubmit", "check", "submit"},
             pc[c] # "idle" \/ c # Monitor,
             \A d \in Callers \ {c} : at'[d] = at[d],
             DOMAIN queue' = DOMAIN queue,
             \A i \in DOMAIN queue : queue'[i].op = queue[i].op /\ queue'[i].of = queue[i].of
      PROVE  Sure(u)'
  <2>1. pc' = [pc EXCEPT ![c] = s]
    BY <1>e DEF Go
  <2>2. (Removed(u)' <=> Removed(u)) /\ \A k : Subscribing(k)' <=> Subscribing(k)
    BY <1>e, <2>1, <1>l, <1>n, Elsewhere
  <2>3. ~booked /\ pc[Monitor] = "idle" => ~booked' /\ pc'[Monitor] = "idle"
    BY <1>e, <2>1, <1>p, <1>n
  <2>. QED
    BY <1>e, <2>2, <2>3, <1>s, <1>n, Same
<1>v. ASSUME Leave(c)
      PROVE  \E s \in {"next", "idle"} : Go(c, s) /\ \A d \in Callers \ {c} : at'[d] = at[d]
  BY <1>v, <1>l DEF Leave, Located
<1>1. CASE Remember(c) \/ Over(c)
  <2>1. Leave(c) /\ queue' = queue /\ pc[c] \in {"subscribed", "over"}
    BY <1>1 DEF Remember, Over
  <2>. QED
    BY <2>1, <1>v, <1>e
<1>2. CASE Timeout(c)
  <2>1. Leave(c) /\ pc[c] \in {"subscribing", "unsubscribing"}
    BY <1>2 DEF Timeout
  <2>2. /\ DOMAIN queue' = DOMAIN queue
        /\ \A i \in DOMAIN queue : queue'[i].op = queue[i].op /\ queue'[i].of = queue[i].of
    BY <1>2, <1>l, GivenUp
  <2>. QED
    BY <2>1, <2>2, <1>v, <1>e
<1>a. ASSUME pc[c] \in {"check", "forget", "unsubmit", "delete", "insert"} PROVE c # Monitor
  BY <1>a DEF Types, Placed
<1>3. ASSUME NEW v \in Uuids, AddCheck(c, v), c # Monitor PROVE Sure(u)'
  <2>1. /\ Go(c, "insert") /\ pc[c] = "idle" /\ queue' = queue
        /\ \A d \in Callers \ {c} : at'[d] = at[d]
    BY <1>3, <1>l DEF AddCheck, Located
  <2>. QED
    BY <1>3, <2>1, <1>e
<1>4. ASSUME NEW id \in Ids, DeleteRead(c, id), c # Monitor PROVE Sure(u)'
  <2>1. /\ Go(c, "delete") /\ pc[c] = "idle" /\ queue' = queue
        /\ \A d \in Callers \ {c} : at'[d] = at[d]
    BY <1>4, <1>l DEF DeleteRead, Located
  <2>. QED
    BY <1>4, <2>1, <1>e
<1>5. CASE AddRefused(c) \/ DeleteFails(c)
  <2>1. Leave(c) /\ queue' = queue /\ pc[c] \in {"insert", "delete"}
    BY <1>5 DEF AddRefused, DeleteFails
  <2>. QED
    BY <2>1, <1>v, <1>e
<1>m. ASSUME Linked, ~link, queue' = queue, Leave(c), pc[c] \in {"check", "submit", "forget", "unsubmit"}
      PROVE  Sure(u)'
  <2>1. queue' = <<>> /\ handler' = Unsubscribed /\ ~link'
    BY <1>m, <1>n DEF Linked
  <2>2. PICK s \in {"next", "idle"} : /\ pc' = [pc EXCEPT ![c] = s]
                                      /\ \A d \in Callers \ {c} : at'[d] = at[d]
    BY <1>m, <1>v DEF Go
  <2>3. /\ pc'[c] = s /\ \A d \in Callers \ {c} : pc'[d] = pc[d]
    BY <2>2, <1>l DEF Located
  <2>4. (Removed(u)' => Removed(u)) /\ \A k : Subscribing(k)' => Subscribing(k)
    BY <2>2, <2>3, <1>l, <1>n DEF Removed, Subscribing
  <2>. QED
    BY <2>1, <2>4, <1>n, <1>s, Unlinked
<1>j. Linked
  BY DEF Types
<1>6. CASE AddedSubscribes(c)
  <2>0. pc[c] = "check" /\ queue' = queue
    BY <1>6 DEF AddedSubscribes
  <2>1. CASE link
    <3>1. pc' = [pc EXCEPT ![c] = "submit"] /\ at' = at /\ c # Monitor
      BY <1>6, <2>0, <2>1, <1>a DEF AddedSubscribes, Go
    <3>2. pc'[c] = "submit" /\ \A d \in Callers \ {c} : pc'[d] = pc[d]
      BY <3>1, <1>l DEF Located
    <3>3. (Removed(u)' <=> Removed(u)) /\ \A k : Subscribing(k)' <=> Subscribing(k)
      BY <2>0, <3>1, <3>2, <1>l, <1>n DEF Removed, Subscribing
    <3>. QED
      BY <2>0, <3>1, <3>2, <3>3, <1>l, <1>n, <1>s, Same
  <2>2. CASE ~link
    BY <1>6, <2>0, <2>2, <1>m, <1>j DEF AddedSubscribes
  <2>. QED
    BY <2>1, <2>2
<1>7. CASE Forget(c)
  <2>0. pc[c] = "forget" /\ queue' = queue
    BY <1>7 DEF Forget
  <2>1. CASE link
    <3>1. pc' = [pc EXCEPT ![c] = "unsubmit"] /\ at' = at /\ c # Monitor
      BY <1>7, <2>0, <2>1, <1>a DEF Forget, Go
    <3>2. pc'[c] = "unsubmit" /\ \A d \in Callers \ {c} : pc'[d] = pc[d]
      BY <3>1, <1>l DEF Located
    <3>3. (Removed(u)' <=> Removed(u)) /\ \A k : Subscribing(k)' <=> Subscribing(k)
      BY <2>0, <3>1, <3>2, <1>l, <1>n DEF Removed, Subscribing
    <3>. QED
      BY <2>0, <3>1, <3>2, <3>3, <1>l, <1>n, <1>s, Same
  <2>2. CASE ~link
    BY <1>7, <2>0, <2>2, <1>m, <1>j DEF Forget
  <2>. QED
    BY <2>1, <2>2
<1>8. CASE ~link /\ (Submit(c) \/ Unsubmit(c))
  BY <1>8, <1>m, <1>j DEF Submit, Unsubmit
<1>9. CASE ~link /\ MockSubscribe(c)
  BY <1>9, <1>m, <1>j DEF MockSubscribe
<1>. QED
  BY <1>1, <1>2, <1>3, <1>4, <1>5, <1>6, <1>7, <1>8, <1>9

\* What a command put into the queue changes, and what not.
LEMMA Queued ==
    ASSUME queue \in Seq(Command), NEW k \in Command, queue' = Append(queue, k),
           rows' = rows, handler' = handler, NEW u, NEW n, n = Len(queue) + 1
    PROVE  /\ n \in DOMAIN queue'
           /\ \A i \in DOMAIN queue : i \in DOMAIN queue' /\ i < n
           /\ \A i \in DOMAIN queue' : i \in DOMAIN queue \/ i = n
           /\ \A i, j \in DOMAIN queue' : i < j => i \in DOMAIN queue
           /\ \A i \in DOMAIN queue : /\ IsSub(i, u)' <=> IsSub(i, u)
                                      /\ IsUnsub(i, u)' <=> IsUnsub(i, u)
                                      /\ Live(i)' <=> Live(i)
           /\ IsSub(n, u)' <=> k.op = "subscribe" /\ k.of.uuid = u
           /\ IsUnsub(n, u)' <=> k.op = "unsubscribe" /\ k.of.uuid = u
           /\ Live(n)' <=> rows[k.of.id] = k.of.uuid
           /\ Heard(u)' <=> Heard(u)
           /\ OfUuid(u)' = OfUuid(u)
<1>1. /\ Len(queue) \in Nat /\ DOMAIN queue = 1..Len(queue) /\ DOMAIN queue' = 1..Len(queue) + 1
      /\ \A i \in DOMAIN queue : queue'[i] = queue[i]
      /\ queue'[n] = k
  BY Appended
<1>. QED
  BY <1>1 DEF IsSub, IsUnsub, Live, Heard, OfUuid

LEMMA SubmitSure ==
    ASSUME Types, Surely, NEW u \in Uuids \ crossed', NEW c \in Callers, link, Submit(c)
    PROVE  Sure(u)'
<1>l. Located /\ Monitor \in Callers /\ Requests \subseteq Callers /\ queue \in Seq(Command)
  BY LocatedIs DEF Types, Callers, TypeOK
<1>s. Sure(u)
  BY DEF Submit, Surely
<1>. DEFINE k == at[c]
<1>m. PICK m : m = [op |-> "subscribe", of |-> k, by |-> c]
  OBVIOUS
<1>n0. PICK n : n = Len(queue) + 1
  OBVIOUS
<1>n. /\ UNCHANGED <<rows, link, handler, at, todo, booked>> /\ pc[c] = "submit"
      /\ queue' = Append(queue, m) /\ pc' = [pc EXCEPT ![c] = "subscribing"]
  BY <1>m DEF Submit, table, radio, Go
<1>c. k \in Channel /\ m \in Command
  BY <1>m, <1>n, <1>l DEF Located, Placed, Command
<1>p. pc'[c] = "subscribing" /\ \A d \in Callers \ {c} : pc'[d] = pc[d]
  BY <1>n, <1>l DEF Located
<1>q. m.op = "subscribe" /\ m.of = k
  BY <1>m
<1>d. /\ Removed(u)' <=> Removed(u)
      /\ \A x : Subscribing(x)' => Subscribing(x)
      /\ \A x : Subscribing(x) => Subscribing(x)' \/ x = k
      /\ Subscribing(k)
  BY <1>n, <1>p, <1>l DEF Removed, Subscribing
<1>1. /\ n \in DOMAIN queue'
      /\ \A i \in DOMAIN queue : i \in DOMAIN queue' /\ i < n
      /\ \A i \in DOMAIN queue' : i \in DOMAIN queue \/ i = n
      /\ \A i, j \in DOMAIN queue' : i < j => i \in DOMAIN queue
      /\ \A i \in DOMAIN queue : /\ IsSub(i, u)' <=> IsSub(i, u)
                                 /\ IsUnsub(i, u)' <=> IsUnsub(i, u)
                                 /\ Live(i)' <=> Live(i)
      /\ IsSub(n, u)' <=> k.uuid = u
      /\ ~IsUnsub(n, u)'
      /\ Live(n)' <=> rows[k.id] = k.uuid
      /\ Heard(u)' <=> Heard(u)
      /\ OfUuid(u)' = OfUuid(u)
  BY <1>l, <1>n0, <1>n, <1>c, <1>q, Queued
<1>2. k.uuid = u => Live(n)'
  BY <1>1, <1>s, <1>c, <1>d DEF Sure, SubscribesRows
<1>3. SubscribesRows(u)' /\ (Removed(u) => OfUuid(u) = {})'
  BY <1>s, <1>n, <1>d, <1>1 DEF Sure, SubscribesRows
<1>4. StaysHeard(u)'
  BY <1>1, <1>2, <1>s DEF Sure, StaysHeard
<1>5. IsCleared(u)'
  <2>1. ASSUME ~Removed(u),
               NEW i \in DOMAIN queue', IsSub(i, u)', ~Live(i)'
        PROVE  \E j \in DOMAIN queue' : i < j /\ IsUnsub(j, u)'
    BY <2>1, <1>1, <1>2, <1>s DEF Sure, IsCleared
  <2>2. ASSUME ~Removed(u), handler[u] # NoId, ~Heard(u)
        PROVE  \E j \in DOMAIN queue' : IsUnsub(j, u)'
    BY <2>2, <1>1, <1>s DEF Sure, IsCleared
  <2>. QED
    BY <2>1, <2>2, <1>1, <1>d, <1>n DEF IsCleared
<1>6. IsServed(u)'
  <2>1. CASE k.uuid = u
    BY <2>1, <1>1, <1>2 DEF IsServed
  <2>2. CASE k.uuid # u
    <3>1. Pending(u) => Pending(u)'
      BY <2>2, <1>d, <1>n, <1>p, <1>l DEF Pending
    <3>. QED
      BY <3>1, <1>1, <1>n, <1>s DEF Sure, IsServed
  <2>. QED
    BY <2>1, <2>2
<1>. QED
  BY <1>3, <1>4, <1>5, <1>6 DEF Sure

LEMMA UnsubmitSure ==
    ASSUME Types, Surely, NEW u \in Uuids \ crossed', NEW r \in Requests, link, Unsubmit(r)
    PROVE  Sure(u)'
<1>l. Located /\ Monitor \in Callers /\ Requests \subseteq Callers /\ queue \in Seq(Command)
      /\ Monitor \notin Requests
  BY LocatedIs DEF Types, Callers, TypeOK
<1>s. Sure(u)
  BY DEF Unsubmit, Surely
<1>. DEFINE k == at[r]
<1>m. PICK m : m = [op |-> "unsubscribe", of |-> k, by |-> r]
  OBVIOUS
<1>n0. PICK n : n = Len(queue) + 1
  OBVIOUS
<1>n. /\ UNCHANGED <<rows, link, handler, at, todo, booked>> /\ pc[r] = "unsubmit"
      /\ queue' = Append(queue, m) /\ pc' = [pc EXCEPT ![r] = "unsubscribing"]
  BY <1>m DEF Unsubmit, table, radio, Go
<1>c. k \in Channel /\ m \in Command
  BY <1>m, <1>n, <1>l DEF Located, Placed, Command
<1>p. pc'[r] = "unsubscribing" /\ \A d \in Callers \ {r} : pc'[d] = pc[d]
  BY <1>n, <1>l DEF Located
<1>q. m.op = "unsubscribe" /\ m.op # "subscribe" /\ m.of = k
  BY <1>m
<1>d. /\ Removed(u)' => Removed(u)
      /\ k.uuid = u => Removed(u)
      /\ k.uuid # u => (Removed(u)' <=> Removed(u))
      /\ \A x : Subscribing(x)' <=> Subscribing(x)
  BY <1>n, <1>p, <1>l DEF Removed, Subscribing
<1>1. /\ n \in DOMAIN queue'
      /\ \A i \in DOMAIN queue : i \in DOMAIN queue' /\ i < n
      /\ \A i \in DOMAIN queue' : i \in DOMAIN queue \/ i = n
      /\ \A i, j \in DOMAIN queue' : i < j => i \in DOMAIN queue
      /\ \A i \in DOMAIN queue : /\ IsSub(i, u)' <=> IsSub(i, u)
                                 /\ IsUnsub(i, u)' <=> IsUnsub(i, u)
                                 /\ Live(i)' <=> Live(i)
      /\ ~IsSub(n, u)'
      /\ IsUnsub(n, u)' <=> k.uuid = u
      /\ Heard(u)' <=> Heard(u)
      /\ OfUuid(u)' = OfUuid(u)
  <2>1. /\ IsSub(n, u)' <=> m.op = "subscribe" /\ m.of.uuid = u
        /\ IsUnsub(n, u)' <=> m.op = "unsubscribe" /\ m.of.uuid = u
    BY <1>l, <1>n0, <1>n, <1>c, Queued
  <2>2. ~IsSub(n, u)' /\ (IsUnsub(n, u)' <=> k.uuid = u)
    BY <2>1, <1>q
  <2>. QED
    BY <1>l, <1>n0, <1>n, <1>c, <2>2, Queued
<1>2. k.uuid = u => OfUuid(u) = {}
  BY <1>s, <1>d DEF Sure
<1>3. SubscribesRows(u)' /\ (Removed(u) => OfUuid(u) = {})'
  BY <1>s, <1>n, <1>d, <1>1 DEF Sure, SubscribesRows
<1>4. StaysHeard(u)'
  <2>1. CASE k.uuid = u
    <3>1. ~Heard(u) /\ \A i \in DOMAIN queue : ~(IsSub(i, u) /\ Live(i))
      <4>1. Heard(u) => handler[u] \in OfUuid(u)
        BY DEF Heard, OfUuid, Types, TypeOK
      <4>2. \A i \in DOMAIN queue : IsSub(i, u) /\ Live(i) => queue[i].of.id \in OfUuid(u)
        BY <1>l, CommandsType, Naming DEF IsSub, Live, OfUuid
      <4>. QED
        BY <2>1, <1>2, <4>1, <4>2
    <3>. QED
      BY <3>1, <1>1 DEF StaysHeard
  <2>2. CASE k.uuid # u
    BY <2>2, <1>1, <1>s DEF Sure, StaysHeard
  <2>. QED
    BY <2>1, <2>2
<1>5. IsCleared(u)'
  <2>1. CASE k.uuid = u
    BY <2>1, <1>1 DEF IsCleared
  <2>2. CASE k.uuid # u
    <3>1. ASSUME ~Removed(u), NEW i \in DOMAIN queue', IsSub(i, u)', ~Live(i)'
          PROVE  \E j \in DOMAIN queue' : i < j /\ IsUnsub(j, u)'
      BY <3>1, <1>1, <1>s DEF Sure, IsCleared
    <3>2. ASSUME ~Removed(u), handler[u] # NoId, ~Heard(u)
          PROVE  \E j \in DOMAIN queue' : IsUnsub(j, u)'
      BY <3>2, <1>1, <1>s DEF Sure, IsCleared
    <3>. QED
      BY <2>2, <3>1, <3>2, <1>1, <1>d, <1>n DEF IsCleared
  <2>. QED
    BY <2>1, <2>2
<1>6. IsServed(u)'
  <2>1. CASE k.uuid = u
    BY <2>1, <1>1, <1>2 DEF IsServed
  <2>2. CASE k.uuid # u
    <3>1. Pending(u) => Pending(u)'
      BY <1>d, <1>n, <1>p, <1>l DEF Pending
    <3>. QED
      BY <3>1, <1>1, <1>n, <1>s DEF Sure, IsServed
  <2>. QED
    BY <2>1, <2>2
<1>. QED
  BY <1>3, <1>4, <1>5, <1>6 DEF Sure

\* With the mock there is no queue between the caller and what is heard.
LEMMA MockSure ==
    ASSUME Types, Surely, NEW u \in Uuids \ crossed', NEW c \in Callers,
           (link /\ MockSubscribe(c)) \/ (c # Monitor /\ MockUnsubscribe(c))
    PROVE  Sure(u)'
<1>l. Located /\ Monitor \in Callers /\ Requests \subseteq Callers /\ Monitor \notin Requests
  BY LocatedIs DEF Types, Callers
<1>s. Sure(u)
  BY DEF MockSubscribe, MockUnsubscribe, Surely
<1>n. /\ UNCHANGED <<rows, link, todo, booked, queue>> /\ DOMAIN queue = {}
      /\ handler \in [Uuids -> Ids \cup {NoId}]
  BY EmptyQueue DEF MockSubscribe, MockUnsubscribe, table, Types, TypeOK
<1>1. ASSUME link, MockSubscribe(c) PROVE Sure(u)'
  <2>. DEFINE k == at[c]
  <2>1. /\ pc[c] = "submit" /\ at' = at /\ pc' = [pc EXCEPT ![c] = "subscribed"]
        /\ handler' = [handler EXCEPT ![k.uuid] = k.id]
    BY <1>1 DEF MockSubscribe, Go
  <2>2. k \in Channel /\ k.id # NoId
    BY <2>1, <1>l, Naming DEF Located, Placed
  <2>3. pc'[c] = "subscribed" /\ \A d \in Callers \ {c} : pc'[d] = pc[d]
    BY <2>1, <1>l DEF Located
  <2>4. /\ Removed(u)' <=> Removed(u)
        /\ \A x : Subscribing(x)' => Subscribing(x)
        /\ \A x : Subscribing(x) => Subscribing(x)' \/ x = k
        /\ Subscribing(k)
    BY <1>n, <2>1, <2>3, <1>l DEF Removed, Subscribing
  <2>5. CASE k.uuid = u
    <3>1. Heard(u)'
      BY <2>1, <2>2, <2>4, <2>5, <1>n, <1>s DEF Heard, Sure, SubscribesRows
    <3>2. OfUuid(u)' = OfUuid(u)
      BY <1>n DEF OfUuid
    <3>3. SubscribesRows(u)'
      BY <1>n, <2>4, <1>s DEF Sure, SubscribesRows
    <3>. QED
      BY <3>1, <3>2, <3>3, <1>n, <1>s, <2>4 DEF Sure, StaysHeard, IsCleared, IsServed
  <2>6. CASE k.uuid # u
    <3>1. handler'[u] = handler[u]
      BY <2>1, <2>6, <1>n
    <3>2. pc[Monitor] = "idle" => pc'[Monitor] = "idle"
      BY <2>1, <2>3, <1>l
    <3>3. \A x \in Channel : x.uuid = u => (Subscribing(x)' <=> Subscribing(x))
      BY <2>4, <2>6
    <3>. QED
      BY <3>1, <3>2, <3>3, <2>4, <1>n, <1>s, Same
  <2>. QED
    BY <2>5, <2>6
<1>2. ASSUME c # Monitor, MockUnsubscribe(c) PROVE Sure(u)'
  <2>. DEFINE k == at[c]
  <2>1. /\ pc[c] = "unsubmit" /\ pc' = [pc EXCEPT ![c] = "idle"]
        /\ \A d \in Callers \ {c} : at'[d] = at[d]
        /\ handler' = [handler EXCEPT ![k.uuid] = NoId]
    BY <1>2, <1>l DEF MockUnsubscribe, Leave, Go, Located
  <2>2. k \in Channel /\ c \in Requests
    BY <2>1, <1>2, <1>l DEF Located, Placed, Callers
  <2>3. pc'[c] = "idle" /\ \A d \in Callers \ {c} : pc'[d] = pc[d]
    BY <2>1, <1>l DEF Located
  <2>4. /\ Removed(u)' => Removed(u)
        /\ k.uuid # u => (Removed(u)' <=> Removed(u))
        /\ k.uuid = u => Removed(u)
        /\ \A x : Subscribing(x)' <=> Subscribing(x)
    BY <1>n, <2>1, <2>2, <2>3, <1>l DEF Removed, Subscribing
  <2>5. CASE k.uuid = u
    <3>1. handler'[u] = NoId
      BY <2>1, <2>5, <1>n
    <3>2. OfUuid(u)' = {} /\ ~Heard(u)'
      BY <1>n, <1>s, <2>4, <2>5, <3>1 DEF OfUuid, Sure, Heard
    <3>3. SubscribesRows(u)'
      BY <1>n, <2>4, <1>s DEF Sure, SubscribesRows
    <3>. QED
      BY <3>1, <3>2, <3>3, <1>n DEF Sure, StaysHeard, IsCleared, IsServed
  <2>6. CASE k.uuid # u
    <3>1. handler'[u] = handler[u]
      BY <2>1, <2>6, <1>n
    <3>2. pc[Monitor] = "idle" => pc'[Monitor] = "idle"
      BY <2>3, <1>2, <1>l
    <3>. QED
      BY <3>1, <3>2, <2>4, <2>6, <1>n, <1>s, Same
  <2>. QED
    BY <2>5, <2>6
<1>. QED
  BY <1>1, <1>2

\* What the worker takes from the front of its queue.
LEMMA Shifted ==
    ASSUME queue \in Seq(Command), queue # <<>>, queue' = Tail(queue), rows' = rows, NEW u
    PROVE  /\ 1 \in DOMAIN queue
           /\ \A i \in DOMAIN queue' : /\ i + 1 \in DOMAIN queue /\ i \in Nat /\ 1 < i + 1
                                       /\ IsSub(i, u)' <=> IsSub(i + 1, u)
                                       /\ IsUnsub(i, u)' <=> IsUnsub(i + 1, u)
                                       /\ Live(i)' <=> Live(i + 1)
           /\ \A i \in DOMAIN queue : i # 1 =>
                 \E j \in DOMAIN queue' : i = j + 1
           /\ \A i, j \in DOMAIN queue' : i < j <=> i + 1 < j + 1
           /\ Head(queue) = queue[1] /\ queue[1].of \in Channel
           /\ OfUuid(u)' = OfUuid(u)
<1>1. /\ Len(queue) \in Nat \ {0} /\ DOMAIN queue = 1..Len(queue) /\ DOMAIN queue' = 1..Len(queue) - 1
      /\ \A i \in DOMAIN queue' : queue'[i] = queue[i + 1]
      /\ Head(queue) = queue[1]
  BY Taken
<1>2. queue[1].of \in Channel
  BY <1>1, CommandsType
<1>3. \A i \in DOMAIN queue : i # 1 => i - 1 \in DOMAIN queue' /\ i = (i - 1) + 1
  BY <1>1
<1>4. OfUuid(u)' = OfUuid(u)
  BY DEF OfUuid
<1>. QED
  BY <1>1, <1>2, <1>3, <1>4 DEF IsSub, IsUnsub, Live

\* The steps of the worker.
LEMMA WorkerSure ==
    ASSUME Types, Surely, NEW u \in Uuids \ crossed', Subscribe \/ SubscribeFails \/ Unsubscribe
    PROVE  Sure(u)'
<1>l. /\ Located /\ Monitor \in Callers /\ Requests \subseteq Callers /\ queue \in Seq(Command)
      /\ handler \in [Uuids -> Ids \cup {NoId}]
  BY LocatedIs DEF Types, Callers, TypeOK
<1>s. Sure(u)
  BY DEF Subscribe, SubscribeFails, Unsubscribe, Surely
<1>n. /\ UNCHANGED <<rows, link, todo, booked, at>> /\ queue # <<>> /\ queue' = Tail(queue)
      /\ \E state \in {"subscribed", "over"} :
            pc' = [c \in Callers |-> IF c = Head(queue).by THEN state ELSE pc[c]]
  <2>1. CASE Subscribe
    BY <2>1 DEF Subscribe, Answer, table
  <2>2. CASE SubscribeFails
    BY <2>2 DEF SubscribeFails, Answer, table, radio
  <2>3. CASE Unsubscribe
    BY <2>3 DEF Unsubscribe, Answer, table
  <2>. QED
    BY <2>1, <2>2, <2>3
<1>1. /\ 1 \in DOMAIN queue
      /\ \A i \in DOMAIN queue' : /\ i + 1 \in DOMAIN queue /\ i \in Nat /\ 1 < i + 1
                                  /\ IsSub(i, u)' <=> IsSub(i + 1, u)
                                  /\ IsUnsub(i, u)' <=> IsUnsub(i + 1, u)
                                  /\ Live(i)' <=> Live(i + 1)
      /\ \A i \in DOMAIN queue : i # 1 => \E j \in DOMAIN queue' : i = j + 1
      /\ \A i, j \in DOMAIN queue' : i < j <=> i + 1 < j + 1
      /\ Head(queue) = queue[1] /\ queue[1].of \in Channel
      /\ OfUuid(u)' = OfUuid(u)
  BY <1>l, <1>n, Shifted
<1>2. \A c \in Callers : \/ pc'[c] = pc[c]
                         \/ /\ pc[c] \in {"subscribing", "unsubscribing"}
                            /\ pc'[c] \in {"subscribed", "over"}
  <2>1. \A c \in Callers : c = queue[1].by => pc[c] \in {"subscribing", "unsubscribing"}
    BY <1>1, Naming DEF Types, Awaited
  <2>. QED
    BY <2>1, <1>1, <1>n
<1>3. /\ Removed(u)' <=> Removed(u)
      /\ \A x : Subscribing(x)' <=> Subscribing(x)
      /\ Pending(u) => Pending(u)'
  <2>1. Removed(u)' <=> Removed(u)
    BY <1>2, <1>n, <1>l DEF Removed
  <2>2. \A x : Subscribing(x)' <=> Subscribing(x)
    BY <1>2, <1>n, <1>l DEF Subscribing
  <2>. QED
    BY <2>1, <2>2, <1>2, <1>n, <1>l DEF Pending
<1>4. SubscribesRows(u)' /\ (Removed(u) => OfUuid(u) = {})'
  BY <1>s, <1>n, <1>3, <1>1 DEF Sure, SubscribesRows
<1>5. ASSUME handler'[u] = handler[u], ~IsSub(1, u), ~IsUnsub(1, u) PROVE Sure(u)'
  <2>1. Heard(u)' <=> Heard(u)
    BY <1>5, <1>n DEF Heard
  <2>2. StaysHeard(u)'
    BY <2>1, <1>1, <1>s DEF Sure, StaysHeard
  <2>3. IsCleared(u)'
    <3>1. ASSUME ~Removed(u), NEW i \in DOMAIN queue', IsSub(i, u)', ~Live(i)'
          PROVE  \E j \in DOMAIN queue' : i < j /\ IsUnsub(j, u)'
      <4>1. PICK j \in DOMAIN queue : i + 1 < j /\ IsUnsub(j, u)
        BY <3>1, <1>1, <1>s DEF Sure, IsCleared
      <4>2. PICK k \in DOMAIN queue' : j = k + 1
        BY <4>1, <1>1, <1>5
      <4>. QED
        BY <4>1, <4>2, <3>1, <1>1
    <3>2. ASSUME ~Removed(u), handler[u] # NoId, ~Heard(u)
          PROVE  \E j \in DOMAIN queue' : IsUnsub(j, u)'
      <4>1. PICK j \in DOMAIN queue : IsUnsub(j, u)
        BY <3>2, <1>s DEF Sure, IsCleared
      <4>. QED
        BY <4>1, <1>1, <1>5
    <3>. QED
      BY <3>1, <3>2, <2>1, <1>3, <1>5 DEF IsCleared
  <2>4. IsServed(u)'
    <3>1. ASSUME NEW i \in DOMAIN queue, IsSub(i, u), Live(i)
          PROVE  \E j \in DOMAIN queue' : IsSub(j, u)' /\ Live(j)'
      BY <3>1, <1>1, <1>5
    <3>. QED
      BY <3>1, <2>1, <1>3, <1>1, <1>n, <1>s DEF Sure, IsServed
  <2>. QED
    BY <2>2, <2>3, <2>4, <1>4 DEF Sure
<1>6. CASE queue[1].of.uuid # u
  <2>1. ~IsSub(1, u) /\ ~IsUnsub(1, u)
    BY <1>6 DEF IsSub, IsUnsub
  <2>2. handler'[u] = handler[u]
    BY <1>6, <1>1, <1>l DEF Subscribe, SubscribeFails, Unsubscribe, radio
  <2>. QED
    BY <2>1, <2>2, <1>5
<1>7. ASSUME Subscribe, queue[1].of.uuid = u PROVE Sure(u)'
  <2>1. handler'[u] = queue[1].of.id /\ IsSub(1, u) /\ handler'[u] # NoId
    BY <1>7, <1>1, <1>l, Naming DEF Subscribe, IsSub
  <2>2. (Heard(u)' <=> Live(1))
    BY <2>1, <1>7, <1>n DEF Heard, Live
  <2>3. StaysHeard(u)'
    BY <2>1, <2>2, <1>1, <1>s DEF Sure, StaysHeard
  <2>4. IsCleared(u)'
    <3>1. ASSUME ~Removed(u), NEW i \in DOMAIN queue', IsSub(i, u)', ~Live(i)'
          PROVE  \E j \in DOMAIN queue' : i < j /\ IsUnsub(j, u)'
      <4>1. PICK j \in DOMAIN queue : i + 1 < j /\ IsUnsub(j, u)
        BY <3>1, <1>1, <1>s DEF Sure, IsCleared
      <4>2. j # 1
        BY <4>1, <1>1
      <4>3. PICK k \in DOMAIN queue' : j = k + 1
        BY <4>1, <4>2, <1>1
      <4>. QED
        BY <4>1, <4>3, <3>1, <1>1
    <3>2. ASSUME ~Removed(u), ~Live(1)
          PROVE  \E j \in DOMAIN queue' : IsUnsub(j, u)'
      <4>1. PICK j \in DOMAIN queue : 1 < j /\ IsUnsub(j, u)
        BY <3>2, <2>1, <1>1, <1>s DEF Sure, IsCleared
      <4>2. PICK k \in DOMAIN queue' : j = k + 1
        BY <4>1, <1>1
      <4>. QED
        BY <4>1, <4>2, <1>1
    <3>. QED
      BY <3>1, <3>2, <2>2, <1>3 DEF IsCleared
  <2>5. IsServed(u)'
    <3>1. Heard(u) => Live(1)
      BY <2>1, <1>1, <1>s DEF Sure, StaysHeard
    <3>2. ASSUME NEW i \in DOMAIN queue, IsSub(i, u), Live(i), ~Live(1)
          PROVE  \E j \in DOMAIN queue' : IsSub(j, u)' /\ Live(j)'
      BY <3>2, <1>1
    <3>. QED
      BY <3>1, <3>2, <2>2, <1>3, <1>1, <1>n, <1>s DEF Sure, IsServed
  <2>. QED
    BY <2>3, <2>4, <2>5, <1>4 DEF Sure
<1>8. ASSUME SubscribeFails PROVE queue[1].of.uuid # u
  BY <1>8, <1>1 DEF SubscribeFails
<1>9. ASSUME Unsubscribe, queue[1].of.uuid = u PROVE Sure(u)'
  <2>1. handler'[u] = NoId /\ IsUnsub(1, u) /\ ~IsSub(1, u)
    BY <1>9, <1>1, <1>l DEF Unsubscribe, IsUnsub, IsSub
  <2>2. ~Heard(u)' /\ ~Heard(u)
    BY <2>1, <1>1, <1>s DEF Heard, Sure, StaysHeard
  <2>3. StaysHeard(u)'
    BY <2>2, <1>1, <1>s DEF Sure, StaysHeard
  <2>4. IsCleared(u)'
    <3>1. ASSUME ~Removed(u), NEW i \in DOMAIN queue', IsSub(i, u)', ~Live(i)'
          PROVE  \E j \in DOMAIN queue' : i < j /\ IsUnsub(j, u)'
      <4>1. PICK j \in DOMAIN queue : i + 1 < j /\ IsUnsub(j, u)
        BY <3>1, <1>1, <1>s DEF Sure, IsCleared
      <4>2. j # 1
        BY <4>1, <1>1
      <4>3. PICK k \in DOMAIN queue' : j = k + 1
        BY <4>1, <4>2, <1>1
      <4>. QED
        BY <4>1, <4>3, <3>1, <1>1
    <3>. QED
      BY <3>1, <2>1, <1>3 DEF IsCleared
  <2>5. IsServed(u)'
    <3>2. ASSUME NEW i \in DOMAIN queue, IsSub(i, u), Live(i)
          PROVE  \E j \in DOMAIN queue' : IsSub(j, u)' /\ Live(j)'
      BY <3>2, <2>1, <1>1
    <3>. QED
      BY <3>2, <2>2, <1>3, <1>1, <1>n, <1>s DEF Sure, IsServed
  <2>. QED
    BY <2>3, <2>4, <2>5, <1>4 DEF Sure
<1>. QED
  BY <1>6, <1>7, <1>8, <1>9

\* A row that is created or deleted, seen from uuid u.
LEMMA RowSure ==
    ASSUME NEW u \in Uuids, Sure(u), link' = link, handler' = handler, queue' = queue,
           \A i \in DOMAIN queue : IsSub(i, u) => (Live(i)' <=> Live(i)),
           Heard(u)' <=> Heard(u),
           Removed(u)' <=> Removed(u),
           Removed(u) => OfUuid(u)' = {},
           SubscribesRows(u)',
           OfUuid(u)' = OfUuid(u) \/ Pending(u)',
           Pending(u) => Pending(u)'
    PROVE  Sure(u)'
<1>1. \A i \in DOMAIN queue : (IsSub(i, u)' <=> IsSub(i, u)) /\ (IsUnsub(i, u)' <=> IsUnsub(i, u))
  BY DEF IsSub, IsUnsub
<1>2. StaysHeard(u)'
  BY <1>1 DEF Sure, StaysHeard
<1>3. IsCleared(u)'
  BY <1>1 DEF Sure, IsCleared
<1>4. IsServed(u)'
  BY <1>1 DEF Sure, IsServed
<1>. QED
  BY <1>2, <1>3, <1>4 DEF Sure

\* Whoever is about to subscribe a channel has one that was there.
LEMMA SubscribingFits ==
    ASSUME Fresh, NEW c \in Channel, Subscribing(c)
    PROVE  Fits(c)
  BY DEF Fresh, Subscribing

LEMMA InsertSure ==
    ASSUME Types, Surely, NEW u \in Uuids \ crossed', NEW r \in Requests, AddInsert(r)
    PROVE  Sure(u)'
<1>. DEFINE v == at[r].uuid
<1>l. /\ Located /\ Monitor \in Callers /\ Requests \subseteq Callers /\ Monitor \notin Requests
      /\ queue \in Seq(Command) /\ r \in Callers
      /\ handler \in [Uuids -> Ids \cup {NoId}] /\ rows \in [Ids -> Uuids \cup {NoUuid}]
  BY LocatedIs DEF Types, Callers, TypeOK
<1>s. Sure(u)
  BY DEF AddInsert, Surely
<1>v. v \in Uuids /\ pc[r] = "insert"
  BY DEF AddInsert, Types, Placed, Callers
<1>n. PICK n \in Ids : n = nextId
  BY DEF AddInsert, Types, TypeOK, Ids
<1>1. /\ UNCHANGED <<link, handler, queue, todo, booked>>
      /\ rows' = [rows EXCEPT ![n] = v] /\ rows[n] = NoUuid
      /\ pc' = [pc EXCEPT ![r] = "check"]
      /\ \A d \in Callers \ {r} : at'[d] = at[d]
      /\ Removing(v, r) => u # v
  BY <1>n, <1>l DEF AddInsert, radio, Go, Located, Types, TypeOK
<1>2. at'[r] = [id |-> n, uuid |-> v] /\ at'[r] \in Channel
  <2>1. at[r] \in [id : {NoId}, uuid : Uuids]
    BY <1>v, <1>l, Naming DEF Located, Placed, Channel
  <2>2. at'[r] = [at[r] EXCEPT !.id = n]
    BY <1>l, <1>n DEF AddInsert, Located
  <2>. QED
    BY <2>1, <2>2, <1>v DEF Channel
<1>3. pc'[r] = "check" /\ \A d \in Callers \ {r} : pc'[d] = pc[d]
  BY <1>1, <1>l DEF Located
<1>4. ASSUME NEW c, Fits(c) PROVE c.id # n
  BY <1>4, <1>n DEF Fits, Ids
<1>5. /\ Removed(u)' <=> Removed(u)
      /\ \A x : Subscribing(x)' => Subscribing(x) \/ x = at'[r]
      /\ \A x : Subscribing(x) => Subscribing(x)'
      /\ Subscribing(at[r])'
  <2>1. Removed(u)' <=> Removed(u)
    BY <1>1, <1>3, <1>v, <1>l DEF Removed
  <2>2. \A x : Subscribing(x)' => Subscribing(x) \/ x = at'[r]
    BY <1>1, <1>3, <1>v, <1>l DEF Subscribing
  <2>3. \A x : Subscribing(x) => Subscribing(x)'
    BY <1>1, <1>3, <1>v, <1>l DEF Subscribing
  <2>4. Subscribing(at[r])'
    BY <1>3, <1>l DEF Subscribing
  <2>. QED
    BY <2>1, <2>2, <2>3, <2>4
<1>6. \A i \in DOMAIN queue : IsSub(i, u) => (Live(i)' <=> Live(i))
  <2>1. ASSUME NEW i \in DOMAIN queue PROVE queue[i].of.id # n /\ queue[i].of.id \in Ids
    BY <1>4, <1>l, CommandsType, Naming DEF Types, Fresh
  <2>. QED
    BY <2>1, <1>1, <1>l DEF Live
<1>7. Heard(u)' <=> Heard(u)
  <2>1. handler[u] # NoId => handler[u] # n
    <3>1. handler[u] # NoId => Fits([id |-> handler[u], uuid |-> u])
      BY DEF Types, Fresh
    <3>. QED
      BY <3>1, <1>4
  <2>. QED
    BY <2>1, <1>1, <1>l DEF Heard
<1>8. Removed(u) => OfUuid(u)' = {}
  <2>1. CASE v = u
    BY <2>1, <1>1, <1>v DEF Removed, Removing
  <2>2. CASE v # u
    BY <2>2, <1>1, <1>l, <1>s DEF OfUuid, Sure
  <2>. QED
    BY <2>1, <2>2
<1>9. SubscribesRows(u)'
  <2>1. ASSUME NEW c \in Channel, Subscribing(c)', c.uuid = u PROVE rows'[c.id] = u
    <3>1. CASE c = at'[r]
      BY <3>1, <2>1, <1>1, <1>2, <1>l
    <3>2. CASE Subscribing(c)
      <4>1. c.id # n /\ c.id \in Ids
        BY <3>2, <1>4, SubscribingFits, Naming DEF Types
      <4>. QED
        BY <3>2, <2>1, <4>1, <1>1, <1>l, <1>s DEF Sure, SubscribesRows
    <3>. QED
      BY <2>1, <3>1, <3>2, <1>5
  <2>. QED
    BY <2>1 DEF SubscribesRows
<1>10. OfUuid(u)' = OfUuid(u) \/ Pending(u)'
  <2>1. CASE v = u
    BY <2>1, <1>2, <1>5 DEF Pending
  <2>2. CASE v # u
    BY <2>2, <1>1, <1>l DEF OfUuid
  <2>. QED
    BY <2>1, <2>2
<1>11. Pending(u) => Pending(u)'
  BY <1>1, <1>3, <1>5, <1>l DEF Pending
<1>. QED
  BY <1>1, <1>5, <1>6, <1>7, <1>8, <1>9, <1>10, <1>11, <1>s, RowSure

LEMMA DeleteSure ==
    ASSUME Types, Surely, NEW u \in Uuids \ crossed', NEW r \in Requests, DeleteRow(r)
    PROVE  Sure(u)'
<1>. DEFINE k == at[r]
<1>l. /\ Located /\ Monitor \in Callers /\ Requests \subseteq Callers /\ Monitor \notin Requests
      /\ queue \in Seq(Command) /\ r \in Callers
      /\ handler \in [Uuids -> Ids \cup {NoId}] /\ rows \in [Ids -> Uuids \cup {NoUuid}]
  BY LocatedIs DEF Types, Callers, TypeOK
<1>s. Sure(u)
  BY DEF DeleteRow, Surely
<1>k. k \in Channel /\ k.id \in Ids /\ k.uuid \in Uuids /\ pc[r] = "delete" /\ rows[k.id] = k.uuid
  BY <1>l, Naming DEF DeleteRow, Types, Fresh, Fits, Placed
<1>1. /\ UNCHANGED <<link, handler, queue, todo, booked, at>>
      /\ rows' = [rows EXCEPT ![k.id] = NoUuid]
      /\ pc' = [pc EXCEPT ![r] = "forget"]
      /\ Subscribing(k) \/ OfUuid(k.uuid) # {k.id} => u # k.uuid
  BY DEF DeleteRow, radio, Go
<1>3. pc'[r] = "forget" /\ \A d \in Callers \ {r} : pc'[d] = pc[d]
  BY <1>1, <1>l DEF Located
<1>4. \A x : Subscribing(x)' <=> Subscribing(x)
  BY <1>1, <1>3, <1>k, <1>l DEF Subscribing
<1>5. CASE k.uuid = u
  <2>1. Removed(u)'
    BY <1>5, <1>1, <1>3 DEF Removed
  <2>2. OfUuid(u) = {k.id}
    BY <1>5, <1>1
  <2>3. OfUuid(u)' = {}
    BY <2>2, <1>1, <1>l, <1>k DEF OfUuid
  <2>4. ASSUME NEW x \in Channel, x.uuid = u PROVE ~Subscribing(x)
    <3>1. Subscribing(x) => x.id \in OfUuid(u)
      BY <2>4, <1>s, Naming DEF Sure, SubscribesRows, OfUuid
    <3>2. x.id = k.id => x = k
      BY <2>4, <1>5, <1>k, Naming
    <3>. QED
      BY <3>1, <3>2, <2>2, <1>1, <1>5
  <2>5. ~Heard(u)'
    <3>1. Heard(u)' => handler[u] \in OfUuid(u)'
      BY <1>1, <1>l DEF Heard, OfUuid
    <3>. QED
      BY <3>1, <2>3
  <2>6. ASSUME NEW i \in DOMAIN queue PROVE ~(IsSub(i, u)' /\ Live(i)')
    <3>1. IsSub(i, u)' /\ Live(i)' => queue[i].of.id \in OfUuid(u)'
      BY <1>1, <1>l, CommandsType, Naming DEF IsSub, Live, OfUuid
    <3>. QED
      BY <3>1, <2>3
  <2>. QED
    BY <2>1, <2>3, <2>4, <2>5, <2>6, <1>1, <1>4
       DEF Sure, SubscribesRows, StaysHeard, IsCleared, IsServed
<1>6. CASE k.uuid # u
  <2>1. \A id \in Ids : rows[id] = u <=> rows'[id] = u
    BY <1>6, <1>1, <1>l, <1>k
  <2>2. OfUuid(u)' = OfUuid(u)
    BY <2>1 DEF OfUuid
  <2>3. \A i \in DOMAIN queue : IsSub(i, u) => (Live(i)' <=> Live(i))
    BY <2>1, <1>1, <1>l, CommandsType, Naming DEF IsSub, Live
  <2>4. Heard(u)' <=> Heard(u)
    BY <2>1, <1>1, <1>l DEF Heard
  <2>5. Removed(u)' <=> Removed(u)
    BY <1>1, <1>3, <1>k, <1>l, <1>6 DEF Removed
  <2>6. SubscribesRows(u)'
    BY <2>1, <1>4, <1>s, Naming DEF Sure, SubscribesRows
  <2>7. Pending(u) => Pending(u)'
    BY <1>1, <1>3, <1>4, <1>l DEF Pending
  <2>. QED
    BY <2>2, <2>3, <2>4, <2>5, <2>6, <2>7, <1>1, <1>s, RowSure DEF Sure
<1>. QED
  BY <1>5, <1>6

\* Every step keeps what is sure of a uuid that nothing has crossed.
LEMMA SureStep ==
    ASSUME Types, Surely, [Next]_vars, NEW u \in Uuids \ crossed'
    PROVE  Sure(u)'
<1>1. ASSUME NEW r \in Requests PROVE r \in Callers /\ r # Monitor
  BY DEF Callers
<1>2. ASSUME NEW c \in Callers, Submit(c) \/ MockSubscribe(c) \/ Remember(c) \/ Over(c) \/ Timeout(c)
      PROVE  Sure(u)'
  BY <1>2, IdleSure, SubmitSure, MockSure
<1>3. ASSUME NEW r \in Requests,
             \/ \E v \in Uuids : AddCheck(r, v)
             \/ AddInsert(r) \/ AddRefused(r) \/ AddedSubscribes(r)
             \/ \E id \in Ids : DeleteRead(r, id)
             \/ DeleteRow(r) \/ DeleteFails(r) \/ Forget(r) \/ Unsubmit(r) \/ MockUnsubscribe(r)
      PROVE  Sure(u)'
  BY <1>1, <1>3, IdleSure, UnsubmitSure, MockSure, InsertSure, DeleteSure
<1>. QED
  BY <1>2, <1>3, LinkSure, WorkerSure DEF Next

-----------------------------------------------------------------------------
(* Theorems *)

LEMMA Initially == Init => Types /\ Surely
<1>. SUFFICES ASSUME Init PROVE Types /\ Surely
  OBVIOUS
<1>1. TypeOK
  BY EmptyQueue, Naming DEF Init, TypeOK
<1>2. Placed /\ Awaited /\ Linked
  BY EmptyQueue DEF Init, Placed, Awaited, Linked, Callers, Unsubscribed
<1>3. Fresh
  BY EmptyQueue, Naming DEF Init, Fresh
<1>4. Surely
  <2>1. ASSUME NEW u \in Uuids PROVE Sure(u)
    <3>1. ~Removed(u) /\ \A x : ~Subscribing(x)
      BY DEF Init, Removed, Subscribing, Callers
    <3>2. DOMAIN queue = {} /\ handler[u] = NoId /\ ~booked /\ pc[Monitor] = "idle"
      BY EmptyQueue DEF Init, Callers
    <3>. QED
      BY <3>1, <3>2 DEF Sure, SubscribesRows, StaysHeard, IsCleared, IsServed, Heard, Pending
  <2>. QED
    BY <2>1 DEF Surely
<1>. QED
  BY <1>1, <1>2, <1>3, <1>4 DEF Types

LEMMA TypesStep ==
    ASSUME Types, [Next]_vars
    PROVE  Types'
<1>1. TypeOK' /\ Placed'
  BY LocatedStep, TypeStep DEF Types, Located
<1>2. Awaited' /\ Linked' /\ Fresh'
  BY AwaitedStep, LinkedStep, FreshStep DEF Types
<1>. QED
  BY <1>1, <1>2 DEF Types

\* Where callers, commands and channels are is invariant, and so is what is sure of every
\* uuid no race or error has crossed.
LEMMA Invariance == Spec => [](Types /\ Surely)
<1>1. Types /\ Surely /\ [Next]_vars => (Types /\ Surely)'
  BY TypesStep, SureStep DEF Surely
<1>. QED
  BY <1>1, Initially, PTL DEF Spec

\* Each caller, the queue of the worker and the table of channels hold what they can hold:
\* among others a request has a channel in hand exactly while it works on one, ids at and
\* above the counter are free, and the mock never has anything queued.
THEOREM TypeCorrect == Spec => []TypeOK
<1>1. Types /\ Surely => TypeOK
  BY DEF Types
<1>. QED
  BY <1>1, Invariance, PTL

\* Whatever the monitor, the requests and the worker did in which order, once nobody works
\* on a uuid any more it is heard by a channel the device has, and by none if it has none:
\* _subscribe_display_channels, on_channel_added and on_channel_removed agree, with the
\* exceptions HeardIsShown names.
THEOREM HeardCorrect == Spec => []HeardIsShown
<1>1. ASSUME Types, Surely PROVE HeardIsShown
  <2>1. ASSUME NEW u \in Uuids, Settled(u), u \notin crossed
        PROVE  IF OfUuid(u) = {} THEN handler[u] = NoId ELSE handler[u] \in OfUuid(u)
    <3>1. Sure(u)
      BY <2>1, <1>1 DEF Surely
    <3>2. \A i \in DOMAIN queue : ~IsSub(i, u) /\ ~IsUnsub(i, u)
      BY <2>1 DEF Settled, IsSub, IsUnsub
    <3>3. ~Removed(u) /\ ~Pending(u)
      BY <2>1 DEF Settled, Held, Removed, Pending, Subscribing, Callers
    <3>4. handler[u] # NoId => Heard(u)
      BY <3>1, <3>2, <3>3 DEF Sure, IsCleared
    <3>5. Heard(u) => handler[u] \in OfUuid(u)
      BY <1>1 DEF Heard, OfUuid, Types, TypeOK
    <3>6. OfUuid(u) # {} => Heard(u)
      BY <2>1, <3>1, <3>2, <3>3 DEF Sure, IsServed, Settled
    <3>. QED
      BY <3>4, <3>5, <3>6
  <2>. QED
    BY <2>1 DEF HeardIsShown
<1>. QED
  BY <1>1, Invariance, PTL

\* No step of anybody takes the notifications of a uuid from the only channel that has it
\* while the link lasts, unless the uuid was crossed: a queued unsubscription never follows
\* the subscription of a channel that is there, nor does that of a channel that is gone.
THEOREM SilencedCorrect == Spec => NobodySilenced
<1>1. ASSUME Types, Surely, Next, NEW u \in Uuids, NEW id \in Ids,
             handler[u] = id, OfUuid(u) = {id}, link', handler'[u] # id, u \notin crossed'
      PROVE  FALSE
  <2>l. /\ Located /\ Requests \subseteq Callers /\ queue \in Seq(Command)
        /\ handler \in [Uuids -> Ids \cup {NoId}]
    BY <1>1, LocatedIs DEF Types, TypeOK, Callers
  <2>1. rows[id] = u /\ id # NoId /\ Heard(u) /\ \A i \in Ids : rows[i] = u => i = id
    BY <1>1, Naming DEF OfUuid, Heard
  <2>2. \/ Subscribe \/ Unsubscribe
        \/ \E c \in Callers : MockSubscribe(c)
        \/ \E r \in Requests : MockUnsubscribe(r)
    <3>1. ASSUME TickDown \/ TickList \/ TickNext \/ TickBooked \/ LinkUp \/ LinkFails \/ SubscribeFails
          PROVE  handler' = handler
      BY <3>1 DEF TickDown, TickList, TickNext, TickBooked, LinkUp, LinkFails, SubscribeFails, radio
    <3>2. ASSUME NEW c \in Callers, Submit(c) \/ Remember(c) \/ Over(c) \/ Timeout(c)
          PROVE  handler' = handler
      BY <3>2 DEF Submit, Remember, Over, Timeout, radio
    <3>3. ASSUME NEW r \in Requests,
                 \/ \E v \in Uuids : AddCheck(r, v)
                 \/ \E i \in Ids : DeleteRead(r, i)
                 \/ AddInsert(r) \/ AddRefused(r) \/ AddedSubscribes(r) \/ DeleteRow(r)
                 \/ DeleteFails(r) \/ Forget(r) \/ Unsubmit(r)
          PROVE  handler' = handler
      BY <3>3 DEF AddCheck, DeleteRead, AddInsert, AddRefused, AddedSubscribes, DeleteRow,
                  DeleteFails, Forget, Unsubmit, radio
    <3>4. ~LinkDown
      BY <1>1 DEF LinkDown
    <3>. QED
      BY <1>1, <3>1, <3>2, <3>3, <3>4 DEF Next
  <2>3. Sure(u)
    BY <1>1, <2>2 DEF Subscribe, Unsubscribe, MockSubscribe, MockUnsubscribe, Surely
  <2>4. CASE Subscribe \/ Unsubscribe
    <3>1. /\ Head(queue) = queue[1] /\ 1 \in DOMAIN queue /\ queue[1].of \in Channel
          /\ queue[1].of.id \in Ids
      BY <2>4, <2>l, CommandsType, Naming DEF Subscribe, Unsubscribe
    <3>2. CASE Subscribe
      <4>1. IsSub(1, u) /\ queue[1].of.id # id
        BY <3>1, <3>2, <1>1, <2>l DEF Subscribe, IsSub
      <4>2. Live(1)
        BY <4>1, <3>1, <2>1, <2>3 DEF Sure, StaysHeard
      <4>. QED
        BY <4>1, <4>2, <3>1, <2>1 DEF Live, IsSub
    <3>3. CASE Unsubscribe
      <4>1. IsUnsub(1, u)
        BY <3>1, <3>3, <1>1, <2>l DEF Unsubscribe, IsUnsub
      <4>. QED
        BY <4>1, <3>1, <2>1, <2>3 DEF Sure, StaysHeard
    <3>. QED
      BY <2>4, <3>2, <3>3
  <2>5. ASSUME NEW c \in Callers, MockSubscribe(c) PROVE FALSE
    <3>1. at[c] \in Channel /\ at[c].id \in Ids /\ Subscribing(at[c])
      BY <2>5, <2>l, Naming DEF MockSubscribe, Located, Placed, Subscribing
    <3>2. at[c].uuid = u /\ at[c].id # id
      BY <2>5, <3>1, <1>1, <2>l DEF MockSubscribe
    <3>. QED
      BY <3>1, <3>2, <2>1, <2>3 DEF Sure, SubscribesRows
  <2>6. ASSUME NEW r \in Requests, MockUnsubscribe(r) PROVE FALSE
    <3>1. at[r].uuid = u /\ pc[r] = "unsubmit"
      BY <2>6, <1>1, <2>l DEF MockUnsubscribe
    <3>2. Removed(u)
      BY <3>1 DEF Removed
    <3>. QED
      BY <3>2, <1>1, <2>3 DEF Sure
  <2>. QED
    BY <2>2, <2>4, <2>5, <2>6
<1>2. Types /\ Surely /\ [Next]_vars =>
        [\A u \in Uuids, id \in Ids :
           handler[u] = id /\ OfUuid(u) = {id} /\ link' /\ handler'[u] # id => u \in crossed']_vars
  BY <1>1
<1>. QED
  BY <1>2, Invariance, PTL DEF Spec, NobodySilenced

-----------------------------------------------------------------------------
(* The link *)

\* No worker dials while its link is up.
Dialled == backend = "bluepy" /\ link \in BOOLEAN /\ asked \in BOOLEAN /\ (asked => ~link)

\* Who may change the link.
LEMMA LinkSteps ==
    ASSUME [Next]_vars
    PROVE  backend' = backend /\ (TickDown \/ LinkUp \/ LinkFails \/ LinkDown \/ UNCHANGED <<link, asked>>)
<1>1. ASSUME TickDown \/ LinkUp \/ LinkFails \/ LinkDown PROVE backend' = backend
  BY <1>1 DEF TickDown, LinkUp, LinkFails, LinkDown
<1>2. ASSUME TickList \/ TickNext \/ TickBooked \/ Subscribe \/ SubscribeFails \/ Unsubscribe
      PROVE  UNCHANGED <<backend, link, asked>>
  BY <1>2 DEF TickList, TickNext, TickBooked, Subscribe, SubscribeFails, Unsubscribe, radio
<1>3. ASSUME NEW c \in Callers, Submit(c) \/ MockSubscribe(c) \/ Remember(c) \/ Over(c) \/ Timeout(c)
      PROVE  UNCHANGED <<backend, link, asked>>
  BY <1>3 DEF Submit, MockSubscribe, Remember, Over, Timeout, radio
<1>4. ASSUME NEW r \in Requests,
             \/ \E v \in Uuids : AddCheck(r, v)
             \/ \E i \in Ids : DeleteRead(r, i)
             \/ AddInsert(r) \/ AddRefused(r) \/ AddedSubscribes(r) \/ DeleteRow(r)
             \/ DeleteFails(r) \/ Forget(r) \/ Unsubmit(r) \/ MockUnsubscribe(r)
      PROVE  UNCHANGED <<backend, link, asked>>
  BY <1>4 DEF AddCheck, DeleteRead, AddInsert, AddRefused, AddedSubscribes, DeleteRow,
              DeleteFails, Forget, Unsubmit, MockUnsubscribe, radio
<1>5. ASSUME UNCHANGED vars PROVE UNCHANGED <<backend, link, asked>>
  BY <1>5 DEF vars, radio
<1>. QED
  BY <1>1, <1>2, <1>3, <1>4, <1>5 DEF Next

\* With bluepy the link the channels live with is one that module Links, which
\* BluepyManager implements, allows: it is asked for before it comes up, and is neither
\* asked for twice nor dialled while it is up.
THEOREM ChannelsKeepToLinks == Spec /\ backend = "bluepy" => ImplementsLinks
<1>1. Init /\ backend = "bluepy" => Dialled /\ Backend!Init
  BY DEF Init, Dialled, Backend!Init, Backend!States, LinkIs
<1>2. Dialled /\ [Next]_vars => Dialled'
  <2>. SUFFICES ASSUME Dialled, [Next]_vars PROVE Dialled'
    OBVIOUS
  <2>1. CASE TickDown
    <3>1. link' = link /\ ~link /\ (asked' = TRUE \/ asked' = asked)
      BY <2>1 DEF Dialled, TickDown, EnsureConnecting
    <3>. QED
      BY <3>1, LinkSteps DEF Dialled
  <2>2. CASE LinkUp \/ LinkFails \/ LinkDown
    BY <2>2, LinkSteps DEF Dialled, LinkUp, LinkFails, LinkDown, NewLink
  <2>3. CASE UNCHANGED <<link, asked>>
    BY <2>3, LinkSteps DEF Dialled
  <2>. QED
    BY <2>1, <2>2, <2>3, LinkSteps
<1>3. Dialled /\ [Next]_vars => [Backend!Next]_([d \in {"device"} |-> LinkIs])
  <2>. SUFFICES ASSUME Dialled, [Next]_vars PROVE Backend!Next \/ LinkIs' = LinkIs
    OBVIOUS
  <2>. USE DEF Backend!Next, Backend!Ask, Backend!Answer, Backend!Forget, Backend!Becomes, LinkIs
  <2>1. CASE TickDown
    <3>1. link' = link /\ ~link /\ (asked' = TRUE \/ asked' = asked)
      BY <2>1 DEF Dialled, TickDown, EnsureConnecting
    <3>2. Backend!Ask("device") \/ LinkIs' = LinkIs
      BY <3>1 DEF Dialled
    <3>. QED
      BY <3>2
  <2>2. CASE LinkUp
    <3>1. asked /\ ~link /\ link' = TRUE
      BY <2>2 DEF Dialled, LinkUp, NewLink
    <3>2. Backend!Answer("device")
      BY <3>1
    <3>. QED
      BY <3>2
  <2>3. CASE LinkFails
    <3>1. asked /\ ~link /\ ~asked' /\ ~link'
      BY <2>3 DEF Dialled, LinkFails
    <3>2. Backend!Forget("device")
      BY <3>1
    <3>. QED
      BY <3>2
  <2>4. CASE LinkDown
    <3>1. ~asked /\ link /\ ~asked' /\ ~link'
      BY <2>4 DEF Dialled, LinkDown
    <3>2. Backend!Forget("device")
      BY <3>1
    <3>. QED
      BY <3>2
  <2>5. CASE UNCHANGED <<link, asked>>
    BY <2>5
  <2>. QED
    BY <2>1, <2>2, <2>3, <2>4, <2>5, LinkSteps
<1>. QED
  BY <1>1, <1>2, <1>3, PTL DEF Spec, ImplementsLinks, Backend!Spec

=============================================================================
