------------------------ MODULE ChannelSubscriptions ------------------------
(***************************************************************************)
(* Which display channels of one registered peripheral deliver             *)
(* notifications.  Three parties change it without a lock: the reconnect   *)
(* monitor, which subscribes a list of channels it has read once per link  *)
(* (_subscribe_display_channels); web requests that create a channel       *)
(* (add_channel, on_channel_added) or delete one (delete_channel,          *)
(* on_channel_removed); and the worker thread, which executes what they    *)
(* put into its queue and forgets all of it with the link.                 *)
(*                                                                         *)
(* The development server has MockBLEManager for a backend, which does at  *)
(* once, in the calling thread, what the worker of bluepy queues.          *)
(*                                                                         *)
(* Controller channels are left alone by all of this and left out.         *)
(***************************************************************************)
EXTENDS Integers, Sequences, FiniteSets

CONSTANTS
    Uuids,      \* characteristics the presets offer
    Requests,   \* bound: web requests that are served at one time
    Monitor,    \* the monitor thread
    MaxId,      \* bound: ids the table of channels hands out
    NoUuid,     \* no characteristic
    Nobody      \* the caller of a command has given up waiting

ASSUME MaxIdAssumption == MaxId \in Nat
ASSUME NamesAssumption == /\ Monitor \notin Requests
                          /\ Nobody \notin Requests \cup {Monitor}
                          /\ NoUuid \notin Uuids

NoId      == 0
Ids       == 1..MaxId
Callers   == Requests \cup {Monitor}
Channel   == [id : Ids, uuid : Uuids]
NoChannel == [id |-> NoId, uuid |-> NoUuid]
Command   == [op : {"subscribe", "unsubscribe"}, of : Channel, by : Callers \cup {Nobody}]

VARIABLES
    backend,    \* "bluepy" or "mock"
    rows,       \* rows[id]: the uuid of display channel id, NoUuid if there is none
    nextId,     \* AUTOINCREMENT
    known,      \* BleRuntime._subscribed: the id it has for a uuid
    booked,     \* _monitor[address].subscribed
    asked,      \* the worker is trying to connect
    link,       \* is_connected(address)
    handler,    \* the worker's _NotifyDelegate: the channel that hears a uuid
    queue,      \* the worker's queue
    todo,       \* channels the tick has still to subscribe
    pc, at,     \* where a caller is, with which channel in hand
    crossed     \* history: uuids whose subscription met a race or an error on this link

table  == <<rows, nextId>>
radio  == <<asked, link, handler>>
thread == <<pc, at, todo>>
vars   == <<backend, table, known, booked, radio, queue, thread, crossed>>

TypeOK ==
    /\ backend \in {"bluepy", "mock"}
    /\ rows \in [Ids -> Uuids \cup {NoUuid}]
    /\ nextId \in 1..MaxId + 1
    /\ known \in [Uuids -> Ids \cup {NoId}]
    /\ booked \in BOOLEAN /\ asked \in BOOLEAN /\ link \in BOOLEAN
    /\ handler \in [Uuids -> Ids \cup {NoId}]
    /\ queue \in Seq(Command)
    /\ todo \subseteq Channel
    /\ pc \in [Callers -> {"idle", "next", "submit", "subscribing", "subscribed", "over",
                           "insert", "check", "delete", "forget", "unsubmit", "unsubscribing"}]
    /\ at \in [Callers -> Channel \cup {NoChannel} \cup [id : {NoId}, uuid : Uuids]]
    /\ crossed \subseteq Uuids
    /\ \A id \in Ids : id >= nextId => rows[id] = NoUuid
    /\ \A c \in Callers : at[c] = NoChannel <=> pc[c] \in {"idle", "next"}
    /\ backend = "mock" => queue = <<>> /\ ~asked

\* The channels of the device that have uuid u.
OfUuid(u) == {id \in Ids : rows[id] = u}

\* list_by_device
Listed == {c \in Channel : rows[c.id] = c.uuid}

Go(c, state) == pc' = [pc EXCEPT ![c] = state]

\* The caller is through with the channel in hand: the tick takes the next one, a
\* request is answered (with an error page if the command failed).
Leave(c) ==
    /\ Go(c, IF c = Monitor THEN "next" ELSE "idle")
    /\ at' = [at EXCEPT ![c] = NoChannel]

\* Somebody still has to do something about uuid u.
Held(u) == \/ \E c \in Callers : at[c].uuid = u
           \/ \E c \in todo : c.uuid = u

\* activate() has asked for the link; the subscriptions it makes itself if the link comes
\* up at once are made as in a tick.  Rows come from the database.
Init ==
    /\ nextId \in 1..MaxId + 1
    /\ rows \in [Ids -> Uuids \cup {NoUuid}]
    /\ \A id \in Ids : id >= nextId => rows[id] = NoUuid
    /\ known = [u \in Uuids |-> NoId]
    /\ backend \in {"bluepy", "mock"}
    /\ booked = FALSE /\ asked = (backend = "bluepy") /\ link = (backend = "mock")
    /\ handler = [u \in Uuids |-> NoId]
    /\ queue = <<>>
    /\ todo = {}
    /\ pc = [c \in Callers |-> "idle"]
    /\ at = [c \in Callers |-> NoChannel]
    /\ crossed = {}

-----------------------------------------------------------------------------
(* The tick of the monitor, as far as subscriptions go *)

\* A link that comes up has nothing subscribed; what was crossed on the old one is over
\* unless somebody still holds the uuid.
NewLink ==
    /\ link' = TRUE
    /\ crossed' = {u \in crossed : Held(u)}

\* ensure_connecting
EnsureConnecting ==
    IF backend = "mock" THEN NewLink /\ asked' = asked
    ELSE asked' = TRUE /\ UNCHANGED <<link, crossed>>

\* Mutant: a device seen down keeps its subscribed flag.
TickDown_KeepsBooked ==
    /\ pc[Monitor] = "idle" /\ ~link
    /\ EnsureConnecting \/ UNCHANGED <<asked, link, crossed>>
    /\ UNCHANGED <<backend, table, known, booked, handler, queue, thread>>

\* The link is seen down, and tried again if the retry is due.
TickDown ==
    /\ pc[Monitor] = "idle" /\ ~link
    /\ booked' = FALSE
    /\ EnsureConnecting \/ UNCHANGED <<asked, link, crossed>>
    /\ UNCHANGED <<backend, table, known, handler, queue, thread>>

\* _on_connected of a link that is not booked: the list of channels is read.
TickList ==
    /\ pc[Monitor] = "idle" /\ link /\ ~booked
    /\ todo' = Listed
    /\ Go(Monitor, "next")
    /\ UNCHANGED <<backend, table, known, booked, radio, queue, at, crossed>>

\* The next channel of the list, in the order of ids ...
TickNext ==
    /\ pc[Monitor] = "next"
    /\ \E c \in todo :
        /\ \A d \in todo : c.id <= d.id
        /\ todo' = todo \ {c}
        /\ at' = [at EXCEPT ![Monitor] = c]
    /\ Go(Monitor, "submit")
    /\ UNCHANGED <<backend, table, known, booked, radio, queue, crossed>>

\* ... until there is none: subscribed, whatever became of them.
TickBooked ==
    /\ pc[Monitor] = "next" /\ todo = {}
    /\ booked' = TRUE
    /\ Go(Monitor, "idle")
    /\ UNCHANGED <<backend, table, known, radio, queue, todo, at, crossed>>

-----------------------------------------------------------------------------
(* subscribe_channel, by the tick and by on_channel_added *)

\* _require_worker and submit; without a link ConnectionError.
Submit(c) ==
    /\ pc[c] = "submit" /\ backend = "bluepy"
    /\ IF link
       THEN /\ queue' = Append(queue, [op |-> "subscribe", of |-> at[c], by |-> c])
            /\ Go(c, "subscribing")
            /\ at' = at
       ELSE Leave(c) /\ queue' = queue
    /\ UNCHANGED <<backend, table, known, booked, radio, todo, crossed>>

\* MockBLEManager.subscribe; without a link MockBLEError.
MockSubscribe(c) ==
    /\ pc[c] = "submit" /\ backend = "mock"
    /\ IF link
       THEN /\ handler' = [handler EXCEPT ![at[c].uuid] = at[c].id]
            /\ Go(c, "subscribed")
            /\ at' = at
       ELSE Leave(c) /\ handler' = handler
    /\ UNCHANGED <<backend, table, known, booked, asked, link, queue, todo, crossed>>

\* The worker has subscribed the channel: _subscribed gets it.
Remember(c) ==
    /\ pc[c] = "subscribed"
    /\ known' = [known EXCEPT ![at[c].uuid] = at[c].id]
    /\ Leave(c)
    /\ UNCHANGED <<backend, table, booked, radio, queue, todo, crossed>>

\* The worker has refused a subscription, or has unsubscribed.
Over(c) ==
    /\ pc[c] = "over"
    /\ Leave(c)
    /\ UNCHANGED <<backend, table, known, booked, radio, queue, todo, crossed>>

\* fut.result(timeout): the caller gives up, its command stays in the queue.
Timeout(c) ==
    /\ pc[c] \in {"subscribing", "unsubscribing"}
    /\ queue' = [i \in DOMAIN queue |->
                    IF queue[i].by = c THEN [queue[i] EXCEPT !.by = Nobody] ELSE queue[i]]
    /\ Leave(c)
    /\ UNCHANGED <<backend, table, known, booked, radio, todo, crossed>>

-----------------------------------------------------------------------------
(* POST /devices/<id>/channels *)

\* ChannelService.add_channel finds no channel with the uuid ...
AddCheck(r, u) ==
    /\ pc[r] = "idle" /\ OfUuid(u) = {}
    /\ at' = [at EXCEPT ![r] = [id |-> NoId, uuid |-> u]]
    /\ Go(r, "insert")
    /\ UNCHANGED <<backend, table, known, booked, radio, queue, todo, crossed>>

\* A channel with uuid u is being removed: its row is gone, its unsubscription is not
\* yet queued.
Removing(u, r) == \E c \in Requests \ {r} : pc[c] \in {"forget", "unsubmit"} /\ at[c].uuid = u

\* Mutant: the id is that of the last row, not of a counter (no AUTOINCREMENT).
AddInsert_ReusesIds(r) ==
    /\ pc[r] = "insert" /\ nextId <= MaxId
    /\ rows' = [rows EXCEPT ![nextId] = at[r].uuid]
    /\ at' = [at EXCEPT ![r].id = nextId]
    /\ Go(r, "check")
    /\ UNCHANGED <<backend, nextId, known, booked, radio, queue, todo, crossed>>

\* ... and inserts it, in another statement.
AddInsert(r) ==
    /\ pc[r] = "insert" /\ nextId <= MaxId
    /\ LET u == at[r].uuid IN
        /\ rows' = [rows EXCEPT ![nextId] = u]
        /\ at' = [at EXCEPT ![r].id = nextId]
        /\ crossed' = IF Removing(u, r) THEN crossed \cup {u} ELSE crossed
    /\ nextId' = nextId + 1
    /\ Go(r, "check")
    /\ UNCHANGED <<backend, known, booked, radio, queue, todo>>

\* The name is in use: DuplicateChannelNameError.
AddRefused(r) ==
    /\ pc[r] = "insert"
    /\ Leave(r)
    /\ UNCHANGED <<backend, table, known, booked, radio, queue, todo, crossed>>

\* on_channel_added leaves a device without a link to the monitor.
AddedSubscribes(r) ==
    /\ pc[r] = "check"
    /\ IF link THEN Go(r, "submit") /\ at' = at ELSE Leave(r)
    /\ UNCHANGED <<backend, table, known, booked, radio, queue, todo, crossed>>

-----------------------------------------------------------------------------
(* POST /channels/<id>/delete *)

DeleteRead(r, id) ==
    /\ pc[r] = "idle" /\ rows[id] # NoUuid
    /\ at' = [at EXCEPT ![r] = [id |-> id, uuid |-> rows[id]]]
    /\ Go(r, "delete")
    /\ UNCHANGED <<backend, table, known, booked, radio, queue, todo, crossed>>

\* Somebody has read channel c and has not yet queued its subscription.
Subscribing(c) == \/ c \in todo
                  \/ \E d \in Callers : pc[d] \in {"check", "submit"} /\ at[d] = c

\* channels.delete
DeleteRow(r) ==
    /\ pc[r] = "delete" /\ rows[at[r].id] # NoUuid
    /\ rows' = [rows EXCEPT ![at[r].id] = NoUuid]
    /\ LET u == at[r].uuid IN
        crossed' = IF Subscribing(at[r]) \/ OfUuid(u) # {at[r].id}
                   THEN crossed \cup {u} ELSE crossed
    /\ Go(r, "forget")
    /\ UNCHANGED <<backend, nextId, known, booked, radio, queue, todo, at>>

\* Mutant: a row that is not there any more counts as deleted.
DeleteFails_GoesOn(r) ==
    /\ pc[r] = "delete" /\ rows[at[r].id] = NoUuid
    /\ Go(r, "forget")
    /\ UNCHANGED <<backend, table, known, booked, radio, queue, todo, at, crossed>>

\* Another request has deleted the row: ChannelNotFoundError.
DeleteFails(r) ==
    /\ pc[r] = "delete" /\ rows[at[r].id] = NoUuid
    /\ Leave(r)
    /\ UNCHANGED <<backend, table, known, booked, radio, queue, todo, crossed>>

\* on_channel_removed: out of _subscribed, and off the link if there is one ...
Forget(r) ==
    /\ pc[r] = "forget"
    /\ known' = [known EXCEPT ![at[r].uuid] = NoId]
    /\ IF link THEN Go(r, "unsubmit") /\ at' = at ELSE Leave(r)
    /\ UNCHANGED <<backend, table, booked, radio, queue, todo, crossed>>

\* ... by its uuid, whichever channel hears it now.
Unsubmit(r) ==
    /\ pc[r] = "unsubmit" /\ backend = "bluepy"
    /\ IF link
       THEN /\ queue' = Append(queue, [op |-> "unsubscribe", of |-> at[r], by |-> r])
            /\ Go(r, "unsubscribing")
            /\ at' = at
       ELSE Leave(r) /\ queue' = queue
    /\ UNCHANGED <<backend, table, known, booked, radio, todo, crossed>>

\* MockBLEManager.unsubscribe, which needs no link.
MockUnsubscribe(r) ==
    /\ pc[r] = "unsubmit" /\ backend = "mock"
    /\ handler' = [handler EXCEPT ![at[r].uuid] = NoId]
    /\ Leave(r)
    /\ UNCHANGED <<backend, table, known, booked, asked, link, queue, todo, crossed>>

-----------------------------------------------------------------------------
(* The worker *)

\* The connection attempt ends.  A new worker has a new delegate and an empty queue.
LinkUp ==
    /\ asked
    /\ asked' = FALSE
    /\ NewLink
    /\ UNCHANGED <<backend, table, known, booked, handler, queue, thread>>

LinkFails ==
    /\ asked
    /\ asked' = FALSE
    /\ UNCHANGED <<backend, table, known, booked, link, handler, queue, thread, crossed>>

\* The loss of the link is noticed: the queue is drained with an error.  Or the link is
\* dropped by disconnect, as it is before a scan: the mock drops its subscriptions, too.
LinkDown ==
    /\ link
    /\ link' = FALSE
    /\ handler' = [u \in Uuids |-> NoId]
    /\ queue' = <<>>
    /\ pc' = [c \in Callers |->
                IF pc[c] \in {"subscribing", "unsubscribing"} THEN "over" ELSE pc[c]]
    /\ UNCHANGED <<backend, table, known, booked, asked, at, todo, crossed>>

\* The future of the command at the head of the queue is resolved.
Answer(state) ==
    /\ pc' = [c \in Callers |-> IF c = Head(queue).by THEN state ELSE pc[c]]
    /\ queue' = Tail(queue)

\* _enable_notify writes the CCCD and registers the callback ...
Subscribe ==
    /\ queue # <<>> /\ Head(queue).op = "subscribe"
    /\ LET c == Head(queue).of IN handler' = [handler EXCEPT ![c.uuid] = c.id]
    /\ Answer("subscribed")
    /\ UNCHANGED <<backend, table, known, booked, asked, link, at, todo, crossed>>

\* ... unless the characteristic is not there or the write fails.
SubscribeFails ==
    /\ queue # <<>> /\ Head(queue).op = "subscribe"
    /\ crossed' = crossed \cup {Head(queue).of.uuid}
    /\ Answer("over")
    /\ UNCHANGED <<backend, table, known, booked, radio, at, todo>>

\* _disable_notify unregisters the callback even when the write fails.
Unsubscribe ==
    /\ queue # <<>> /\ Head(queue).op = "unsubscribe"
    /\ handler' = [handler EXCEPT ![Head(queue).of.uuid] = NoId]
    /\ Answer("over")
    /\ UNCHANGED <<backend, table, known, booked, asked, link, at, todo, crossed>>

Next ==
    \/ TickDown \/ TickList \/ TickNext \/ TickBooked
    \/ LinkUp \/ LinkFails \/ LinkDown
    \/ Subscribe \/ SubscribeFails \/ Unsubscribe
    \/ \E c \in Callers : Submit(c) \/ MockSubscribe(c) \/ Remember(c) \/ Over(c) \/ Timeout(c)
    \/ \E r \in Requests :
        \/ \E u \in Uuids : AddCheck(r, u)
        \/ AddInsert(r) \/ AddRefused(r) \/ AddedSubscribes(r)
        \/ \E id \in Ids : DeleteRead(r, id)
        \/ DeleteRow(r) \/ DeleteFails(r) \/ Forget(r) \/ Unsubmit(r) \/ MockUnsubscribe(r)

Spec == Init /\ [][Next]_vars

-----------------------------------------------------------------------------
(* Properties *)

\* Nobody has anything left to do about uuid u on a link that the monitor has booked.
Settled(u) ==
    /\ link /\ booked /\ pc[Monitor] = "idle" /\ ~Held(u)
    /\ \A i \in DOMAIN queue : queue[i].of.uuid # u

\* What the subscriptions come to: once settled, a uuid is heard by a channel the
\* device has, and by none if it has none - unless on this link a subscription failed,
\* a channel was deleted while somebody was about to subscribe it or while another had
\* its uuid, or one was created while another with its uuid was being removed.
\* _subscribe_display_channels, on_channel_added and on_channel_removed together miss
\* nothing else, and the next link puts it right.
HeardIsShown ==
    \A u \in Uuids : Settled(u) /\ u \notin crossed =>
        IF OfUuid(u) = {} THEN handler[u] = NoId ELSE handler[u] \in OfUuid(u)

\* While a link lasts, no step of anybody takes the notifications away from the only
\* channel with a uuid, unless one of those events came before: on_channel_removed
\* unsubscribes by uuid and the delegate has one callback per characteristic.
NobodySilenced ==
    [][\A u \in Uuids, id \in Ids :
        handler[u] = id /\ OfUuid(u) = {id} /\ link' /\ handler'[u] # id => u \in crossed']_vars

\* TickDown's ensure_connecting, the worker's attempt and its loss: the worker that bluepy
\* has for the device goes through the life of one link, as module Links has it.  The
\* mock connects in no time, without the step between.
LinkIs  == IF link THEN "up" ELSE IF asked THEN "connecting" ELSE "none"
Backend == INSTANCE Links WITH Peers <- {"device"}, state <- [d \in {"device"} |-> LinkIs]
ImplementsLinks == Backend!Spec
=============================================================================
