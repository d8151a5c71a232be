-------------------------- MODULE ControllerWrites --------------------------
(***************************************************************************)
(* Commands to one controller channel: POST /channels/<id>/write calls     *)
(* ChannelService.write_command, which queues the value for the worker of  *)
(* the peripheral, waits for it with a timeout, and then inserts a reading *)
(* with the commanded value.  That reading is what the dashboards show as  *)
(* the state of the control (control_states): the value cannot be read     *)
(* back over BLE.                                                          *)
(*                                                                         *)
(* The value travels as the bytes of the channel's format (module Formats),*)
(* so what the peripheral is told is what those bytes say.                 *)
(*                                                                         *)
(* Several requests may command the channel at one time.  The worker obeys *)
(* in the order of its queue; the readings come in the order in which the  *)
(* waiting requests wake up.                                               *)
(***************************************************************************)
EXTENDS Formats

CONSTANTS
    Requests,   \* bound: write requests that are served at one time
    Values,     \* bound: numbers a user types, in halves
    Kinds,      \* bound: names of the formats the channel may have
    NoValue,    \* no command yet
    Nobody,     \* the caller of a command has given up waiting
    MaxQueue    \* bound: commands in the queue

ASSUME MaxQueueAssumption == MaxQueue \in Nat
ASSUME ValuesAssumption == Values \subseteq Int /\ Kinds \subseteq DOMAIN FORMATS
ASSUME NamesAssumption == NoValue \notin Int /\ Nobody \notin Requests

VARIABLES
    kind,       \* data_format of the channel
    link,       \* the worker is connected
    queue,      \* the worker's queue
    obeyed,     \* number the peripheral was told last
    record,     \* value of the latest reading of the channel
    pc, val,    \* where a request is, with which value
    strayed     \* history: the record may differ from what was obeyed

Format  == FORMATS[kind]
Codes   == {encode(v, Format) : v \in Values} \ {Refused}
Command == [bytes : Codes, by : Requests \cup {Nobody}]

\* What a value comes to in the format, when there is one.
Told(v) == IF v = NoValue THEN NoValue ELSE Truncated(v)

vars == <<kind, link, queue, obeyed, record, pc, val, strayed>>

TypeOK ==
    /\ kind \in Kinds
    /\ link \in BOOLEAN
    /\ queue \in Seq(Command)
    /\ obeyed \in Int \cup {NoValue}
    /\ record \in Values \cup {NoValue}
    /\ pc \in [Requests -> {"idle", "submit", "waiting", "obeyed"}]
    /\ val \in [Requests -> Values \cup {NoValue}]
    /\ strayed \in BOOLEAN
    /\ \A r \in Requests : val[r] = NoValue <=> pc[r] = "idle"

Init ==
    /\ kind \in Kinds
    /\ link \in BOOLEAN
    /\ queue = <<>>
    /\ obeyed = NoValue /\ record = NoValue
    /\ pc = [r \in Requests |-> "idle"]
    /\ val = [r \in Requests |-> NoValue]
    /\ strayed = FALSE

\* The request is answered: with the page of the device or an error page.
Leave(r) ==
    /\ pc' = [pc EXCEPT ![r] = "idle"]
    /\ val' = [val EXCEPT ![r] = NoValue]

-----------------------------------------------------------------------------
(* write_command *)

\* The channel is there, is a controller, and its format encodes the value.
Begin(r, v) ==
    /\ pc[r] = "idle" /\ encode(v, Format) # Refused
    /\ pc' = [pc EXCEPT ![r] = "submit"]
    /\ val' = [val EXCEPT ![r] = v]
    /\ UNCHANGED <<kind, link, queue, obeyed, record, strayed>>

\* BluepyManager.write: a command for the worker, or ConnectionError.
Submit(r) ==
    /\ pc[r] = "submit"
    /\ IF link
       THEN /\ Len(queue) < MaxQueue
            /\ queue' = Append(queue, [bytes |-> encode(val[r], Format), by |-> r])
            /\ pc' = [pc EXCEPT ![r] = "waiting"]
            /\ val' = val
       ELSE Leave(r) /\ queue' = queue
    /\ UNCHANGED <<kind, link, obeyed, record, strayed>>

\* Mutant: a command that has timed out is recorded like any other.
Timeout_Records(r) ==
    /\ pc[r] = "waiting"
    /\ record' = val[r]
    /\ queue' = [i \in DOMAIN queue |->
                    IF queue[i].by = r THEN [queue[i] EXCEPT !.by = Nobody] ELSE queue[i]]
    /\ Leave(r)
    /\ UNCHANGED <<kind, link, obeyed, strayed>>

\* result(timeout) gives up; the command stays in the queue.
Timeout(r) ==
    /\ pc[r] = "waiting"
    /\ queue' = [i \in DOMAIN queue |->
                    IF queue[i].by = r THEN [queue[i] EXCEPT !.by = Nobody] ELSE queue[i]]
    /\ Leave(r)
    /\ UNCHANGED <<kind, link, obeyed, record, strayed>>

\* The command was carried out: readings.insert.
Insert(r) ==
    /\ pc[r] = "obeyed"
    /\ record' = val[r]
    /\ Leave(r)
    /\ UNCHANGED <<kind, link, queue, obeyed, strayed>>

\* The database is locked, or the channel has been deleted meanwhile.
InsertFails(r) ==
    /\ pc[r] = "obeyed"
    /\ strayed' = TRUE
    /\ Leave(r)
    /\ UNCHANGED <<kind, link, queue, obeyed, record>>

-----------------------------------------------------------------------------
(* The worker *)

LinkUp ==
    /\ ~link
    /\ link' = TRUE
    /\ UNCHANGED <<kind, queue, obeyed, record, pc, val, strayed>>

Waiting(r) == pc[r] = "waiting"

\* Mutant: the drained futures are dropped unresolved.
LinkDown_Drops ==
    /\ link
    /\ link' = FALSE
    /\ queue' = <<>>
    /\ val' = [r \in Requests |-> IF Waiting(r) THEN NoValue ELSE val[r]]
    /\ UNCHANGED <<kind, obeyed, record, pc, strayed>>

\* The loss of the link is noticed: every queued command fails.
LinkDown ==
    /\ link
    /\ link' = FALSE
    /\ queue' = <<>>
    /\ pc' = [r \in Requests |-> IF Waiting(r) THEN "idle" ELSE pc[r]]
    /\ val' = [r \in Requests |-> IF Waiting(r) THEN NoValue ELSE val[r]]
    /\ UNCHANGED <<kind, obeyed, record, strayed>>

\* Somebody's command was obeyed and is not on record yet.
Unrecorded == \E r \in Requests : pc[r] = "obeyed"

\* The peripheral carries out the command at the head of the queue.  The record will
\* follow unless nobody waits for it, or another record is still to come.
Obey ==
    /\ queue # <<>>
    /\ obeyed' = decode(Head(queue).bytes, Format)
    /\ strayed' = (Head(queue).by = Nobody \/ Unrecorded)
    /\ pc' = [r \in Requests |-> IF r = Head(queue).by THEN "obeyed" ELSE pc[r]]
    /\ queue' = Tail(queue)
    /\ UNCHANGED <<kind, link, record, val>>

\* The write raises; the peripheral may have carried it out all the same.
ObeyFails ==
    /\ queue # <<>>
    /\ LET done == Head(queue).by IN
        /\ pc' = [r \in Requests |-> IF r = done THEN "idle" ELSE pc[r]]
        /\ val' = [r \in Requests |-> IF r = done THEN NoValue ELSE val[r]]
    /\ \/ obeyed' = obeyed /\ strayed' = strayed
       \/ obeyed' = decode(Head(queue).bytes, Format) /\ strayed' = TRUE
    /\ queue' = Tail(queue)
    /\ UNCHANGED <<kind, link, record>>

Next ==
    \/ LinkUp \/ LinkDown \/ Obey \/ ObeyFails
    \/ \E r \in Requests :
        \/ \E v \in Values : Begin(r, v)
        \/ Submit(r) \/ Timeout(r) \/ Insert(r) \/ InsertFails(r)

Spec == Init /\ [][Next]_vars

-----------------------------------------------------------------------------
(* Properties *)

\* The control shows what the peripheral was told, up to the fraction its format drops,
\* once everybody who waits to record a command has done so - unless the last command
\* obeyed was one whose caller had given up or was told that it failed, one that could
\* not be recorded, or one that was obeyed while another still waited to be recorded.
RecordIsObeyed == ~Unrecorded /\ ~strayed => Told(record) = obeyed
=============================================================================
