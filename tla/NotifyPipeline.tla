--------------------------- MODULE NotifyPipeline ---------------------------
(***************************************************************************)
(* What becomes of the notifications of one 0/1 display channel: the       *)
(* worker thread of the peripheral calls ChannelService.handle_notify for  *)
(* each, one after the other; it pushes the value to the dashboards, and   *)
(* at most once per interval (RateLimiter, on the monotonic clock) inserts *)
(* a reading, stamped by SQLite with the second of the wall clock.  The    *)
(* dashboards ask for the state of the flag and for the points of a chart  *)
(* (Readings).                                                             *)
(*                                                                         *)
(* Meanwhile a request may delete the channel with its readings, an insert *)
(* may fail, the server may be restarted (the limiter forgets, the         *)
(* readings stay), and the wall clock may be set.                          *)
(***************************************************************************)
EXTENDS Readings

CONSTANTS
    Values,         \* what the channel may report
    NoValue,        \* nothing yet
    PerSecond,      \* ticks of the monotonic clock in a second
    MinInterval,    \* reading_min_interval, in ticks
    Window,         \* an observation window, in seconds
    Bucket,         \* its bucket, in seconds
    MaxClock,       \* bound: ticks
    MaxReadings,    \* bound: readings of the channel
    Shifts          \* bound: how far the wall clock may be off, in seconds

ASSUME NumbersAssumption == /\ PerSecond \in Nat \ {0} /\ Bucket \in Nat \ {0}
                            /\ MinInterval \in Nat /\ Window \in Nat
                            /\ MaxClock \in Nat /\ MaxReadings \in Nat
                            /\ Shifts \subseteq Nat
ASSUME ValuesAssumption == NoValue \notin Values

NoTime == -1

VARIABLES
    clock,      \* time.monotonic
    shift,      \* the wall clock is this much ahead of it
    exists,     \* the channel has its row
    table,      \* its readings
    last,       \* RateLimiter._last_emit[channel], NoTime if there is none
    accepted,   \* the value handle_notify is about to insert, NoValue if it is not running
    recent,     \* history: notifications less than the interval before the last one
    lost,       \* history: the last value accepted was not inserted
    stepped     \* history: the wall clock has been set back

time   == <<clock, shift, stepped>>
vars   == <<time, exists, table, last, accepted, recent, lost>>

Now == clock \div PerSecond + shift

TypeOK ==
    /\ clock \in 0..MaxClock /\ shift \in Shifts
    /\ exists \in BOOLEAN /\ lost \in BOOLEAN /\ stepped \in BOOLEAN
    /\ table \in Seq([value : Values, recorded_at : Nat])
    /\ last \in 0..clock \cup {NoTime}
    /\ accepted \in Values \cup {NoValue}
    /\ recent \subseteq [value : Values, at : 0..clock]
    /\ ~exists => table = <<>>

Init ==
    /\ clock = 0 /\ shift \in Shifts
    /\ exists = TRUE
    /\ table = <<>>
    /\ last = NoTime
    /\ accepted = NoValue
    /\ recent = {}
    /\ lost = FALSE /\ stepped = FALSE

-----------------------------------------------------------------------------
(* handle_notify *)

\* RateLimiter.should_emit
ShouldEmit == last = NoTime \/ clock - last >= MinInterval

\* Mutant: every call restarts the interval.
NoteEmit_Always == last' = clock

\* ... which is noted if the answer is yes.
NoteEmit == last' = IF ShouldEmit THEN clock ELSE last

\* The value is decoded and pushed (whether or not a dashboard gets it); the limiter
\* decides if it is also recorded.
Notify(v) ==
    /\ accepted = NoValue /\ exists /\ Len(table) < MaxReadings
    /\ recent' = {n \in recent : clock - n.at < MinInterval} \cup {[value |-> v, at |-> clock]}
    /\ accepted' = IF ShouldEmit THEN v ELSE NoValue
    /\ NoteEmit
    /\ UNCHANGED <<time, exists, table, lost>>

\* Mutant: a connection that does not enforce foreign keys.
Insert_NoForeignKey ==
    /\ accepted # NoValue
    /\ table' = Append(table, [value |-> accepted, recorded_at |-> Now])
    /\ accepted' = NoValue
    /\ lost' = FALSE
    /\ UNCHANGED <<time, exists, last, recent>>

\* readings.insert
Insert ==
    /\ accepted # NoValue /\ exists
    /\ table' = Append(table, [value |-> accepted, recorded_at |-> Now])
    /\ accepted' = NoValue
    /\ lost' = FALSE
    /\ UNCHANGED <<time, exists, last, recent>>

\* The database is locked, or the channel has been deleted since it was read: the
\* exception ends in the delegate, and the limiter has counted the value.
InsertFails ==
    /\ accepted # NoValue
    /\ accepted' = NoValue
    /\ lost' = TRUE
    /\ UNCHANGED <<time, exists, table, last, recent>>

-----------------------------------------------------------------------------
(* Everything else *)

\* DELETE FROM channels cascades to the readings.
DeleteChannel ==
    /\ exists
    /\ exists' = FALSE
    /\ table' = <<>>
    /\ UNCHANGED <<time, last, accepted, recent, lost>>

\* The server is restarted; a value not yet inserted is lost.
Restart ==
    /\ last' = NoTime
    /\ accepted' = NoValue
    /\ lost' = (lost \/ accepted # NoValue)
    /\ UNCHANGED <<time, exists, table, recent>>

Tick ==
    /\ clock < MaxClock
    /\ clock' = clock + 1
    /\ UNCHANGED <<shift, stepped, exists, table, last, accepted, recent, lost>>

\* NTP sets the wall clock (the board has no clock that survives a power cut).
SetClock(s) ==
    /\ shift' = s /\ s # shift
    /\ stepped' = (stepped \/ s < shift)
    /\ UNCHANGED <<clock, exists, table, last, accepted, recent, lost>>

Next == \/ \E v \in Values : Notify(v)
        \/ Insert \/ InsertFails \/ DeleteChannel \/ Restart \/ Tick
        \/ \E s \in Shifts : SetClock(s)

Spec == Init /\ [][Next]_vars

-----------------------------------------------------------------------------
(* Properties *)

\* The latest reading of latest_by_channel is the one inserted last, as long as the wall
\* clock is never set back, although many readings may have the same second.
LatestIsLast == ~stepped => latest_by_channel(table) = Len(table)

\* get_flag_state: the state of the flag is one the device reported less than the
\* interval before its last notification.  The throttle may hide the last changes of a
\* burst, but never more than the interval, however many notifications there are.
StateIsRecent ==
    exists /\ accepted = NoValue /\ ~lost /\ ~stepped /\ recent # {} =>
        \E n \in recent : n.value = table[latest_by_channel(table)].value

Points == downsample_since(table, Now - Window, Bucket)

\* The chart ends where the flag stands: the latest reading, if it is in the window, is
\* in the last bucket and gives it its label; every reading of the window is in exactly
\* one bucket; and labels, by which the points are ordered, order the buckets.
ChartEndsWithLatest ==
    LET latest == latest_by_channel(table)
        in     == Since(table, Now - Window)
    IN  /\ \A b, c \in DOMAIN Points : b < c => Points[b].recorded_at < Points[c].recorded_at
        /\ UNION {Points[b].of : b \in DOMAIN Points} = in
        /\ \A b, c \in DOMAIN Points : b # c => Points[b].of \cap Points[c].of = {}
        /\ latest \in in =>
              LET end == Points[Max(DOMAIN Points)]
              IN  latest \in end.of /\ end.recorded_at = table[latest].recorded_at
=============================================================================
