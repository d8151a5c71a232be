----------------------------- MODULE Dashboard -----------------------------
(***************************************************************************)
(* One channel on one open page.  The page has a flag (an LED, the time it *)
(* was last on, a toast when it goes on) or a chart of the channel.  It    *)
(* fetches the state of the flag, or the history, over HTTP, and asks its  *)
(* socket to join the room of the channel; from then on the server pushes  *)
(* every notification to it.  Nothing orders the answers to fetches with   *)
(* the pushes, or with each other.                                         *)
(*                                                                         *)
(* The socket may be lost: socket.io connects again, but nobody joins the  *)
(* room again.  A fetch may fail, the channel may be deleted, and the      *)
(* clock of the browser may be ahead of the server's or behind it.  Which  *)
(* notifications are recorded is left open here (NotifyPipeline).          *)
(***************************************************************************)
EXTENDS Readings, Functions

CONSTANTS
    Values,         \* what the channel may report
    FlagOn,         \* _FLAG_ON_THRESHOLD, FLAG_ON
    Windows,        \* the observation windows, in seconds
    BucketOf,       \* and their buckets
    NoWindow,       \* the page has no #window-selector
    Limit,          \* readings of a history without a window (200)
    Keep,           \* points of a chart without a window (60)
    Skews,          \* bound: how far the browser's clock may be ahead, rounded up to seconds
    MaxClock,       \* bound: seconds
    MaxNotes,       \* bound: notifications
    MaxLoads        \* bound: fetches of the history

ASSUME NumbersAssumption == /\ Windows \subseteq Nat \ {0} /\ NoWindow \notin Windows
                            /\ BucketOf \in [Windows -> Nat \ {0}]
                            /\ FlagOn \in Int /\ Values \subseteq Int /\ Values # {}
                            /\ Limit \in Nat \ {0} /\ Keep \in Nat \ {0} /\ Skews \subseteq Int
                            /\ MaxClock \in Nat /\ MaxNotes \in Nat /\ MaxLoads \in Nat \ {0}

NoNote == 0
NoTime == -1

VARIABLES
    clock,      \* the server's, in seconds
    exists,     \* the channel has its row
    notes,      \* history: the notifications, [value, at]; a note is an index of it
    accepted,   \* the note handle_notify is about to insert, or NoNote
    table,      \* the readings, each with its note
    socket,     \* "opening", "joined" the room, or "lost" after that
    wire,       \* the notes pushed and not yet rendered
    joinedAt,   \* history: the last note before the socket joined
    widget,     \* what the page has: "flag" or "chart"
    skew,       \* the browser's clock is at most this much ahead, and by more than skew - 1
    flag,       \* the entry of flags: the note shown, on, lastOn
    state,      \* the fetch of its state: its step, and the answer as far as it is known
    toasts,     \* the notes that popped a toast
    window,     \* currentWindow
    loads,      \* the fetches of the history that are underway
    asked,      \* how many there were
    points,     \* the points of the chart, [at, notes]
    rendered,   \* history: the last push rendered
    seen,       \* history: the last push rendered when the last answer was
    drawn,      \* history: the fetch that was answered last
    read,       \* history: the note of the latest reading when that fetch was served
    doubled     \* history: that answer has a note whose push was still on the wire

server == <<clock, exists, notes, accepted, table>>
link   == <<socket, wire, joinedAt>>
page   == <<widget, skew>>
flags  == <<flag, state, toasts>>
charts == <<window, loads, asked, points, drawn, read, doubled>>
vars   == <<server, link, page, flags, charts, rendered, seen>>

IsOn(n) == n # NoNote /\ notes[n].value >= FlagOn

\* The values that matter: a chart does not tell them apart.
Reported == IF widget = "flag" THEN Values ELSE {CHOOSE v \in Values : TRUE}

Init ==
    /\ clock = 0 /\ exists = TRUE
    /\ notes = <<>> /\ accepted = NoNote /\ table = <<>>
    /\ socket = "opening" /\ wire = <<>> /\ joinedAt = 0
    /\ widget \in {"flag", "chart"}
    /\ skew \in (IF widget = "chart" THEN Skews ELSE {0})
    /\ flag = [note |-> NoNote, on |-> FALSE, lastOn |-> NoTime]
    /\ state = [step |-> "sent", note |-> NoNote, lastOn |-> NoTime]
    /\ toasts = {}
    /\ window \in (IF widget = "chart" THEN Windows \cup {NoWindow} ELSE {NoWindow})
    /\ loads = (IF widget = "chart" THEN {[no |-> 1, window |-> window, step |-> "sent",
                                           points |-> <<>>, read |-> NoNote]} ELSE {})
    /\ asked = 1
    /\ points = <<>>
    /\ rendered = 0 /\ seen = 0 /\ drawn = 0 /\ read = NoNote /\ doubled = FALSE

-----------------------------------------------------------------------------
(* The server: handle_notify pushes first and inserts afterwards *)

Tick ==
    /\ clock < MaxClock
    /\ clock' = clock + 1
    /\ UNCHANGED <<exists, notes, accepted, table, link, page, flags, charts, rendered, seen>>

\* Mutant: the push goes to every open page, not to the room of the channel.
Notify_Broadcast(v) ==
    /\ exists /\ accepted = NoNote /\ Len(notes) < MaxNotes
    /\ notes' = Append(notes, [value |-> v, at |-> clock])
    /\ wire' = Append(wire, Len(notes'))
    /\ accepted' \in {NoNote, Len(notes')}
    /\ UNCHANGED <<clock, exists, table, socket, joinedAt, page, flags, charts, rendered, seen>>

Notify(v) ==
    /\ exists /\ accepted = NoNote /\ Len(notes) < MaxNotes
    /\ notes' = Append(notes, [value |-> v, at |-> clock])
    /\ wire' = IF socket = "joined" THEN Append(wire, Len(notes')) ELSE wire
    /\ accepted' \in {NoNote, Len(notes')}
    /\ UNCHANGED <<clock, exists, table, socket, joinedAt, page, flags, charts, rendered, seen>>

Insert ==
    /\ accepted # NoNote /\ exists
    /\ table' = Append(table, [value |-> notes[accepted].value, recorded_at |-> clock,
                               note |-> accepted])
    /\ accepted' = NoNote
    /\ UNCHANGED <<clock, exists, notes, link, page, flags, charts, rendered, seen>>

InsertFails ==
    /\ accepted # NoNote
    /\ accepted' = NoNote
    /\ UNCHANGED <<clock, exists, notes, table, link, page, flags, charts, rendered, seen>>

DeleteChannel ==
    /\ exists
    /\ exists' = FALSE
    /\ table' = <<>>
    /\ UNCHANGED <<clock, notes, accepted, link, page, flags, charts, rendered, seen>>

-----------------------------------------------------------------------------
(* The socket *)

\* subscribe_channel, which waits in the client until it is connected.
Join ==
    /\ socket = "opening"
    /\ socket' = "joined"
    /\ joinedAt' = Len(notes)
    /\ UNCHANGED <<server, wire, page, flags, charts, rendered, seen>>

\* The session ends with what is on the wire; the next one is in no room.
Lose ==
    /\ socket = "joined"
    /\ socket' = "lost"
    /\ wire' = <<>>
    /\ UNCHANGED <<server, joinedAt, page, flags, charts, rendered, seen>>

Receive ==
    /\ wire # <<>>
    /\ wire' = Tail(wire)
    /\ rendered' = Head(wire)
    /\ UNCHANGED <<socket, joinedAt, seen>>

-----------------------------------------------------------------------------
(* The flag *)

\* Mutant: only a reading that is on is rendered.
ReadingToFlag_OnlyOn ==
    /\ widget = "flag" /\ Receive
    /\ LET n == Head(wire)
       IN  /\ toasts' = IF IsOn(n) /\ ~flag.on THEN toasts \cup {n} ELSE toasts
           /\ flag' = IF IsOn(n) THEN [note |-> n, on |-> TRUE, lastOn |-> notes[n].at]
                      ELSE [flag EXCEPT !.on = FALSE]
    /\ UNCHANGED <<server, page, state, charts>>

ReadingToFlag ==
    /\ widget = "flag" /\ Receive
    /\ LET n == Head(wire)
       IN  /\ toasts' = IF IsOn(n) /\ ~flag.on THEN toasts \cup {n} ELSE toasts
           /\ flag' = [note   |-> n,
                       on     |-> IsOn(n),
                       lastOn |-> IF IsOn(n) THEN notes[n].at ELSE flag.lastOn]
    /\ UNCHANGED <<server, page, state, charts>>

\* channel_flag finds the channel; the readings are selected later.
FindFlag ==
    /\ widget = "flag" /\ state.step = "sent" /\ exists
    /\ state' = [state EXCEPT !.step = "found"]
    /\ UNCHANGED <<server, link, page, flag, toasts, charts, rendered, seen>>

LatestNote ==
    LET i == latest_by_channel(table)
    IN  IF i = NoReading THEN NoNote ELSE table[i].note

LastOnTime ==
    LET i == latest_at_or_above(table, FlagOn)
    IN  IF i = NoReading THEN NoTime ELSE table[i].recorded_at

\* Mutant: the two are selected in the other order.
get_flag_state_LastOnFirst ==
    /\ \/ state.step = "found"
          /\ state' = [state EXCEPT !.step = "latest", !.lastOn = LastOnTime]
       \/ state.step = "latest"
          /\ state' = [state EXCEPT !.step = "answered", !.note = LatestNote]
    /\ UNCHANGED <<server, link, page, flag, toasts, charts, rendered, seen>>

\* The latest reading, and in a second statement the last one that was on.
get_flag_state ==
    /\ \/ state.step = "found"
          /\ state' = [state EXCEPT !.step = "latest", !.note = LatestNote]
       \/ state.step = "latest"
          /\ state' = [state EXCEPT !.step = "answered", !.lastOn = LastOnTime]
    /\ UNCHANGED <<server, link, page, flag, toasts, charts, rendered, seen>>

\* Mutant: the answer is rendered, but not remembered as the state before the next push.
AnswerFlag_RenderOnly ==
    /\ state.step = "answered"
    /\ state' = [state EXCEPT !.step = "done"]
    /\ flag' = [note |-> state.note, on |-> flag.on, lastOn |-> state.lastOn]
    /\ seen' = rendered
    /\ UNCHANGED <<server, link, page, toasts, charts, rendered>>

AnswerFlag ==
    /\ state.step = "answered"
    /\ state' = [state EXCEPT !.step = "done"]
    /\ flag' = [note |-> state.note, on |-> IsOn(state.note), lastOn |-> state.lastOn]
    /\ seen' = rendered
    /\ UNCHANGED <<server, link, page, toasts, charts, rendered>>

FlagFails ==
    /\ widget = "flag" /\ state.step \notin {"done", "failed"}
    /\ state' = [state EXCEPT !.step = "failed"]
    /\ UNCHANGED <<server, link, page, flag, toasts, charts, rendered, seen>>

-----------------------------------------------------------------------------
(* The chart *)

\* Date.now() - WINDOW_MS[currentWindow], for stamps of whole seconds: those before it are
\* those before the next second, unless a second just begins.  Whichever part of a second
\* the clocks are apart, that is clock + skew - window or one more.
Cutoff(part) == clock + skew + part - window

\* The points from the first one on that the trimming leaves.
From(s, i) == SubSeq(s, i, Len(s))

\* Mutant: the else is forgotten, and a window is trimmed to the last points as well.
Trim_AlsoCounts(s, part) ==
    LET t == IF window # NoWindow
             THEN From(s, Min({i \in DOMAIN s : s[i].at >= Cutoff(part)} \cup {Len(s) + 1}))
             ELSE s
    IN IF Len(t) > Keep THEN Tail(t) ELSE t

\* Mutant: one point makes room for one.
Trim_One(s, part) ==
    IF window # NoWindow
    THEN IF s # <<>> /\ Head(s).at < Cutoff(part) THEN Tail(s) ELSE s
    ELSE IF Len(s) > Keep THEN Tail(s) ELSE s

Trim(s, part) ==
    IF window # NoWindow
    THEN From(s, Min({i \in DOMAIN s : s[i].at >= Cutoff(part)} \cup {Len(s) + 1}))
    ELSE IF Len(s) > Keep THEN Tail(s) ELSE s

ReadingToChart ==
    /\ widget = "chart" /\ Receive
    /\ \E part \in {0, 1} :
          points' = Trim(Append(points, [at |-> notes[Head(wire)].at, notes |-> {Head(wire)}]), part)
    /\ UNCHANGED <<server, page, flags, window, loads, asked, drawn, read, doubled>>

\* loadChart
Load(w) == loads \cup {[no |-> asked + 1, window |-> w, step |-> "sent", points |-> <<>>, read |-> NoNote]}

Click(w) ==
    /\ widget = "chart" /\ window # NoWindow /\ asked < MaxLoads
    /\ window' = w
    /\ loads' = Load(w)
    /\ asked' = asked + 1
    /\ UNCHANGED <<server, link, page, flags, points, drawn, read, doubled, rendered, seen>>

FindHistory(l) ==
    /\ l \in loads /\ l.step = "sent" /\ exists
    /\ loads' = (loads \ {l}) \cup {[l EXCEPT !.step = "found"]}
    /\ UNCHANGED <<server, link, page, flags, window, asked, points, drawn, read, doubled, rendered, seen>>

Notes(ids) == {table[i].note : i \in ids}

\* channel_history: the buckets of a window, or the readings up to the limit.
Windowed(w) ==
    LET history == downsample_since(table, clock - w, BucketOf[w])
    IN  {[at |-> history[b].recorded_at, notes |-> Notes(history[b].of)] : b \in DOMAIN history}

Unwindowed == {[at |-> table[i].recorded_at, notes |-> {table[i].note}] :
                  i \in list_by_channel(table, Limit)}

\* Oldest first.
InSequence(S) ==
    LET before(p) == {q \in S : \/ q.at < p.at
                                \/ q.at = p.at /\ Min(q.notes) <= Min(p.notes)}
    IN  [i \in 1..Cardinality(S) |-> CHOOSE p \in S : Cardinality(before(p)) = i]

ReadHistory(l) ==
    /\ l \in loads /\ l.step = "found"
    /\ LET history == InSequence(IF l.window = NoWindow THEN Unwindowed ELSE Windowed(l.window))
       IN  loads' = (loads \ {l})
              \cup {[l EXCEPT !.step = "answered", !.points = history, !.read = LatestNote]}
    /\ UNCHANGED <<server, link, page, flags, window, asked, points, drawn, read, doubled, rendered, seen>>

\* Mutant: the points of the answer are pushed after the ones that are there.
AnswerChart_Appends(l) ==
    /\ l \in loads /\ l.step = "answered"
    /\ loads' = loads \ {l}
    /\ points' = points \o l.points
    /\ seen' = rendered /\ drawn' = l.no /\ read' = l.read
    /\ doubled' = \E n \in Range(wire) : n <= l.read
    /\ UNCHANGED <<server, link, page, flags, window, asked, rendered>>

AnswerChart(l) ==
    /\ l \in loads /\ l.step = "answered"
    /\ loads' = loads \ {l}
    /\ points' = l.points
    /\ seen' = rendered /\ drawn' = l.no /\ read' = l.read
    /\ doubled' = \E n \in Range(wire) : n <= l.read
    /\ UNCHANGED <<server, link, page, flags, window, asked, rendered>>

ChartFails(l) ==
    /\ l \in loads
    /\ loads' = loads \ {l}
    /\ UNCHANGED <<server, link, page, flags, window, asked, points, drawn, read, doubled, rendered, seen>>

-----------------------------------------------------------------------------

Next ==
    \/ Tick \/ Insert \/ InsertFails \/ DeleteChannel
    \/ \E v \in Reported : Notify(v)
    \/ Join \/ Lose
    \/ ReadingToFlag \/ FindFlag \/ get_flag_state \/ AnswerFlag \/ FlagFails
    \/ ReadingToChart
    \/ \E w \in Windows : Click(w)
    \/ \E l \in loads : FindHistory(l) \/ ReadHistory(l) \/ AnswerChart(l) \/ ChartFails(l)

Spec == Init /\ [][Next]_vars

-----------------------------------------------------------------------------
(* Properties *)

Steps == {"sent", "found", "latest", "answered", "done", "failed"}

Point == [at : 0..clock, notes : SUBSET DOMAIN notes]

\* What is on the wire are the last notifications, in their order, since the socket
\* joined; a socket that is not in the room has nothing on the wire.
TypeOK ==
    /\ clock \in 0..MaxClock /\ exists \in BOOLEAN
    /\ notes \in Seq([value : Reported, at : 0..clock])
    /\ accepted \in {NoNote, Len(notes)}
    /\ table \in Seq([value : Reported, recorded_at : 0..clock, note : DOMAIN notes])
    /\ socket \in {"opening", "joined", "lost"} /\ joinedAt \in 0..Len(notes)
    /\ wire = [i \in 1..Len(wire) |-> Len(notes) - Len(wire) + i]
    /\ Len(wire) <= Len(notes) - joinedAt
    /\ socket # "joined" => wire = <<>>
    /\ widget \in {"flag", "chart"}
    /\ flag.note \in 0..Len(notes) /\ flag.on \in BOOLEAN /\ flag.lastOn \in 0..clock \cup {NoTime}
    /\ state.step \in Steps /\ state.note \in 0..Len(notes)
    /\ state.lastOn \in 0..clock \cup {NoTime}
    /\ toasts \subseteq 1..rendered
    /\ window \in Windows \cup {NoWindow}
    /\ \A l \in loads : l.no \in 1..asked /\ l.points \in Seq(Point)
    /\ points \in Seq(Point) /\ drawn \in 0..asked /\ asked \in 1..MaxLoads
    /\ rendered \in 0..Len(notes) /\ seen \in 0..rendered /\ read \in 0..Len(notes)

\* The answer has every notification that was not pushed to the page, and none that is
\* newer had been rendered before it.
InStep == state.step = "done" /\ joinedAt <= state.note /\ seen <= state.note

\* The LED shows the last notification as soon as nothing is on the wire: if the page was
\* in step when the answer came, and otherwise from the next push on, whatever overtook
\* what before.
FlagCurrent ==
    /\ widget = "flag" /\ socket = "joined" /\ wire = <<>> /\ notes # <<>>
    /\ InStep \/ rendered > seen
    => flag.note = Len(notes) /\ flag.on = IsOn(flag.note)

\* "Only toast on the rising edge (0 -> 1), not on every 'still on' reading": from the
\* answer on, every rise pops one toast and nothing else does, although some of the
\* pushes may be older than the answer.  Out of step the comment is wrong: before the
\* answer the page takes the flag to be off.
ToastsAreRises ==
    widget = "flag" /\ InStep =>
        {n \in toasts : n > state.note} = {n \in state.note + 1..rendered : IsOn(n) /\ ~IsOn(n - 1)}

\* A flag that is shown on has the time of this reading or of a later one, although the
\* state and the time come from two statements with insertions between them; only the
\* channel's deletion between the two leaves it without one.
OnHasTime == exists /\ flag.on => flag.lastOn >= notes[flag.note].at

\* Points are in the order of time, on which the trimming relies, although an answer
\* replaces points that are newer and pushes are stamped before their readings are;
\* except for an answer that has points whose pushes are still to come.
ChartInOrder ==
    ~doubled => \A i, j \in DOMAIN points : i < j => points[i].at <= points[j].at

\* "The live feed trims to the same span": after a push no point is older than the window,
\* however many have become so since the last one; without a window the points are
\* bounded, although every push drops at most one.
ChartTrimmed ==
    [][widget = "chart" /\ rendered' # rendered =>
          IF window = NoWindow THEN Len(points') <= Max({Limit, Keep})
          ELSE ~doubled => \A p \in Range(points') : p.at >= Cutoff(0)]_vars

Drawn == UNION {p.notes : p \in Range(points)}

\* What the chart was given: the readings of the answer, and the pushes since.
Fetched == {table[i].note : i \in DOMAIN table} \cap 1..read
Pushed == Max({seen, joinedAt}) + 1..rendered

\* "How far back charts show": when the last fetch was answered, after all others, the
\* chart has all of the window that it was given, by either clock, but for the second on its
\* edge: the server sends the readings of that second, and the next push drops them when
\* the browser's clock has got past its start.  Without a window the chart has the last
\* readings, as long as there are no more of them than a history holds: the history has
\* the oldest.
ChartComplete ==
    drawn = asked =>
        IF window # NoWindow
        THEN \A n \in Fetched \cup Pushed :
                notes[n].at >= clock + Max({skew + 1, 0}) - window => n \in Drawn
        ELSE /\ \A n \in Pushed : rendered - n < Keep => n \in Drawn
             /\ Cardinality(Fetched) <= Limit =>
                   \A n \in Fetched :
                      Cardinality({k \in Fetched : k > n}) + (rendered - seen) < Keep => n \in Drawn
=============================================================================
