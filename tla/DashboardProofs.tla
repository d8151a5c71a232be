-------------------------- MODULE DashboardProofs --------------------------
(***************************************************************************)
(* The two pages of Dashboard, for every number of notifications, clock,   *)
(* window and limit: what a flag shows, since when, and which toasts it    *)
(* popped; that the points of a chart are in order and are trimmed, and    *)
(* that none it was given is missing.                                      *)
(***************************************************************************)
EXTENDS Dashboard, FiniteSetTheorems, WellFoundedInduction, TLAPS

Note == [value : Int, at : Nat]
Row == [value : Int, recorded_at : Nat, note : Nat]

\* The readings are notifications, in their order; each was notified no later than it is
\* stamped, and the one that is about to be inserted is newer than all.
Server ==
    /\ clock \in Nat /\ notes \in Seq(Note) /\ table \in Seq(Row)
    /\ accepted \in {NoNote, Len(notes)}
    /\ \A n \in DOMAIN notes : notes[n].at <= clock
    /\ \A m, n \in DOMAIN notes : m < n => notes[m].at <= notes[n].at
    /\ \A i \in DOMAIN table :
          /\ table[i].note \in DOMAIN notes
          /\ accepted # NoNote => table[i].note < accepted
          /\ table[i].value = notes[table[i].note].value
          /\ notes[table[i].note].at <= table[i].recorded_at
          /\ table[i].recorded_at <= clock
          /\ \A n \in DOMAIN notes : n > table[i].note => table[i].recorded_at <= notes[n].at
    /\ \A i, j \in DOMAIN table : i < j => table[i].recorded_at <= table[j].recorded_at
    /\ \A i, j \in DOMAIN table : i < j => table[i].note < table[j].note

\* The ids of the readings that were on, and the last of them.
OnIds == {i \in DOMAIN table : table[i].value >= FlagOn}
LastOn == OnIds # {} => \E m \in OnIds : \A i \in OnIds : i <= m

\* The last notification that is not on the wire any more.
Edge == Len(notes) - Len(wire)

\* The pushes come in without a gap from the join on, until the socket is lost.
Link ==
    /\ socket \in {"opening", "joined", "lost"}
    /\ wire \in Seq(Nat) /\ Len(wire) <= Len(notes)
    /\ \A i \in 1..Len(wire) : wire[i] = Edge + i
    /\ joinedAt \in Nat /\ joinedAt <= Len(notes)
    /\ rendered \in Nat /\ rendered <= Len(notes)
    /\ socket = "joined" => \/ rendered = Edge /\ joinedAt < Edge
                            \/ rendered = 0 /\ joinedAt = Edge
    /\ socket # "joined" => wire = <<>>
    /\ socket = "opening" => rendered = 0

\* The flag shows the last push, or the answer if there was none since.
Shown ==
    /\ seen \in Nat /\ seen <= rendered
    /\ state.note \in Nat /\ state.note <= Len(notes)
    /\ state.step # "done" => seen = 0 /\ flag.note = rendered
    /\ state.step = "done" =>
          flag.note = IF rendered > seen THEN rendered ELSE state.note
    /\ flag.on = IsOn(flag.note)
    /\ state \in [step : Steps, note : Nat, lastOn : Int]
    /\ flag \in [note : Nat, on : BOOLEAN, lastOn : Int]

\* The time that goes with the flag, in every stage of the fetch.
Times ==
    /\ exists /\ state.step = "latest" /\ IsOn(state.note) =>
          \E i \in DOMAIN table : table[i].note = state.note
    /\ exists /\ state.step = "answered" /\ IsOn(state.note) =>
          state.lastOn >= notes[state.note].at
    /\ exists /\ IsOn(flag.note) => flag.lastOn >= notes[flag.note].at

Toasts ==
    /\ toasts \subseteq 1..rendered
    /\ InStep => {n \in toasts : n > state.note}
                    = {n \in state.note + 1..rendered : IsOn(n) /\ ~IsOn(n - 1)}

FlagInv == widget = "flag" /\ loads = {} /\ Server /\ LastOn /\ Link /\ Shown /\ Times /\ Toasts

-----------------------------------------------------------------------------
(* The server *)

LEMMA ReportedValues == Reported \subseteq Values /\ Values \subseteq Int
  BY NumbersAssumption DEF Reported

\* Every step is one of the server or leaves it alone.
LEMMA ServerSteps ==
    ASSUME [Next]_vars
    PROVE  \/ Tick \/ Insert \/ InsertFails \/ DeleteChannel
           \/ \E v \in Values : Notify(v)
           \/ UNCHANGED server
<1>1. ASSUME NEW v \in Reported, Notify(v) PROVE \E u \in Values : Notify(u)
  BY <1>1, ReportedValues
<1>2. ASSUME Join \/ Lose \/ ReadingToFlag \/ FindFlag \/ get_flag_state \/ AnswerFlag \/ FlagFails
      PROVE  UNCHANGED server
  BY <1>2 DEF Join, Lose, ReadingToFlag, FindFlag, get_flag_state, AnswerFlag, FlagFails
<1>3. ASSUME ReadingToChart \/ (\E w \in Windows : Click(w)) PROVE UNCHANGED server
  BY <1>3 DEF ReadingToChart, Click
<1>4. ASSUME NEW l \in loads, FindHistory(l) \/ ReadHistory(l) \/ AnswerChart(l) \/ ChartFails(l)
      PROVE  UNCHANGED server
  BY <1>4 DEF FindHistory, ReadHistory, AnswerChart, ChartFails
<1>5. ASSUME UNCHANGED vars PROVE UNCHANGED server
  BY <1>5 DEF vars
<1>. QED
  BY <1>1, <1>2, <1>3, <1>4, <1>5 DEF Next

LEMMA NotesType ==
    ASSUME Server
    PROVE  /\ DOMAIN notes = 1..Len(notes) /\ Len(notes) \in Nat
           /\ \A n \in DOMAIN notes : notes[n].value \in Int /\ notes[n].at \in Nat
           /\ DOMAIN table = 1..Len(table) /\ Len(table) \in Nat
           /\ \A i \in DOMAIN table : /\ table[i].value \in Int /\ table[i].note \in Nat
                                      /\ table[i].recorded_at \in Nat
<1>1. DOMAIN notes = 1..Len(notes) /\ Len(notes) \in Nat /\ \A n \in DOMAIN notes : notes[n] \in Note
  BY DEF Server
<1>2. DOMAIN table = 1..Len(table) /\ Len(table) \in Nat /\ \A i \in DOMAIN table : table[i] \in Row
  BY DEF Server
<1>. QED
  BY <1>1, <1>2 DEF Note, Row

\* A notification leaves the ones before it as they are.
LEMMA NotifyKeeps ==
    ASSUME Server, NEW v \in Values, Notify(v)
    PROVE  /\ notes' \in Seq(Note) /\ Len(notes') = Len(notes) + 1 /\ DOMAIN notes' = 1..Len(notes) + 1
           /\ \A n \in DOMAIN notes : notes'[n] = notes[n]
           /\ notes'[Len(notes) + 1] = [value |-> v, at |-> clock]
           /\ \A n \in 0..Len(notes) : IsOn(n)' = IsOn(n)
<1>1. notes' = Append(notes, [value |-> v, at |-> clock]) /\ [value |-> v, at |-> clock] \in Note
  BY NumbersAssumption DEF Notify, Server, Note
<1>2. notes \in Seq(Note)
  BY DEF Server
<1>3. /\ notes' \in Seq(Note) /\ Len(notes') = Len(notes) + 1 /\ DOMAIN notes' = 1..Len(notes) + 1
      /\ \A n \in DOMAIN notes : notes'[n] = notes[n]
      /\ notes'[Len(notes) + 1] = [value |-> v, at |-> clock]
  BY <1>1, <1>2
<1>4. \A n \in 0..Len(notes) : IsOn(n)' = IsOn(n)
  BY <1>2, <1>3 DEF IsOn, NoNote
<1>. QED
  BY <1>3, <1>4

LEMMA ServerStep == Server /\ [Next]_vars => Server'
<1>. SUFFICES ASSUME Server, [Next]_vars PROVE Server'
  OBVIOUS
<1>n. /\ DOMAIN notes = 1..Len(notes) /\ Len(notes) \in Nat
      /\ \A n \in DOMAIN notes : notes[n].value \in Int /\ notes[n].at \in Nat
      /\ DOMAIN table = 1..Len(table) /\ Len(table) \in Nat
      /\ \A i \in DOMAIN table : /\ table[i].value \in Int /\ table[i].note \in Nat
                                 /\ table[i].recorded_at \in Nat
  BY NotesType
<1>1. CASE Tick
  <2>1. clock' = clock + 1 /\ notes' = notes /\ table' = table /\ accepted' = accepted /\ clock \in Nat
    BY <1>1 DEF Tick, Server
  <2>. QED
    BY <2>1, <1>n DEF Server
<1>2. ASSUME NEW v \in Values, Notify(v) PROVE Server'
  <2>1. /\ clock' = clock /\ table' = table /\ accepted' \in {NoNote, Len(notes')}
        /\ accepted = NoNote /\ clock \in Nat
    BY <1>2 DEF Notify, Server
  <2>2. \A i \in DOMAIN table : table[i].note < Len(notes) + 1
    BY <1>n DEF Server
  <2>3. /\ notes' \in Seq(Note) /\ Len(notes') = Len(notes) + 1 /\ DOMAIN notes' = 1..Len(notes) + 1
        /\ \A n \in DOMAIN notes : notes'[n] = notes[n]
        /\ notes'[Len(notes) + 1] = [value |-> v, at |-> clock]
    BY <1>2, NotifyKeeps
  <2>4. \A n \in DOMAIN notes' : notes'[n].at <= clock /\ (n \in DOMAIN notes \/ n = Len(notes) + 1)
    BY <2>1, <2>3, <1>n DEF Server
  <2>5. \A i \in DOMAIN table :
          /\ table[i].note \in DOMAIN notes'
          /\ accepted' # NoNote => table[i].note < accepted'
          /\ notes'[table[i].note] = notes[table[i].note]
    BY <2>1, <2>2, <2>3, <1>n DEF Server
  <2>6. \A m, n \in DOMAIN notes' : m < n => notes'[m].at <= notes'[n].at
    BY <2>1, <2>3, <2>4, <1>n DEF Server
  <2>7. \A i \in DOMAIN table, n \in DOMAIN notes' :
            n > table[i].note => table[i].recorded_at <= notes'[n].at
    BY <2>1, <2>3, <2>4, <1>n DEF Server
  <2>. QED
    BY <2>1, <2>3, <2>4, <2>5, <2>6, <2>7 DEF Server
<1>3. CASE Insert
  <2>0. clock' = clock /\ notes' = notes /\ accepted' = NoNote /\ accepted # NoNote
    BY <1>3 DEF Insert
  <2>1. /\ clock' = clock /\ notes' = notes /\ accepted' = NoNote /\ accepted = Len(notes)
        /\ accepted # NoNote /\ accepted \in DOMAIN notes /\ clock \in Nat
    <3>1. accepted \in {NoNote, Len(notes)} /\ clock \in Nat
      BY DEF Server
    <3>2. accepted = Len(notes) /\ accepted # 0
      BY <2>0, <3>1 DEF NoNote
    <3>3. accepted \in DOMAIN notes
      BY <3>2, <1>n
    <3>. QED
      BY <2>0, <3>1, <3>2, <3>3
  <2> DEFINE row == [value |-> notes[accepted].value, recorded_at |-> clock, note |-> accepted]
  <2>2. table' = Append(table, row) /\ row \in Row
    BY <1>3, <2>1, <1>n DEF Insert, Server, Row
  <2>3. /\ table' \in Seq(Row) /\ DOMAIN table' = 1..Len(table) + 1
        /\ \A i \in DOMAIN table : table'[i] = table[i]
        /\ table'[Len(table) + 1] = row
    BY <2>2 DEF Server
  <2>r. /\ row.value = notes[accepted].value /\ row.recorded_at = clock /\ row.note = accepted
        /\ \A i \in DOMAIN table' : i \in DOMAIN table \/ i = Len(table) + 1
        /\ notes[accepted].at <= clock
    BY <2>1, <2>3, <1>n DEF Server
  <2>. HIDE DEF row
  <2>4. \A i \in DOMAIN table' :
          /\ table'[i].note \in DOMAIN notes
          /\ table'[i].value = notes[table'[i].note].value
          /\ notes[table'[i].note].at <= table'[i].recorded_at
          /\ table'[i].recorded_at <= clock
    BY <2>1, <2>3, <2>r, <1>n DEF Server
  <2>5. \A i, j \in DOMAIN table' : i < j => /\ table'[i].recorded_at <= table'[j].recorded_at
                                             /\ table'[i].note < table'[j].note
    <3>. SUFFICES ASSUME NEW i \in DOMAIN table', NEW j \in DOMAIN table', i < j
                  PROVE  /\ table'[i].recorded_at <= table'[j].recorded_at
                         /\ table'[i].note < table'[j].note
      OBVIOUS
    <3>1. i \in DOMAIN table /\ table'[i] = table[i]
      BY <2>3, <2>r, <1>n
    <3>2. CASE j \in DOMAIN table
      BY <3>1, <3>2, <2>3 DEF Server
    <3>3. CASE j = Len(table) + 1
      BY <3>1, <3>3, <2>1, <2>3, <2>r DEF Server
    <3>. QED
      BY <3>2, <3>3, <2>r
  <2>6. \A i \in DOMAIN table', n \in DOMAIN notes :
            n > table'[i].note => table'[i].recorded_at <= notes[n].at
    <3>1. ~ \E n \in DOMAIN notes : n > accepted
      BY <2>1, <1>n
    <3>. QED
      BY <2>3, <2>r, <3>1 DEF Server
  <2>. QED
    BY <2>1, <2>3, <2>4, <2>5, <2>6 DEF Server
<1>4. CASE InsertFails
  BY <1>4 DEF InsertFails, Server, NoNote
<1>5. CASE DeleteChannel
  <2>1. table' = <<>> /\ clock' = clock /\ notes' = notes /\ accepted' = accepted
    BY <1>5 DEF DeleteChannel
  <2>2. <<>> \in Seq(Row) /\ DOMAIN <<>> = {}
    OBVIOUS
  <2>. QED
    BY <2>1, <2>2 DEF Server
<1>6. CASE UNCHANGED server
  BY <1>6 DEF Server, server
<1>. QED
  BY <1>1, <1>2, <1>3, <1>4, <1>5, <1>6, ServerSteps

-----------------------------------------------------------------------------
(* The link *)

\* Every step is one on the link or leaves it alone.
LEMMA LinkSteps ==
    ASSUME [Next]_vars
    PROVE  \/ \E v \in Values : Notify(v)
           \/ Join \/ Lose
           \/ Receive /\ UNCHANGED server
           \/ UNCHANGED <<notes, link, rendered>>
<1>1. ASSUME NEW v \in Reported, Notify(v) PROVE \E u \in Values : Notify(u)
  BY <1>1, ReportedValues
<1>2. ASSUME ReadingToFlag \/ ReadingToChart PROVE Receive /\ UNCHANGED server
  BY <1>2 DEF ReadingToFlag, ReadingToChart
<1>3. ASSUME FindFlag \/ get_flag_state \/ AnswerFlag \/ FlagFails \/ (\E w \in Windows : Click(w))
      PROVE  UNCHANGED <<notes, link, rendered>>
  BY <1>3 DEF FindFlag, get_flag_state, AnswerFlag, FlagFails, Click, server
<1>4. ASSUME NEW l \in loads, FindHistory(l) \/ ReadHistory(l) \/ AnswerChart(l) \/ ChartFails(l)
      PROVE  UNCHANGED <<notes, link, rendered>>
  BY <1>4 DEF FindHistory, ReadHistory, AnswerChart, ChartFails, server
<1>5. ASSUME Tick \/ Insert \/ InsertFails \/ DeleteChannel PROVE UNCHANGED <<notes, link, rendered>>
  BY <1>5 DEF Tick, Insert, InsertFails, DeleteChannel
<1>6. ASSUME UNCHANGED vars PROVE UNCHANGED <<notes, link, rendered>>
  BY <1>6 DEF vars, server
<1>. QED
  BY <1>1, <1>2, <1>3, <1>4, <1>5, <1>6 DEF Next

\* The push that comes next follows the last one rendered, or the join.
LEMMA PushComes ==
    ASSUME Server, Link, Receive
    PROVE  /\ rendered' = Edge + 1 /\ Head(wire) = Edge + 1 /\ Edge \in Nat
           /\ Edge + 1 <= Len(notes) /\ Len(notes) \in Nat
           /\ (rendered = Edge /\ joinedAt < Edge) \/ (rendered = 0 /\ joinedAt = Edge)
           /\ socket = "joined" /\ socket' = socket /\ joinedAt' = joinedAt /\ seen' = seen
           /\ wire' \in Seq(Nat) /\ Len(wire') = Len(wire) - 1 /\ Len(wire) \in Nat /\ Len(wire) >= 1
           /\ \A i \in 1..Len(wire') : wire'[i] = Edge + 1 + i
<1>1. wire # <<>> /\ wire \in Seq(Nat) /\ Len(wire) <= Len(notes) /\ Len(notes) \in Nat
  BY DEF Receive, Link, Server
<1>2. Len(wire) \in Nat /\ Len(wire) >= 1 /\ Head(wire) = wire[1] /\ 1 \in 1..Len(wire)
  BY <1>1
<1>3. Head(wire) = Edge + 1 /\ Edge \in Nat /\ Edge + 1 <= Len(notes)
  BY <1>1, <1>2 DEF Link, Edge
<1>4. socket = "joined"
  BY <1>1 DEF Link
<1>5. (rendered = Edge /\ joinedAt < Edge) \/ (rendered = 0 /\ joinedAt = Edge)
  BY <1>4 DEF Link
<1>6. rendered' = Edge + 1 /\ socket' = socket /\ joinedAt' = joinedAt /\ seen' = seen /\ wire' = Tail(wire)
  BY <1>3 DEF Receive
<1>7. wire' \in Seq(Nat) /\ Len(wire') = Len(wire) - 1 /\ \A i \in 1..Len(wire') : wire'[i] = wire[i + 1]
  BY <1>1, <1>6
<1>8. \A i \in 1..Len(wire') : wire'[i] = Edge + 1 + i
  <2>1. \A i \in 1..Len(wire') : i + 1 \in 1..Len(wire) /\ i \in Nat
    BY <1>2, <1>7
  <2>2. \A i \in 1..Len(wire) : wire[i] = Edge + i
    BY DEF Link
  <2>3. \A i \in 1..Len(wire') : wire'[i] = Edge + (i + 1)
    BY <1>7, <2>1, <2>2
  <2>. QED
    BY <2>1, <2>3, <1>3
<1>. QED
  BY <1>1, <1>2, <1>3, <1>4, <1>5, <1>6, <1>7, <1>8

LEMMA LinkStep == Server /\ Link /\ [Next]_vars => Link'
<1>. SUFFICES ASSUME Server, Link, [Next]_vars PROVE Link'
  OBVIOUS
<1>l. Link /\ Len(notes) \in Nat /\ Len(wire) \in Nat
  BY DEF Server, Link
<1>w. \A i \in 1..Len(wire) : wire[i] = Len(notes) - Len(wire) + i
  BY <1>l DEF Link, Edge
<1>. USE DEF Link, Edge
<1>1. ASSUME NEW v \in Values, Notify(v) PROVE Link'
  <2>1. /\ Len(notes') = Len(notes) + 1
        /\ wire' = IF socket = "joined" THEN Append(wire, Len(notes')) ELSE wire
        /\ socket' = socket /\ joinedAt' = joinedAt /\ rendered' = rendered
    BY <1>1, NotifyKeeps DEF Notify
  <2>2. CASE socket = "joined"
    <3>0. wire' = Append(wire, Len(notes) + 1) /\ Len(notes) + 1 \in Nat /\ wire \in Seq(Nat)
      BY <2>1, <2>2, <1>l
    <3>1. /\ wire' \in Seq(Nat) /\ Len(wire') = Len(wire) + 1
          /\ \A i \in 1..Len(wire) : wire'[i] = wire[i]
          /\ wire'[Len(wire) + 1] = Len(notes) + 1
      BY <3>0
    <3>2. Len(notes') - Len(wire') = Len(notes) - Len(wire)
      BY <2>1, <3>1, <1>l
    <3>3. ASSUME NEW i \in 1..Len(wire') PROVE wire'[i] = Len(notes) - Len(wire) + i
      <4>1. CASE i \in 1..Len(wire)
        BY <4>1, <3>1, <1>w
      <4>2. CASE i = Len(wire) + 1
        BY <4>2, <3>1, <1>l
      <4>. QED
        BY <4>1, <4>2, <3>1, <1>l
    <3>4. Edge' = Edge /\ \A i \in 1..Len(wire') : wire'[i] = Edge' + i
      BY <3>2, <3>3
    <3>5. Len(wire') <= Len(notes') /\ rendered <= Len(notes') /\ joinedAt <= Len(notes')
      BY <2>1, <3>1, <1>l
    <3>6. joinedAt \in Nat /\ rendered \in Nat /\ socket \in {"opening", "joined", "lost"}
      BY <1>l
    <3>7. (rendered = Edge /\ joinedAt < Edge) \/ (rendered = 0 /\ joinedAt = Edge)
      BY <1>l, <2>2
    <3>. QED
      BY ONLY <2>1, <2>2, <3>1, <3>4, <3>5, <3>6, <3>7 DEF Link
  <2>3. CASE socket # "joined"
    BY <2>1, <2>3, <1>l
  <2>. QED
    BY <2>2, <2>3
<1>2. CASE Join
  <2>1. /\ socket' = "joined" /\ joinedAt' = Len(notes) /\ wire' = <<>> /\ wire = <<>>
        /\ rendered' = 0 /\ notes' = notes
    BY <1>2, <1>l DEF Join, server
  <2>2. Len(<<>>) = 0 /\ <<>> \in Seq(Nat)
    OBVIOUS
  <2>. QED
    BY <2>1, <2>2, <1>l
<1>3. CASE Lose
  <2>1. /\ socket' = "lost" /\ joinedAt' = joinedAt /\ wire' = <<>>
        /\ rendered' = rendered /\ notes' = notes
    BY <1>3 DEF Lose, server
  <2>2. Len(<<>>) = 0 /\ <<>> \in Seq(Nat)
    OBVIOUS
  <2>. QED
    BY <2>1, <2>2, <1>l
<1>4. CASE Receive /\ UNCHANGED server
  <2>. DEFINE e == Edge
  <2>1. /\ rendered' = e + 1 /\ e \in Nat /\ e + 1 <= Len(notes)
        /\ (rendered = e /\ joinedAt < e) \/ (rendered = 0 /\ joinedAt = e)
        /\ socket = "joined" /\ socket' = socket /\ joinedAt' = joinedAt
        /\ wire' \in Seq(Nat) /\ Len(wire') = Len(wire) - 1 /\ Len(wire) >= 1
        /\ \A i \in 1..Len(wire') : wire'[i] = e + 1 + i
    BY <1>4, PushComes
  <2>2. notes' = notes
    BY <1>4 DEF server
  <2>3. Edge' = e + 1 /\ \A i \in 1..Len(wire') : wire'[i] = Edge' + i
    <3>1. Edge' = e + 1
      BY <2>1, <2>2, <1>l
    <3>. QED
      BY <2>1, <3>1
  <2>4. joinedAt \in Nat /\ joinedAt < e + 1 /\ joinedAt <= Len(notes)
    BY <2>1, <1>l
  <2>5. Len(wire') <= Len(notes')
    BY <2>1, <2>2, <1>l
  <2>. HIDE DEF e
  <2>. QED
    BY ONLY <2>1, <2>2, <2>3, <2>4, <2>5 DEF Link
<1>5. CASE UNCHANGED <<notes, link, rendered>>
  BY <1>5, <1>l DEF link
<1>. QED
  BY <1>1, <1>2, <1>3, <1>4, <1>5, LinkSteps

-----------------------------------------------------------------------------
(* The steps of a page with a flag *)

\* The steps of the chart are none of this page.
LEMMA FlagSteps ==
    ASSUME widget = "flag", loads = {}, [Next]_vars
    PROVE  /\ widget' = "flag" /\ loads' = {}
           /\ \/ Tick \/ Insert \/ InsertFails \/ DeleteChannel
              \/ \E v \in Values : Notify(v)
              \/ Join \/ Lose \/ ReadingToFlag \/ FindFlag \/ get_flag_state
              \/ AnswerFlag \/ FlagFails \/ UNCHANGED vars
<1>. USE DEF page, charts
<1>1. ASSUME NEW v \in Reported, Notify(v) PROVE v \in Values /\ widget' = "flag" /\ loads' = {}
  BY <1>1, ReportedValues DEF Notify
<1>2. ASSUME Tick \/ Insert \/ InsertFails \/ DeleteChannel PROVE widget' = "flag" /\ loads' = {}
  BY <1>2 DEF Tick, Insert, InsertFails, DeleteChannel
<1>3. ASSUME Join \/ Lose \/ ReadingToFlag \/ FindFlag \/ get_flag_state \/ AnswerFlag \/ FlagFails
      PROVE  widget' = "flag" /\ loads' = {}
  BY <1>3 DEF Join, Lose, ReadingToFlag, FindFlag, get_flag_state, AnswerFlag, FlagFails
<1>4. ~ReadingToChart /\ \A w \in Windows : ~Click(w)
  BY DEF ReadingToChart, Click
<1>5. ASSUME UNCHANGED vars PROVE widget' = "flag" /\ loads' = {}
  BY <1>5 DEF vars
<1>. QED
  BY <1>1, <1>2, <1>3, <1>4, <1>5 DEF Next

-----------------------------------------------------------------------------
(* The queries *)

\* In a table whose stamps do not go back the latest reading of a set has the largest id.
LEMMA LatestOfSet ==
    ASSUME NEW s \in Seq(Row), NEW ids \in SUBSET DOMAIN s, NEW m \in ids, \A i \in ids : i <= m,
           \A i, j \in DOMAIN s : i < j => s[i].recorded_at <= s[j].recorded_at
    PROVE  LatestOf(s, ids) = m
<1>1. DOMAIN s = 1..Len(s) /\ Len(s) \in Nat
  OBVIOUS
<1>2. \A i \in DOMAIN s : s[i].recorded_at \in Nat
  <2>1. \A i \in DOMAIN s : s[i] \in Row
    BY <1>1
  <2>. QED
    BY <2>1 DEF Row
<1>3. \A j \in ids \ {m} : Before(s, j, m)
  BY <1>1, <1>2 DEF Before
<1>4. ASSUME NEW i \in ids, \A j \in ids \ {i} : Before(s, j, i) PROVE i = m
  <2>1. CASE i # m
    <3>1. Before(s, m, i) /\ Before(s, i, m)
      BY <1>3, <1>4, <2>1
    <3>. QED
      BY <3>1, <1>1, <1>2, <2>1 DEF Before
  <2>. QED
    BY <2>1
<1>. QED
  BY <1>3, <1>4 DEF LatestOf

\* The latest reading is the last one.
LEMMA LatestNoteIs ==
    ASSUME Server
    PROVE  LatestNote = IF table = <<>> THEN NoNote ELSE table[Len(table)].note
<1>1. /\ table \in Seq(Row) /\ DOMAIN table = 1..Len(table) /\ Len(table) \in Nat
      /\ \A i, j \in DOMAIN table : i < j => table[i].recorded_at <= table[j].recorded_at
  BY NotesType DEF Server
<1>2. CASE table = <<>>
  BY <1>1, <1>2 DEF LatestNote, latest_by_channel, LatestOf, NoReading
<1>3. CASE table # <<>>
  <2>1. Len(table) \in DOMAIN table /\ \A i \in DOMAIN table : i <= Len(table)
    BY <1>1, <1>3
  <2>2. latest_by_channel(table) = Len(table)
    BY <1>1, <2>1, LatestOfSet DEF latest_by_channel
  <2>. QED
    BY <1>1, <1>3, <2>1, <2>2 DEF LatestNote, NoReading
<1>. QED
  BY <1>2, <1>3

\* The time of the last reading that was on is not earlier than the stamp of any of them.
LEMMA LastOnTimeIs ==
    ASSUME Server, LastOn
    PROVE  /\ LastOnTime \in Int
           /\ \A i \in OnIds : LastOnTime >= table[i].recorded_at
<1>1. /\ table \in Seq(Row) /\ DOMAIN table = 1..Len(table) /\ Len(table) \in Nat
      /\ \A i, j \in DOMAIN table : i < j => table[i].recorded_at <= table[j].recorded_at
      /\ \A i \in DOMAIN table : table[i].recorded_at \in Nat
      /\ OnIds \in SUBSET DOMAIN table
  BY NotesType DEF Server, OnIds
<1>2. latest_at_or_above(table, FlagOn) = LatestOf(table, OnIds)
  BY DEF latest_at_or_above, OnIds
<1>3. CASE OnIds = {}
  BY <1>2, <1>3 DEF LastOnTime, LatestOf, NoReading, NoTime
<1>4. CASE OnIds # {}
  <2>1. PICK m \in OnIds : \A i \in OnIds : i <= m
    BY <1>4 DEF LastOn
  <2>2. LatestOf(table, OnIds) = m
    BY <1>1, <2>1, LatestOfSet
  <2>3. LastOnTime = table[m].recorded_at /\ m \in DOMAIN table
    BY <1>1, <1>2, <2>1, <2>2 DEF LastOnTime, NoReading
  <2>4. \A i \in OnIds : table[i].recorded_at <= table[m].recorded_at
    BY <1>1, <2>1
  <2>. QED
    BY <1>1, <2>3, <2>4
<1>. QED
  BY <1>3, <1>4

LEMMA LastOnStep == FlagInv /\ [Next]_vars => LastOn'
<1>. SUFFICES ASSUME FlagInv, [Next]_vars PROVE LastOn'
  OBVIOUS
<1>n. /\ DOMAIN table = 1..Len(table) /\ Len(table) \in Nat /\ table \in Seq(Row)
      /\ \A i \in DOMAIN table : table[i].value \in Int
  BY NotesType DEF FlagInv, Server
<1>1. CASE Insert
  <2>1. accepted \in DOMAIN notes /\ notes[accepted].value \in Int
    BY <1>1, NotesType DEF FlagInv, Server, Insert, NoNote
  <2> DEFINE row == [value |-> notes[accepted].value, recorded_at |-> clock, note |-> accepted]
  <2>2. table' = Append(table, row) /\ row.value \in Int
    BY <1>1, <2>1 DEF Insert
  <2>. HIDE DEF row
  <2>3. /\ DOMAIN table' = 1..Len(table) + 1
        /\ \A i \in DOMAIN table : table'[i] = table[i]
        /\ table'[Len(table) + 1] = row
    BY <2>2, <1>n
  <2>4. CASE row.value >= FlagOn
    <3>1. Len(table) + 1 \in OnIds'
      BY <2>3, <2>4, <1>n DEF OnIds
    <3>2. \A i \in OnIds' : i <= Len(table) + 1
      BY <2>3, <1>n DEF OnIds
    <3>. QED
      BY <3>1, <3>2 DEF LastOn
  <2>5. CASE ~(row.value >= FlagOn)
    <3>1. OnIds' = OnIds
      BY <2>3, <2>5, <1>n DEF OnIds
    <3>. QED
      BY <3>1 DEF LastOn, FlagInv
  <2>. QED
    BY <2>4, <2>5
<1>2. CASE DeleteChannel
  <2>1. table' = <<>>
    BY <1>2 DEF DeleteChannel
  <2>2. OnIds' = {}
    BY <2>1 DEF OnIds
  <2>. QED
    BY <2>2 DEF LastOn
<1>3. ASSUME \/ Tick \/ InsertFails \/ (\E v \in Values : Notify(v)) \/ Join \/ Lose
             \/ ReadingToFlag \/ FindFlag \/ get_flag_state \/ AnswerFlag \/ FlagFails
             \/ UNCHANGED vars
      PROVE  LastOn'
  <2>1. table' = table
    BY <1>3 DEF Tick, InsertFails, Notify, Join, Lose, ReadingToFlag, FindFlag, get_flag_state,
                AnswerFlag, FlagFails, vars, server
  <2>. QED
    BY <2>1 DEF LastOn, OnIds, FlagInv
<1>. QED
  BY <1>1, <1>2, <1>3, FlagSteps DEF FlagInv

-----------------------------------------------------------------------------
(* What the flag shows *)

LEMMA NextPush ==
    ASSUME Server, Link, ReadingToFlag
    PROVE  /\ rendered' = Edge + 1 /\ Edge \in Nat /\ Edge + 1 <= Len(notes) /\ Len(notes) \in Nat
           /\ (rendered = Edge /\ joinedAt < Edge) \/ (rendered = 0 /\ joinedAt = Edge)
           /\ notes' = notes /\ seen' = seen /\ state' = state /\ exists' = exists
           /\ flag' = [note   |-> Edge + 1,
                       on     |-> IsOn(Edge + 1),
                       lastOn |-> IF IsOn(Edge + 1) THEN notes[Edge + 1].at ELSE flag.lastOn]
           /\ toasts' = IF IsOn(Edge + 1) /\ ~flag.on THEN toasts \cup {Edge + 1} ELSE toasts
<1>1. Receive /\ notes' = notes /\ state' = state /\ exists' = exists
  BY DEF ReadingToFlag, server
<1>2. /\ rendered' = Edge + 1 /\ Head(wire) = Edge + 1 /\ Edge \in Nat
      /\ Edge + 1 <= Len(notes) /\ Len(notes) \in Nat /\ seen' = seen
      /\ (rendered = Edge /\ joinedAt < Edge) \/ (rendered = 0 /\ joinedAt = Edge)
  BY <1>1, PushComes
<1>3. /\ flag' = [note   |-> Edge + 1,
                  on     |-> IsOn(Edge + 1),
                  lastOn |-> IF IsOn(Edge + 1) THEN notes[Edge + 1].at ELSE flag.lastOn]
      /\ toasts' = IF IsOn(Edge + 1) /\ ~flag.on THEN toasts \cup {Edge + 1} ELSE toasts
  BY <1>2 DEF ReadingToFlag
<1>. QED
  BY <1>1, <1>2, <1>3

LEMMA IsOnType == \A n : IsOn(n) \in BOOLEAN
  BY DEF IsOn

LEMMA LatestNoteType == ASSUME Server PROVE LatestNote \in Nat /\ LatestNote <= Len(notes)
<1>1. CASE table = <<>>
  BY <1>1, LatestNoteIs, NotesType DEF NoNote
<1>2. CASE table # <<>>
  <2>1. Len(table) \in DOMAIN table
    BY <1>2, NotesType DEF Server
  <2>2. table[Len(table)].note \in DOMAIN notes
    BY <2>1 DEF Server
  <2>. QED
    BY <1>2, <2>2, LatestNoteIs, NotesType
<1>. QED
  BY <1>1, <1>2

LEMMA ShownStep == FlagInv /\ [Next]_vars => Shown'
<1>. SUFFICES ASSUME FlagInv, [Next]_vars PROVE Shown'
  OBVIOUS
<1>s. /\ Server /\ Link /\ Shown /\ LastOn
      /\ rendered \in Nat /\ rendered <= Len(notes) /\ Len(notes) \in Nat
  BY DEF FlagInv, Link, Server
<1>1. ASSUME NEW v \in Values, Notify(v) PROVE Shown'
  <2>1. UNCHANGED <<flag, state, rendered, seen>>
    BY <1>1 DEF Notify, flags
  <2>2. Len(notes') = Len(notes) + 1 /\ \A n \in 0..Len(notes) : IsOn(n)' = IsOn(n)
    BY <1>1, <1>s, NotifyKeeps
  <2>3. flag.note \in 0..Len(notes)
    BY <1>s DEF Shown
  <2>4. IsOn(flag.note)' = IsOn(flag.note)
    BY <2>1, <2>2, <2>3 DEF IsOn
  <2>. QED
    BY <2>1, <2>2, <2>4, <1>s DEF Shown
<1>2. CASE ReadingToFlag
  <2>1. /\ rendered' = Edge + 1 /\ Edge \in Nat /\ Edge + 1 <= Len(notes)
        /\ notes' = notes /\ seen' = seen /\ state' = state
        /\ flag' = [note   |-> Edge + 1,
                    on     |-> IsOn(Edge + 1),
                    lastOn |-> IF IsOn(Edge + 1) THEN notes[Edge + 1].at ELSE flag.lastOn]
    BY <1>2, <1>s, NextPush
  <2>2. rendered <= Edge
    BY <1>2, <1>s, NextPush
  <2>3. flag'.note = rendered' /\ flag'.on = IsOn(Edge + 1)
    BY <2>1
  <2>4. IsOn(flag.note)' = IsOn(Edge + 1)
    BY <2>1, <2>3 DEF IsOn
  <2>5. flag' \in [note : Nat, on : BOOLEAN, lastOn : Int]
    <3>1. IsOn(Edge + 1) => notes[Edge + 1].at \in Int
      BY <2>1, <1>s, NotesType
    <3>2. flag.lastOn \in Int
      BY <1>s DEF Shown
    <3>. QED
      BY <2>1, <3>1, <3>2, IsOnType
  <2>6. seen' < rendered' /\ seen' \in Nat /\ seen' <= rendered'
    BY <2>1, <2>2, <1>s DEF Shown
  <2>. QED
    BY <2>1, <2>3, <2>4, <2>5, <2>6, <1>s DEF Shown
<1>3. CASE FindFlag
  <2>1. /\ state' = [state EXCEPT !.step = "found"] /\ state.step = "sent"
        /\ UNCHANGED <<notes, flag, rendered, seen>>
    BY <1>3 DEF FindFlag, server
  <2>2. state'.step = "found" /\ state'.note = state.note /\ state' \in [step : Steps, note : Nat, lastOn : Int]
    BY <2>1, <1>s DEF Shown, Steps
  <2>3. IsOn(flag.note)' = IsOn(flag.note)
    BY <2>1 DEF IsOn
  <2>. QED
    BY <2>1, <2>2, <2>3, <1>s DEF Shown
<1>4. CASE get_flag_state
  <2>1. UNCHANGED <<notes, flag, rendered, seen>> /\ state.step \in {"found", "latest"}
    BY <1>4 DEF get_flag_state, server
  <2>2. state'.step # "done" /\ state'.note \in Nat /\ state'.note <= Len(notes)
        /\ state' \in [step : Steps, note : Nat, lastOn : Int]
    BY <1>4, <1>s, LatestNoteType, LastOnTimeIs DEF get_flag_state, Shown, Steps
  <2>3. IsOn(flag.note)' = IsOn(flag.note)
    BY <2>1 DEF IsOn
  <2>. QED
    BY <2>1, <2>2, <2>3, <1>s DEF Shown
<1>5. CASE AnswerFlag
  <2>1. /\ state' = [state EXCEPT !.step = "done"] /\ state.step = "answered"
        /\ flag' = [note |-> state.note, on |-> IsOn(state.note), lastOn |-> state.lastOn]
        /\ seen' = rendered /\ rendered' = rendered /\ notes' = notes
    BY <1>5 DEF AnswerFlag, server
  <2>2. state'.step = "done" /\ state'.note = state.note
        /\ state' \in [step : Steps, note : Nat, lastOn : Int]
    BY <2>1, <1>s DEF Shown, Steps
  <2>3. flag' \in [note : Nat, on : BOOLEAN, lastOn : Int] /\ flag'.note = state.note
        /\ flag'.on = IsOn(state.note)
    BY <2>1, <1>s, IsOnType DEF Shown
  <2>4. IsOn(flag.note)' = IsOn(state.note)
    BY <2>1, <2>3 DEF IsOn
  <2>. QED
    BY <2>1, <2>2, <2>3, <2>4, <1>s DEF Shown
<1>6. CASE FlagFails
  <2>1. /\ state' = [state EXCEPT !.step = "failed"] /\ state.step # "done"
        /\ UNCHANGED <<notes, flag, rendered, seen>>
    BY <1>6 DEF FlagFails, server
  <2>2. state'.step = "failed" /\ state'.note = state.note /\ state' \in [step : Steps, note : Nat, lastOn : Int]
    BY <2>1, <1>s DEF Shown, Steps
  <2>3. IsOn(flag.note)' = IsOn(flag.note)
    BY <2>1 DEF IsOn
  <2>. QED
    BY <2>1, <2>2, <2>3, <1>s DEF Shown
<1>7. ASSUME \/ Tick \/ Insert \/ InsertFails \/ DeleteChannel \/ Join \/ Lose \/ UNCHANGED vars
      PROVE  Shown'
  <2>1. UNCHANGED <<notes, flag, state, rendered, seen>>
    BY <1>7 DEF Tick, Insert, InsertFails, DeleteChannel, Join, Lose, vars, server, flags
  <2>2. IsOn(flag.note)' = IsOn(flag.note)
    BY <2>1 DEF IsOn
  <2>. QED
    BY <2>1, <2>2, <1>s DEF Shown
<1>. QED
  BY <1>1, <1>2, <1>3, <1>4, <1>5, <1>6, <1>7, FlagSteps DEF FlagInv

-----------------------------------------------------------------------------
(* The time that goes with it *)

LEMMA TimesStep == FlagInv /\ [Next]_vars => Times'
<1>. SUFFICES ASSUME FlagInv, [Next]_vars PROVE Times'
  OBVIOUS
<1>s. /\ Server /\ Link /\ Shown /\ LastOn /\ Times
      /\ rendered \in Nat /\ rendered <= Len(notes) /\ Len(notes) \in Nat
  BY DEF FlagInv, Link, Server
<1>f. flag.note \in 0..Len(notes) /\ state.note \in 0..Len(notes)
  BY <1>s DEF Shown
<1>n. DOMAIN notes = 1..Len(notes)
  BY <1>s, NotesType
<1>1. ASSUME NEW v \in Values, Notify(v) PROVE Times'
  <2>1. UNCHANGED <<exists, table, flag, state>>
    BY <1>1 DEF Notify, flags
  <2>2. /\ \A n \in 0..Len(notes) : IsOn(n)' = IsOn(n)
        /\ \A n \in DOMAIN notes : notes'[n] = notes[n]
    BY <1>1, <1>s, NotifyKeeps
  <2>3. IsOn(flag.note)' = IsOn(flag.note) /\ IsOn(state.note)' = IsOn(state.note)
    BY <2>1, <2>2, <1>f DEF IsOn
  <2>4. /\ IsOn(flag.note) => notes'[flag.note] = notes[flag.note]
        /\ IsOn(state.note) => notes'[state.note] = notes[state.note]
    BY <2>2, <1>f, <1>n DEF IsOn, NoNote
  <2>. QED
    BY <2>1, <2>3, <2>4, <1>s DEF Times
<1>2. CASE Insert
  <2>1. UNCHANGED <<exists, notes, flag, state>>
    BY <1>2 DEF Insert, flags
  <2>2. PICK row : table' = Append(table, row)
    BY <1>2 DEF Insert
  <2>3. \A i \in DOMAIN table : i \in DOMAIN table' /\ table'[i] = table[i]
    <3>1. table \in Seq(Row) /\ DOMAIN table = 1..Len(table) /\ Len(table) \in Nat
      BY <1>s, NotesType DEF Server
    <3>. QED
      BY <2>2, <3>1
  <2>4. IsOn(flag.note)' = IsOn(flag.note) /\ IsOn(state.note)' = IsOn(state.note)
    BY <2>1 DEF IsOn
  <2>. QED
    BY <2>1, <2>3, <2>4, <1>s DEF Times
<1>3. CASE DeleteChannel
  BY <1>3 DEF DeleteChannel, Times
<1>4. CASE ReadingToFlag
  <2>1. /\ notes' = notes /\ state' = state /\ exists' = exists /\ table' = table
        /\ flag' = [note   |-> Edge + 1,
                    on     |-> IsOn(Edge + 1),
                    lastOn |-> IF IsOn(Edge + 1) THEN notes[Edge + 1].at ELSE flag.lastOn]
        /\ Edge + 1 \in DOMAIN notes
    BY <1>4, <1>s, <1>n, NextPush DEF ReadingToFlag, server
  <2>2. IsOn(flag.note)' = IsOn(Edge + 1) /\ IsOn(state.note)' = IsOn(state.note)
    BY <2>1 DEF IsOn
  <2>3. notes[Edge + 1].at \in Nat
    BY <2>1, <1>s, NotesType
  <2>. QED
    BY <2>1, <2>2, <2>3, <1>s DEF Times
<1>5. CASE get_flag_state
  <2>1. UNCHANGED <<exists, notes, table, flag>>
    BY <1>5 DEF get_flag_state, server
  <2>2. IsOn(flag.note)' = IsOn(flag.note)
    BY <2>1 DEF IsOn
  <2>3. CASE state' = [state EXCEPT !.step = "latest", !.note = LatestNote]
    <3>1. state'.step = "latest" /\ state'.note = LatestNote
      BY <2>3, <1>s DEF Shown
    <3>2. IsOn(state.note)' => table # <<>> /\ LatestNote = table[Len(table)].note
      BY <2>1, <3>1, <1>s, LatestNoteIs DEF IsOn
    <3>3. table # <<>> => Len(table) \in DOMAIN table
      BY <1>s, NotesType DEF Server
    <3>. QED
      BY <2>1, <2>2, <3>1, <3>2, <3>3, <1>s DEF Times
  <2>4. CASE state.step = "latest" /\ state' = [state EXCEPT !.step = "answered", !.lastOn = LastOnTime]
    <3>1. state'.step = "answered" /\ state'.note = state.note /\ state'.lastOn = LastOnTime
      BY <2>4, <1>s DEF Shown
    <3>2. IsOn(state.note)' = IsOn(state.note)
      BY <2>1, <3>1 DEF IsOn
    <3>3. ASSUME exists, IsOn(state.note) PROVE LastOnTime >= notes[state.note].at
      <4>1. PICK i \in DOMAIN table : table[i].note = state.note
        BY <3>3, <2>4, <1>s DEF Times
      <4>2. i \in OnIds
        BY <4>1, <3>3, <1>s DEF OnIds, Server, IsOn
      <4>3. LastOnTime >= table[i].recorded_at /\ LastOnTime \in Int
        BY <4>2, <1>s, LastOnTimeIs
      <4>4. notes[state.note].at <= table[i].recorded_at /\ state.note \in DOMAIN notes
        BY <4>1, <1>s DEF Server
      <4>5. table[i].recorded_at \in Nat /\ notes[state.note].at \in Nat
        BY <4>1, <4>4, <1>s, NotesType
      <4>. QED
        BY <4>3, <4>4, <4>5
    <3>. QED
      BY <2>1, <2>2, <3>1, <3>2, <3>3, <1>s DEF Times
  <2>. QED
    BY <1>5, <2>3, <2>4 DEF get_flag_state
<1>6. CASE AnswerFlag
  <2>1. /\ state' = [state EXCEPT !.step = "done"] /\ state.step = "answered"
        /\ flag' = [note |-> state.note, on |-> IsOn(state.note), lastOn |-> state.lastOn]
        /\ UNCHANGED <<exists, notes, table>>
    BY <1>6 DEF AnswerFlag, server
  <2>2. state'.step = "done" /\ flag'.note = state.note /\ flag'.lastOn = state.lastOn
    BY <2>1, <1>s DEF Shown
  <2>3. IsOn(flag.note)' = IsOn(state.note)
    BY <2>1, <2>2 DEF IsOn
  <2>. QED
    BY <2>1, <2>2, <2>3, <1>s DEF Times
<1>7. ASSUME FindFlag \/ FlagFails PROVE Times'
  <2>1. UNCHANGED <<exists, notes, table, flag>>
    BY <1>7 DEF FindFlag, FlagFails, server
  <2>2. state'.step \in {"found", "failed"}
    BY <1>7, <1>s DEF FindFlag, FlagFails, Shown
  <2>3. IsOn(flag.note)' = IsOn(flag.note)
    BY <2>1 DEF IsOn
  <2>. QED
    BY <2>1, <2>2, <2>3, <1>s DEF Times
<1>8. ASSUME Tick \/ InsertFails \/ Join \/ Lose \/ UNCHANGED vars PROVE Times'
  <2>1. UNCHANGED <<exists, notes, table, flag, state>>
    BY <1>8 DEF Tick, InsertFails, Join, Lose, vars, server, flags
  <2>2. IsOn(flag.note)' = IsOn(flag.note) /\ IsOn(state.note)' = IsOn(state.note)
    BY <2>1 DEF IsOn
  <2>. QED
    BY <2>1, <2>2, <1>s DEF Times
<1>. QED
  BY <1>1, <1>2, <1>3, <1>4, <1>5, <1>6, <1>7, <1>8, FlagSteps DEF FlagInv

-----------------------------------------------------------------------------
(* Its toasts *)

Popped == {n \in toasts : n > state.note}
Rises == {n \in state.note + 1..rendered : IsOn(n) /\ ~IsOn(n - 1)}

LEMMA ToastsStep == FlagInv /\ [Next]_vars => Toasts'
<1>. SUFFICES ASSUME FlagInv, [Next]_vars PROVE Toasts'
  OBVIOUS
<1>s. /\ Server /\ Link /\ Shown /\ Toasts
      /\ rendered \in Nat /\ rendered <= Len(notes) /\ Len(notes) \in Nat
      /\ state.note \in Nat /\ state.note <= Len(notes)
      /\ seen \in Nat /\ seen <= rendered
  BY DEF FlagInv, Link, Server, Shown
<1>1. ASSUME NEW v \in Values, Notify(v) PROVE Toasts'
  <2>1. UNCHANGED <<toasts, state, rendered, seen, joinedAt>>
    BY <1>1 DEF Notify, flags
  <2>2. \A n \in 0..Len(notes) : IsOn(n)' = IsOn(n)
    BY <1>1, <1>s, NotifyKeeps
  <2>3. \A n \in state.note + 1..rendered : n \in 0..Len(notes) /\ n - 1 \in 0..Len(notes)
    BY <1>s
  <2>4. Rises' = Rises /\ Popped' = Popped
    BY <2>1, <2>2, <2>3 DEF Rises, Popped
  <2>. QED
    BY <2>1, <2>4, <1>s DEF Toasts, InStep, Rises, Popped
<1>2. CASE ReadingToFlag
  <2> DEFINE n == Edge + 1
  <2>1. /\ rendered' = n /\ Edge \in Nat /\ n <= Len(notes)
        /\ (rendered = Edge /\ joinedAt < Edge) \/ (rendered = 0 /\ joinedAt = Edge)
        /\ notes' = notes /\ seen' = seen /\ state' = state
        /\ toasts' = IF IsOn(n) /\ ~flag.on THEN toasts \cup {n} ELSE toasts
    BY <1>2, <1>s, NextPush
  <2>2. joinedAt' = joinedAt /\ \A k : IsOn(k)' = IsOn(k)
    BY <1>2, <2>1 DEF ReadingToFlag, Receive, IsOn
  <2>3. toasts' \subseteq 1..n /\ toasts \subseteq 1..rendered /\ rendered <= Edge
    BY <2>1, <1>s DEF Toasts
  <2>4. ASSUME InStep PROVE Popped' = Rises'
    <3>1. Popped = Rises
      BY <2>4, <1>s DEF Toasts, Popped, Rises
    <3>2. /\ state.step = "done" /\ joinedAt <= state.note /\ seen <= state.note
          /\ flag.note = IF rendered > seen THEN rendered ELSE state.note
          /\ flag.on = IsOn(flag.note)
      BY <2>4, <1>s DEF InStep, Shown
    <3>3. CASE n <= state.note
      <4>1. Rises' = {}
        <5>1. \A k : k \notin state'.note + 1..rendered'
          BY <2>1, <3>3, <1>s
        <5>. QED
          BY <5>1 DEF Rises
      <4>2. Popped' = {}
        <5>1. \A k \in toasts' : ~(k > state'.note)
          BY <2>1, <2>3, <3>3, <1>s
        <5>. QED
          BY <5>1 DEF Popped
      <4>. QED
        BY <4>1, <4>2
    <3>4. CASE n > state.note
      <4>1. flag.note = n - 1 /\ n - 1 = Edge
        BY <2>1, <3>2, <3>4, <1>s
      <4>2. rendered = n - 1 \/ (rendered = 0 /\ state.note = n - 1)
        BY <2>1, <3>2, <3>4, <1>s
      <4>3. Rises' = IF IsOn(n) /\ ~IsOn(n - 1) THEN Rises \cup {n} ELSE Rises
        <5>1. Rises' = {k \in state.note + 1..n : IsOn(k) /\ ~IsOn(k - 1)}
          BY <2>1, <2>2 DEF Rises
        <5>2. \A k : k \in state.note + 1..n <=> k \in state.note + 1..rendered \/ k = n
          BY <2>1, <4>2, <3>4, <1>s
        <5>. HIDE DEF n
        <5>. QED
          BY <5>1, <5>2 DEF Rises
      <4>4. Popped' = IF IsOn(n) /\ ~IsOn(n - 1) THEN Popped \cup {n} ELSE Popped
        <5>1. flag.on = IsOn(n - 1)
          BY <4>1, <3>2
        <5>. HIDE DEF n
        <5>. QED
          BY <2>1, <3>4, <5>1 DEF Popped
      <4>. QED
        BY <3>1, <4>3, <4>4
    <3>. QED
      BY <3>3, <3>4, <2>1, <1>s
  <2>5. InStep' => InStep
    BY <2>1, <2>2 DEF InStep
  <2>. QED
    BY <2>1, <2>3, <2>4, <2>5 DEF Toasts, Popped, Rises
<1>3. CASE AnswerFlag
  <2>1. /\ state' = [state EXCEPT !.step = "done"]
        /\ seen' = rendered /\ rendered' = rendered /\ toasts' = toasts
    BY <1>3 DEF AnswerFlag
  <2>2. state'.note = state.note
    BY <2>1, <1>s DEF Shown
  <2>3. ASSUME InStep' PROVE Popped' = {} /\ Rises' = {}
    <3>1. rendered <= state.note /\ toasts \subseteq 1..rendered
      BY <2>1, <2>2, <2>3, <1>s DEF InStep, Toasts
    <3>. QED
      BY <2>1, <2>2, <3>1, <1>s DEF Popped, Rises
  <2>. QED
    BY <2>1, <2>3, <1>s DEF Toasts, Popped, Rises
<1>4. ASSUME FindFlag \/ get_flag_state \/ FlagFails PROVE Toasts'
  <2>1. UNCHANGED <<toasts, rendered>> /\ state'.step # "done"
    BY <1>4, <1>s DEF FindFlag, get_flag_state, FlagFails, Shown
  <2>. QED
    BY <2>1, <1>s DEF Toasts, InStep
<1>5. CASE Join
  <2>1. UNCHANGED <<notes, toasts, state, rendered, seen>> /\ joinedAt' = Len(notes) /\ rendered = 0
    BY <1>5, <1>s DEF Join, server, flags, Link
  <2>2. toasts' = {} /\ \A k : k \notin state'.note + 1..rendered'
    BY <2>1, <1>s DEF Toasts
  <2>3. Popped' = {} /\ Rises' = {}
    BY <2>2 DEF Popped, Rises
  <2>. QED
    BY <2>1, <2>2, <2>3, <1>s DEF Toasts, Popped, Rises
<1>6. ASSUME Tick \/ Insert \/ InsertFails \/ DeleteChannel \/ Lose \/ UNCHANGED vars PROVE Toasts'
  <2>1. UNCHANGED <<notes, toasts, state, rendered, seen, joinedAt>>
    BY <1>6 DEF Tick, Insert, InsertFails, DeleteChannel, Lose, vars, server, flags, link
  <2>2. Popped' = Popped /\ Rises' = Rises
    BY <2>1 DEF Popped, Rises, IsOn
  <2>. QED
    BY <2>1, <2>2, <1>s DEF Toasts, InStep, Popped, Rises
<1>. QED
  BY <1>1, <1>2, <1>3, <1>4, <1>5, <1>6, FlagSteps DEF FlagInv

-----------------------------------------------------------------------------
(* The theorems *)

LEMMA FlagInit == Init /\ widget = "flag" => FlagInv
<1>. SUFFICES ASSUME Init, widget = "flag" PROVE FlagInv
  OBVIOUS
<1>0. <<>> \in Seq(Note) /\ <<>> \in Seq(Row) /\ <<>> \in Seq(Nat) /\ Len(<<>>) = 0 /\ DOMAIN <<>> = {}
  OBVIOUS
<1>1. Server
  BY <1>0 DEF Init, Server
<1>2. LastOn
  BY <1>0 DEF Init, LastOn, OnIds
<1>3. Link
  BY <1>0 DEF Init, Link, Edge
<1>4. ~IsOn(NoNote)
  BY DEF IsOn
<1>5. Shown
  <2>1. /\ flag = [note |-> 0, on |-> FALSE, lastOn |-> -1]
        /\ state = [step |-> "sent", note |-> 0, lastOn |-> -1]
        /\ rendered = 0 /\ seen = 0 /\ Len(notes) = 0
    BY <1>0 DEF Init, NoNote, NoTime
  <2>2. "sent" \in Steps
    BY DEF Steps
  <2>3. flag.on = IsOn(flag.note)
    BY <2>1 DEF IsOn, NoNote
  <2>4. state \in [step : Steps, note : Nat, lastOn : Int]
    BY <2>1, <2>2
  <2>5. flag \in [note : Nat, on : BOOLEAN, lastOn : Int]
    BY <2>1
  <2>6. /\ seen \in Nat /\ seen <= rendered /\ state.note \in Nat /\ state.note <= Len(notes)
        /\ state.step # "done" /\ seen = 0 /\ flag.note = rendered
    BY <2>1
  <2>. QED
    BY <2>3, <2>4, <2>5, <2>6 DEF Shown
<1>6. Times
  BY <1>4 DEF Init, Times
<1>7. Toasts
  BY DEF Init, Toasts, InStep
<1>8. loads = {}
  BY DEF Init
<1>. QED
  BY <1>1, <1>2, <1>3, <1>5, <1>6, <1>7, <1>8 DEF FlagInv

LEMMA FlagStep == FlagInv /\ [Next]_vars => FlagInv'
<1>. SUFFICES ASSUME FlagInv, [Next]_vars PROVE FlagInv'
  OBVIOUS
<1>1. widget' = "flag" /\ loads' = {}
  BY FlagSteps DEF FlagInv
<1>. QED
  BY <1>1, ServerStep, LastOnStep, LinkStep, ShownStep, TimesStep, ToastsStep DEF FlagInv

LEMMA FlagHolds == FlagInv => FlagCurrent /\ ToastsAreRises /\ OnHasTime
<1>. SUFFICES ASSUME FlagInv PROVE FlagCurrent /\ ToastsAreRises /\ OnHasTime
  OBVIOUS
<1>s. /\ Link /\ Shown /\ Times /\ Toasts /\ Len(notes) \in Nat
  BY DEF FlagInv, Server
<1>1. ToastsAreRises
  BY <1>s DEF Toasts, ToastsAreRises
<1>2. OnHasTime
  BY <1>s DEF Times, Shown, OnHasTime
<1>3. ASSUME socket = "joined", wire = <<>>, InStep \/ rendered > seen
      PROVE  flag.note = Len(notes) /\ flag.on = IsOn(flag.note)
  <2>1. Edge = Len(notes)
    BY <1>3, <1>s DEF Edge
  <2>2. (rendered = Len(notes) /\ joinedAt < Len(notes)) \/ (rendered = 0 /\ joinedAt = Len(notes))
    BY <1>3, <1>s, <2>1 DEF Link
  <2>3. /\ rendered \in Nat /\ seen \in Nat /\ seen <= rendered
        /\ state.note \in Nat /\ state.note <= Len(notes) /\ joinedAt \in Nat
    BY <1>s DEF Link, Shown
  <2>4. CASE rendered > seen
    BY <2>2, <2>3, <2>4, <1>s DEF Shown
  <2>5. CASE InStep /\ ~(rendered > seen)
    <3>1. state.step = "done" /\ joinedAt <= state.note /\ seen <= state.note /\ seen = rendered
      BY <2>3, <2>5 DEF InStep
    <3>2. flag.note = state.note
      BY <2>5, <3>1, <1>s DEF Shown
    <3>3. state.note = Len(notes)
      BY <2>2, <2>3, <3>1
    <3>. QED
      BY <3>2, <3>3, <1>s DEF Shown
  <2>. QED
    BY <1>3, <2>4, <2>5
<1>. QED
  BY <1>1, <1>2, <1>3 DEF FlagCurrent

\* A page without a flag never asks for its state, and shows none.
Blank ==
    /\ widget = "chart" /\ toasts = {}
    /\ flag = [note |-> NoNote, on |-> FALSE, lastOn |-> NoTime]
    /\ state = [step |-> "sent", note |-> NoNote, lastOn |-> NoTime]

LEMMA BlankStep == Blank /\ [Next]_vars => Blank'
<1>. SUFFICES ASSUME Blank, [Next]_vars PROVE UNCHANGED <<widget, flag, state, toasts>>
  BY DEF Blank
<1>. USE DEF page, flags
<1>1. ASSUME NEW v \in Reported, Notify(v) PROVE UNCHANGED <<widget, flag, state, toasts>>
  BY <1>1 DEF Notify
<1>2. ASSUME NEW w \in Windows, Click(w) PROVE UNCHANGED <<widget, flag, state, toasts>>
  BY <1>2 DEF Click
<1>3. ASSUME NEW l \in loads, FindHistory(l) \/ ReadHistory(l) \/ AnswerChart(l) \/ ChartFails(l)
      PROVE  UNCHANGED <<widget, flag, state, toasts>>
  BY <1>3 DEF FindHistory, ReadHistory, AnswerChart, ChartFails
<1>4. ~ReadingToFlag /\ ~FindFlag /\ ~get_flag_state /\ ~AnswerFlag /\ ~FlagFails
  BY DEF Blank, ReadingToFlag, FindFlag, get_flag_state, AnswerFlag, FlagFails
<1>5. ASSUME Tick \/ Insert \/ InsertFails \/ DeleteChannel PROVE UNCHANGED <<widget, flag, state, toasts>>
  BY <1>5 DEF Tick, Insert, InsertFails, DeleteChannel
<1>6. ASSUME Join \/ Lose \/ ReadingToChart \/ UNCHANGED vars PROVE UNCHANGED <<widget, flag, state, toasts>>
  BY <1>6 DEF Join, Lose, ReadingToChart, vars
<1>. QED
  BY <1>1, <1>2, <1>3, <1>4, <1>5, <1>6 DEF Next

LEMMA BlankHolds == Blank => FlagCurrent /\ ToastsAreRises /\ OnHasTime
  BY DEF Blank, FlagCurrent, ToastsAreRises, OnHasTime

LEMMA PageInit == Init => FlagInv \/ Blank
<1>1. Init /\ widget # "flag" => Blank
  BY DEF Init, Blank
<1>. QED
  BY <1>1, FlagInit

LEMMA PageHolds == Spec => [](FlagInv \/ Blank)
<1>1. (FlagInv \/ Blank) /\ [Next]_vars => (FlagInv \/ Blank)'
  BY FlagStep, BlankStep
<1>. QED
  BY PageInit, <1>1, PTL DEF Spec

\* The LED shows the last notification once nothing is on the wire, on every page that is
\* in step or has rendered a push since the answer.
THEOREM LedCorrect == Spec => []FlagCurrent
<1>1. FlagInv \/ Blank => FlagCurrent
  BY FlagHolds, BlankHolds
<1>. QED
  BY PageHolds, <1>1, PTL

\* On a page that was in step when the answer came, every rise after it pops one toast,
\* and nothing else does.
THEOREM ToastsCorrect == Spec => []ToastsAreRises
<1>1. FlagInv \/ Blank => ToastsAreRises
  BY FlagHolds, BlankHolds
<1>. QED
  BY PageHolds, <1>1, PTL

\* A flag shown on has the time of that reading or of a later one.
THEOREM TimesCorrect == Spec => []OnHasTime
<1>1. FlagInv \/ Blank => OnHasTime
  BY FlagHolds, BlankHolds
<1>. QED
  BY PageHolds, <1>1, PTL

-----------------------------------------------------------------------------
(* The points of a history *)

\* A set of numbers that is not empty has a least one.
LEMMA MinOf ==
    ASSUME NEW S, S \subseteq Nat, S # {}
    PROVE  Min(S) \in S /\ \A x \in S : Min(S) <= x
<1>1. PICK m \in S : \A y \in S : <<y, m>> \notin OpToRel(<, Nat)
  BY NatLessThanWellFounded, WFMin
<1>2. \A y \in S : m <= y
  <2>1. \A y \in S : ~(y < m)
    BY <1>1 DEF OpToRel
  <2>. QED
    BY <2>1
<1>. QED
  BY <1>2 DEF Min

\* A bounded one has a greatest.
LEMMA MaxOf ==
    ASSUME NEW S, S \subseteq Nat, S # {}, NEW c \in Nat, \A x \in S : x <= c
    PROVE  Max(S) \in S /\ \A x \in S : x <= Max(S)
<1>. DEFINE T == {c - x : x \in S}
<1>1. T \subseteq Nat /\ T # {}
  <2>1. \A x \in S : c - x \in Nat
    OBVIOUS
  <2>. QED
    BY <2>1
<1>2. PICK m \in T : \A y \in T : m <= y
  BY <1>1, MinOf
<1>3. PICK x \in S : m = c - x
  OBVIOUS
<1>4. \A y \in S : x >= y
  <2>1. \A y \in S : c - x <= c - y
    BY <1>2, <1>3
  <2>. QED
    BY <2>1
<1>5. Max(S) \in S /\ \A y \in S : Max(S) >= y
  BY <1>4 DEF Max
<1>. QED
  BY <1>5

\* The order in which a history has its points.
NoLater(q, p) == \/ q.at < p.at
                 \/ q.at = p.at /\ Min(q.notes) <= Min(p.notes)
Upto(S, p) == {q \in S : NoLater(q, p)}

\* Finitely many points, of which no two come at the same place.
Distinct(S) ==
    /\ IsFiniteSet(S)
    /\ \A p \in S : p.at \in Nat /\ Min(p.notes) \in Nat
    /\ \A p, q \in S : p.at = q.at /\ Min(p.notes) = Min(q.notes) => p = q

LEMMA UptoIs ==
    ASSUME NEW S, Distinct(S), NEW p \in S
    PROVE  /\ IsFiniteSet(Upto(S, p)) /\ p \in Upto(S, p)
           /\ Cardinality(S) \in Nat /\ Cardinality(Upto(S, p)) \in 1..Cardinality(S)
<1>1. IsFiniteSet(S) /\ Upto(S, p) \in SUBSET S /\ p \in Upto(S, p)
  BY DEF Distinct, Upto, NoLater
<1>2. IsFiniteSet(Upto(S, p)) /\ Cardinality(Upto(S, p)) <= Cardinality(S)
  BY <1>1, FS_Subset
<1>3. Cardinality(S) \in Nat /\ Cardinality(Upto(S, p)) \in Nat
  BY <1>1, <1>2, FS_CardinalityType
<1>4. Cardinality(Upto(S, p)) # 0
  BY <1>1, <1>2, FS_EmptySet
<1>. QED
  BY <1>1, <1>2, <1>3, <1>4

LEMMA RankGrows ==
    ASSUME NEW S, Distinct(S), NEW p \in S, NEW q \in S, NoLater(p, q), p # q
    PROVE  Cardinality(Upto(S, p)) < Cardinality(Upto(S, q))
<1>1. \A x \in S : x.at \in Nat /\ Min(x.notes) \in Nat
  BY DEF Distinct
<1>2. ~NoLater(q, p)
  BY <1>1 DEF Distinct, NoLater
<1>3. Upto(S, p) \in SUBSET Upto(S, q) /\ q \in Upto(S, q) /\ q \notin Upto(S, p)
  BY <1>1, <1>2 DEF NoLater, Upto
<1>4. IsFiniteSet(Upto(S, q)) /\ Cardinality(Upto(S, q)) \in Nat /\ Cardinality(Upto(S, p)) \in Nat
  BY UptoIs
<1>5. /\ Cardinality(Upto(S, p)) <= Cardinality(Upto(S, q))
      /\ Cardinality(Upto(S, q)) # Cardinality(Upto(S, p))
  BY <1>3, <1>4, FS_Subset
<1>. QED
  BY <1>4, <1>5

LEMMA Comparable ==
    ASSUME NEW S, Distinct(S), NEW p \in S, NEW q \in S
    PROVE  NoLater(p, q) \/ NoLater(q, p)
  BY DEF Distinct, NoLater

\* A set of distinct points has one at each place.
LEMMA Ranks ==
    ASSUME NEW S, Distinct(S)
    PROVE  \A i \in 1..Cardinality(S) : \E p \in S : Cardinality(Upto(S, p)) = i
<1>. DEFINE n == Cardinality(S)
            rank == [p \in S |-> Cardinality(Upto(S, p))]
<1>1. IsFiniteSet(S) /\ n \in Nat
  BY FS_CardinalityType DEF Distinct
<1>2. rank \in [S -> 1..n]
  BY UptoIs
<1>3. \A p, q \in S : rank[p] = rank[q] => p = q
  <2>. SUFFICES ASSUME NEW p \in S, NEW q \in S, p # q PROVE rank[p] # rank[q]
    OBVIOUS
  <2>1. Cardinality(Upto(S, p)) \in Nat /\ Cardinality(Upto(S, q)) \in Nat
    BY UptoIs
  <2>2. CASE NoLater(p, q)
    BY <2>1, <2>2, RankGrows
  <2>3. CASE NoLater(q, p)
    BY <2>1, <2>3, RankGrows
  <2>. QED
    BY <2>2, <2>3, Comparable
<1>4. rank \in Injection(S, 1..n)
  BY <1>2, <1>3 DEF Injection, IsInjective
<1>5. IsFiniteSet(1..n) /\ Cardinality(1..n) = n
  BY <1>1, FS_Interval
<1>6. rank \in Surjection(S, 1..n)
  BY <1>1, <1>4, <1>5, FS_Injection
<1>7. \A i \in 1..n : \E p \in S : rank[p] = i
  BY <1>6 DEF Surjection
<1>. QED
  BY <1>7

\* The points of a history are the points of the set, in their order.
LEMMA InSequenceIs ==
    ASSUME NEW S, Distinct(S)
    PROVE  /\ InSequence(S) \in Seq(S) /\ Len(InSequence(S)) = Cardinality(S)
           /\ DOMAIN InSequence(S) = 1..Cardinality(S) /\ Cardinality(S) \in Nat
           /\ \A i \in 1..Cardinality(S) : /\ InSequence(S)[i] \in S
                                           /\ Cardinality(Upto(S, InSequence(S)[i])) = i
           /\ \A p \in S : /\ Cardinality(Upto(S, p)) \in 1..Cardinality(S)
                           /\ InSequence(S)[Cardinality(Upto(S, p))] = p
           /\ \A i, j \in 1..Cardinality(S) :
                 i < j => InSequence(S)[i].at <= InSequence(S)[j].at
<1>. DEFINE n == Cardinality(S)
            s == InSequence(S)
<1>1. n \in Nat
  BY FS_CardinalityType DEF Distinct
<1>2. s = [i \in 1..n |-> CHOOSE p \in S : Cardinality(Upto(S, p)) = i]
  BY DEF InSequence, Upto, NoLater
<1>. HIDE DEF s
<1>3. \A i \in 1..n : s[i] \in S /\ Cardinality(Upto(S, s[i])) = i
  BY <1>2, Ranks
<1>4. s \in Seq(S) /\ Len(s) = n /\ DOMAIN s = 1..n
  <2>1. s \in [1..n -> S]
    BY <1>2, <1>3
  <2>. QED
    BY <1>1, <2>1
<1>5. ASSUME NEW p \in S PROVE Cardinality(Upto(S, p)) \in 1..n /\ s[Cardinality(Upto(S, p))] = p
  <2>. DEFINE i == Cardinality(Upto(S, p))
  <2>1. i \in 1..n
    BY UptoIs
  <2>2. s[i] \in S /\ Cardinality(Upto(S, s[i])) = i
    BY <2>1, <1>3
  <2>3. s[i] # p => Cardinality(Upto(S, s[i])) # Cardinality(Upto(S, p))
    <3>. SUFFICES ASSUME s[i] # p PROVE Cardinality(Upto(S, s[i])) # Cardinality(Upto(S, p))
      OBVIOUS
    <3>1. Cardinality(Upto(S, s[i])) \in Nat /\ Cardinality(Upto(S, p)) \in Nat
      BY <2>1, <2>2
    <3>2. CASE NoLater(s[i], p)
      <4>1. Cardinality(Upto(S, s[i])) < Cardinality(Upto(S, p))
        BY <2>2, <3>2, RankGrows
      <4>. QED
        BY <3>1, <4>1
    <3>3. CASE NoLater(p, s[i])
      <4>1. Cardinality(Upto(S, p)) < Cardinality(Upto(S, s[i]))
        BY <2>2, <3>3, RankGrows
      <4>. QED
        BY <3>1, <4>1
    <3>. QED
      BY <2>2, <3>2, <3>3, Comparable
  <2>. QED
    BY <2>1, <2>2, <2>3
<1>6. ASSUME NEW i \in 1..n, NEW j \in 1..n, i < j PROVE s[i].at <= s[j].at
  <2>1. /\ s[i] \in S /\ s[j] \in S /\ s[i] # s[j]
        /\ Cardinality(Upto(S, s[i])) = i /\ Cardinality(Upto(S, s[j])) = j
    BY <1>3, <1>6
  <2>2. ~NoLater(s[j], s[i])
    <3>. SUFFICES ASSUME NoLater(s[j], s[i]) PROVE FALSE
      OBVIOUS
    <3>1. Cardinality(Upto(S, s[j])) < Cardinality(Upto(S, s[i]))
      BY <2>1, RankGrows
    <3>. QED
      BY <2>1, <3>1, <1>6
  <2>3. NoLater(s[i], s[j]) /\ s[i].at \in Nat /\ s[j].at \in Nat
    BY <2>1, <2>2, Comparable DEF Distinct
  <2>. QED
    BY <2>3 DEF NoLater
<1>. QED
  BY <1>1, <1>3, <1>4, <1>5, <1>6 DEF s

-----------------------------------------------------------------------------
(* What the two queries of a history answer *)

\* A point, and what is true of every point there is.
Pt == [at : Nat, notes : SUBSET Nat]
Sound(p) ==
    /\ p.at <= clock
    /\ \A n \in p.notes : n \in DOMAIN notes /\ notes[n].at <= p.at

InOrder(s) == \A i, j \in DOMAIN s : i < j => s[i].at <= s[j].at
Has(s, n) == \E i \in DOMAIN s : n \in s[i].notes

\* Note n is among the last d + 1 points.
AtEnd(s, n, d) == \E i \in DOMAIN s : n \in s[i].notes /\ Len(s) - i <= d

\* The readings that an answer with latest note r had, as far as they are still there.
ReadUpto(r) == {table[i].note : i \in DOMAIN table} \cap 1..r
After(S, n) == {k \in S : k > n}

\* No point of a history is newer than a notification after the history's latest reading.
Early(p) == \A n \in DOMAIN notes : n > LatestNote => p.at <= notes[n].at

\* The point of reading i.
Single(i) == [at |-> table[i].recorded_at, notes |-> {table[i].note}]

LEMMA TableIs ==
    ASSUME Server
    PROVE  /\ table \in Seq(Row) /\ DOMAIN table = 1..Len(table) /\ Len(table) \in Nat
           /\ clock \in Nat
           /\ \A i \in DOMAIN table :
                 /\ table[i].note \in Nat /\ table[i].note \in DOMAIN notes
                 /\ table[i].recorded_at \in Nat /\ table[i].recorded_at <= clock
                 /\ notes[table[i].note].at \in Nat
                 /\ notes[table[i].note].at <= table[i].recorded_at
           /\ \A i, j \in DOMAIN table : i < j => table[i].recorded_at <= table[j].recorded_at
           /\ \A i, j \in DOMAIN table : i < j => table[i].note < table[j].note
<1>1. /\ DOMAIN table = 1..Len(table) /\ Len(table) \in Nat
      /\ \A i \in DOMAIN table : table[i].note \in Nat /\ table[i].recorded_at \in Nat
      /\ \A n \in DOMAIN notes : notes[n].at \in Nat
  BY NotesType
<1>2. /\ table \in Seq(Row) /\ clock \in Nat
      /\ \A i \in DOMAIN table :
            /\ table[i].note \in DOMAIN notes
            /\ table[i].recorded_at <= clock
            /\ notes[table[i].note].at <= table[i].recorded_at
      /\ \A i, j \in DOMAIN table : i < j => table[i].recorded_at <= table[j].recorded_at
      /\ \A i, j \in DOMAIN table : i < j => table[i].note < table[j].note
  BY DEF Server
<1>. QED
  BY <1>1, <1>2

LEMMA SingletonMin == \A n \in Nat : Min({n}) = n
<1>1. \A n \in Nat : Min({n}) \in {n}
  BY MinOf
<1>. QED
  BY <1>1

\* A reading's point is no newer than what was notified after the latest reading.
LEMMA RowsAreEarly ==
    ASSUME Server, NEW i \in DOMAIN table, NEW n \in DOMAIN notes, n > LatestNote
    PROVE  table[i].recorded_at <= notes[n].at
<1>1. /\ DOMAIN table = 1..Len(table) /\ Len(table) \in Nat /\ table # <<>>
      /\ \A j \in DOMAIN table : table[j].note \in Nat
      /\ \A j, k \in DOMAIN table : j < k => table[j].note < table[k].note
  BY TableIs
<1>2. LatestNote = table[Len(table)].note /\ Len(table) \in DOMAIN table
  BY <1>1, LatestNoteIs
<1>3. n \in Nat
  BY NotesType
<1>4. n > table[i].note
  BY <1>1, <1>2, <1>3
<1>. QED
  BY <1>4 DEF Server

LEMMA ReadUptoLatest ==
    ASSUME Server
    PROVE  ReadUpto(LatestNote) = {table[i].note : i \in DOMAIN table}
<1>. SUFFICES ASSUME NEW i \in DOMAIN table PROVE table[i].note \in 1..LatestNote
  BY DEF ReadUpto
<1>1. /\ DOMAIN table = 1..Len(table) /\ Len(table) \in Nat /\ table # <<>>
      /\ \A j \in DOMAIN table : table[j].note \in Nat
      /\ \A j, k \in DOMAIN table : j < k => table[j].note < table[k].note
  BY TableIs
<1>2. LatestNote = table[Len(table)].note /\ Len(table) \in DOMAIN table
  BY <1>1, LatestNoteIs
<1>3. table[i].note \in 1..Len(notes)
  BY TableIs, NotesType
<1>. QED
  BY <1>1, <1>2, <1>3

\* Without a window: the readings up to the limit, oldest first.
LEMMA ListIs ==
    ASSUME Server
    PROVE  list_by_channel(table, Limit) = {i \in DOMAIN table : i <= Limit}
<1>. SUFFICES ASSUME NEW i \in DOMAIN table
              PROVE  Cardinality({j \in DOMAIN table \ {i} : Before(table, j, i)}) = i - 1
  <2>1. \A i \in DOMAIN table : i - 1 < Limit <=> i <= Limit
    BY TableIs, NumbersAssumption
  <2>. QED
    BY <2>1 DEF list_by_channel
<1>1. /\ DOMAIN table = 1..Len(table) /\ Len(table) \in Nat
      /\ \A j \in DOMAIN table : table[j].recorded_at \in Nat
      /\ \A j, k \in DOMAIN table : j < k => table[j].recorded_at <= table[k].recorded_at
  BY TableIs
<1>2. {j \in DOMAIN table \ {i} : Before(table, j, i)} = 1..i - 1
  <2>1. ASSUME NEW j \in DOMAIN table \ {i} PROVE Before(table, j, i) <=> j < i
    <3>1. CASE j < i
      BY <3>1, <1>1 DEF Before
    <3>2. CASE i < j
      BY <3>2, <1>1 DEF Before
    <3>. QED
      BY <3>1, <3>2, <1>1
  <2>2. \A j : j \in 1..i - 1 <=> j \in DOMAIN table \ {i} /\ j < i
    BY <1>1
  <2>. QED
    BY <2>1, <2>2
<1>3. i \in Nat /\ Cardinality(1..i - 1) = i - 1
  <2>1. i \in Nat /\ i >= 1
    BY <1>1
  <2>. QED
    BY <2>1, FS_Interval
<1>. QED
  BY <1>2, <1>3

\* The points without a window are those of the first readings.
LEMMA UnwindowedIs ==
    ASSUME Server
    PROVE  /\ Unwindowed = {Single(i) : i \in {j \in DOMAIN table : j <= Limit}}
           /\ Distinct(Unwindowed) /\ Unwindowed \subseteq Pt
           /\ Cardinality(Unwindowed) <= Limit
           /\ \A p \in Unwindowed : Sound(p) /\ Early(p)
<1>. DEFINE list == {j \in DOMAIN table : j <= Limit}
            S == Unwindowed
<1>1. S = {Single(i) : i \in list}
  BY ListIs DEF Unwindowed, Single
<1>. HIDE DEF S
<1>t. /\ DOMAIN table = 1..Len(table) /\ Len(table) \in Nat /\ clock \in Nat
      /\ \A i \in DOMAIN table :
            /\ table[i].note \in Nat /\ table[i].note \in DOMAIN notes
            /\ table[i].recorded_at \in Nat /\ table[i].recorded_at <= clock
            /\ notes[table[i].note].at \in Nat
            /\ notes[table[i].note].at <= table[i].recorded_at
      /\ \A i, j \in DOMAIN table : i < j => table[i].note < table[j].note
  BY TableIs
<1>2. /\ list \in SUBSET (1..Limit) /\ IsFiniteSet(1..Limit) /\ Cardinality(1..Limit) = Limit
      /\ Limit \in Nat
  <2>1. Limit \in Nat /\ Limit >= 1
    BY NumbersAssumption
  <2>2. IsFiniteSet(1..Limit) /\ Cardinality(1..Limit) = Limit
    BY <2>1, FS_Interval
  <2>3. list \in SUBSET (1..Limit)
    BY <2>1, <1>t
  <2>. QED
    BY <2>1, <2>2, <2>3
<1>3. IsFiniteSet(list) /\ Cardinality(list) <= Limit
  BY <1>2, FS_Subset
<1>4. IsFiniteSet(S) /\ Cardinality(S) <= Cardinality(list)
  <2>. DEFINE f == [i \in list |-> Single(i)]
  <2>1. f \in Surjection(list, S)
    BY <1>1 DEF Surjection
  <2>. HIDE DEF f
  <2>. QED
    BY <2>1, <1>3, FS_Surjection
<1>5. Cardinality(S) <= Limit
  <2>1. Cardinality(S) \in Nat /\ Cardinality(list) \in Nat
    BY <1>3, <1>4, FS_CardinalityType
  <2>. QED
    BY <2>1, <1>2, <1>3, <1>4
<1>6. ASSUME NEW i \in list
      PROVE  /\ Single(i).at = table[i].recorded_at /\ Single(i).notes = {table[i].note}
             /\ Min(Single(i).notes) = table[i].note
             /\ Single(i) \in Pt /\ Sound(Single(i)) /\ Early(Single(i))
  <2>1. i \in DOMAIN table
    OBVIOUS
  <2>2. /\ Single(i).at = table[i].recorded_at /\ Single(i).notes = {table[i].note}
        /\ Single(i) \in Pt
    BY <2>1, <1>t DEF Single, Pt
  <2>3. Min(Single(i).notes) = table[i].note
    BY <2>1, <2>2, <1>t, SingletonMin
  <2>4. Sound(Single(i))
    BY <2>1, <2>2, <1>t DEF Sound
  <2>5. Early(Single(i))
    BY <2>1, <2>2, RowsAreEarly DEF Early
  <2>. QED
    BY <2>2, <2>3, <2>4, <2>5
<1>7. \A i, j \in list : table[i].note = table[j].note => i = j
  BY <1>t
<1>8. Distinct(S)
  <2>1. \A p \in S : p.at \in Nat /\ Min(p.notes) \in Nat
    BY <1>1, <1>6, <1>t
  <2>2. ASSUME NEW p \in S, NEW q \in S, Min(p.notes) = Min(q.notes) PROVE p = q
    <3>1. PICK i \in list : p = Single(i)
      BY <1>1
    <3>2. PICK j \in list : q = Single(j)
      BY <1>1
    <3>3. i = j
      BY <3>1, <3>2, <2>2, <1>6, <1>7
    <3>. QED
      BY <3>1, <3>2, <3>3
  <2>. QED
    BY <2>1, <2>2, <1>4 DEF Distinct
<1>. QED
  BY <1>1, <1>5, <1>6, <1>8 DEF S

\* Injective functions bound the number of what they map.
LEMMA NotMoreThan ==
    ASSUME NEW S, NEW T, IsFiniteSet(T), NEW f \in [S -> T], \A x, y \in S : f[x] = f[y] => x = y
    PROVE  IsFiniteSet(S) /\ Cardinality(S) <= Cardinality(T)
<1>1. f \in Injection(S, T)
  BY DEF Injection, IsInjective
<1>. QED
  BY <1>1, FS_Injection

LEMMA ReadUptoFinite == ASSUME NEW r \in Nat PROVE IsFiniteSet(ReadUpto(r))
<1>1. IsFiniteSet(1..r) /\ ReadUpto(r) \in SUBSET (1..r)
  BY FS_Interval DEF ReadUpto
<1>. QED
  BY <1>1, FS_Subset

\* If there are no more readings than the limit, each of them is a point, and as far from
\* the last point as its note is from the last note.
LEMMA UnwindowedEnds ==
    ASSUME Server, Cardinality(ReadUpto(LatestNote)) <= Limit, NEW n \in ReadUpto(LatestNote)
    PROVE  AtEnd(InSequence(Unwindowed), n, Cardinality(After(ReadUpto(LatestNote), n)))
<1>. DEFINE all == ReadUpto(LatestNote)
            S == Unwindowed
            s == InSequence(S)
<1>t. /\ DOMAIN table = 1..Len(table) /\ Len(table) \in Nat /\ clock \in Nat
      /\ \A i \in DOMAIN table :
            /\ table[i].note \in Nat /\ table[i].recorded_at \in Nat
      /\ \A i, j \in DOMAIN table : i < j => table[i].recorded_at <= table[j].recorded_at
      /\ \A i, j \in DOMAIN table : i < j => table[i].note < table[j].note
  BY TableIs
<1>1. all = {table[i].note : i \in DOMAIN table} /\ IsFiniteSet(all)
  BY ReadUptoLatest, ReadUptoFinite, LatestNoteType
<1>2. Len(table) <= Limit
  <2>. DEFINE f == [i \in 1..Len(table) |-> table[i].note]
  <2>1. f \in [1..Len(table) -> all] /\ \A x, y \in 1..Len(table) : f[x] = f[y] => x = y
    BY <1>1, <1>t
  <2>. HIDE DEF f
  <2>2. Cardinality(1..Len(table)) <= Cardinality(all)
    BY <2>1, <1>1, NotMoreThan
  <2>3. Cardinality(1..Len(table)) = Len(table)
    BY <1>t, FS_Interval
  <2>4. Cardinality(all) \in Nat /\ Limit \in Nat
    BY <1>1, FS_CardinalityType, NumbersAssumption
  <2>. QED
    BY <2>2, <2>3, <2>4, <1>t
<1>3. S = {Single(i) : i \in DOMAIN table} /\ Distinct(S)
  <2>1. {j \in DOMAIN table : j <= Limit} = DOMAIN table
    BY <1>2, <1>t, NumbersAssumption
  <2>. QED
    BY <2>1, UnwindowedIs
<1>4. PICK i \in DOMAIN table : n = table[i].note
  BY <1>1
<1>. DEFINE p == Single(i)
            k == Cardinality(Upto(S, p))
            rest == S \ Upto(S, p)
            later == After(all, n)
<1>. HIDE DEF S
<1>5. p \in S
  BY <1>3
<1>6. k \in 1..Cardinality(S) /\ s[k] = p /\ Len(s) = Cardinality(S) /\ DOMAIN s = 1..Cardinality(S)
  BY <1>3, <1>5, InSequenceIs
<1>7. \A j \in DOMAIN table : /\ Single(j).at = table[j].recorded_at /\ Single(j).notes = {table[j].note}
                              /\ Min(Single(j).notes) = table[j].note
  BY <1>t, SingletonMin DEF Single
<1>. HIDE DEF p
<1>8. p.at = table[i].recorded_at /\ p.notes = {n} /\ Min(p.notes) = table[i].note
  BY <1>4, <1>7 DEF p
<1>9. ASSUME NEW q \in rest PROVE Min(q.notes) \in later
  <2>1. PICK j \in DOMAIN table : q = Single(j)
    BY <1>3
  <2>2. q.at = table[j].recorded_at /\ Min(q.notes) = table[j].note
    BY <2>1, <1>7
  <2>3. ~NoLater(q, p)
    BY DEF Upto
  <2>4. i < j
    <3>1. CASE j < i
      BY <3>1, <2>2, <2>3, <1>8, <1>t DEF NoLater
    <3>2. CASE j = i
      BY <3>2, <2>2, <2>3, <1>8, <1>t DEF NoLater
    <3>. QED
      BY <3>1, <3>2, <1>t
  <2>. QED
    BY <2>2, <2>4, <1>1, <1>4, <1>t DEF After
<1>10. Cardinality(rest) <= Cardinality(later)
  <2>. DEFINE f == [q \in rest |-> Min(q.notes)]
  <2>1. f \in [rest -> later]
    BY <1>9
  <2>2. \A x, y \in rest : f[x] = f[y] => x = y
    <3>. SUFFICES ASSUME NEW x \in rest, NEW y \in rest, Min(x.notes) = Min(y.notes) PROVE x = y
      OBVIOUS
    <3>1. PICK a \in DOMAIN table : x = Single(a)
      BY <1>3
    <3>2. PICK b \in DOMAIN table : y = Single(b)
      BY <1>3
    <3>3. table[a].note = table[b].note
      BY <3>1, <3>2, <1>7
    <3>4. a = b
      BY <3>3, <1>t
    <3>. QED
      BY <3>1, <3>2, <3>4
  <2>3. IsFiniteSet(later)
    <3>1. later \in SUBSET all
      BY DEF After
    <3>. QED
      BY <3>1, <1>1, FS_Subset
  <2>. HIDE DEF f, rest, later
  <2>. QED
    BY <2>1, <2>2, <2>3, NotMoreThan
<1>11. Cardinality(rest) = Cardinality(S) - k
  <2>1. S \cap Upto(S, p) = Upto(S, p) /\ IsFiniteSet(S)
    BY <1>3 DEF Upto, Distinct
  <2>. QED
    BY <2>1, FS_Difference
<1>12. k \in DOMAIN s /\ n \in s[k].notes /\ Len(s) - k <= Cardinality(later)
  BY <1>6, <1>8, <1>10, <1>11
<1>. QED
  BY <1>12 DEF AtEnd, S

\* The points of a window are its buckets, labelled with the stamp of one of their readings.
LEMMA WindowedIs ==
    ASSUME Server, NEW w \in Windows
    PROVE  /\ Distinct(Windowed(w)) /\ Windowed(w) \subseteq Pt
           /\ \A p \in Windowed(w) : Sound(p) /\ Early(p)
           /\ \A n \in ReadUpto(LatestNote) :
                 notes[n].at >= clock - w => \E p \in Windowed(w) : n \in p.notes
<1>. DEFINE in == Since(table, clock - w)
            width == BucketOf[w]
            nr(i) == table[i].recorded_at \div width
            of(b) == {i \in in : nr(i) = b}
            bs == {nr(i) : i \in in}
            P(b) == [at |-> Labelled(table, of(b)), notes |-> Notes(of(b))]
            S == Windowed(w)
<1>t. /\ DOMAIN table = 1..Len(table) /\ Len(table) \in Nat /\ clock \in Nat
      /\ \A i \in DOMAIN table :
            /\ table[i].note \in Nat /\ table[i].note \in DOMAIN notes
            /\ table[i].recorded_at \in Nat /\ table[i].recorded_at <= clock
            /\ notes[table[i].note].at \in Nat
            /\ notes[table[i].note].at <= table[i].recorded_at
  BY TableIs
<1>w. w \in Nat /\ width \in Nat \ {0}
  BY NumbersAssumption
<1>1. in \subseteq DOMAIN table
  BY DEF Since
<1>2. S = {P(b) : b \in bs}
  <2>. DEFINE history == downsample_since(table, clock - w, width)
  <2>1. history = [b \in bs |-> [of |-> of(b), recorded_at |-> Labelled(table, of(b))]]
    BY DEF downsample_since, Buckets
  <2>2. S = {[at |-> history[b].recorded_at, notes |-> Notes(history[b].of)] : b \in DOMAIN history}
    BY DEF Windowed
  <2>. HIDE DEF history
  <2>3. DOMAIN history = bs
    BY <2>1
  <2>4. \A b \in bs : [at |-> history[b].recorded_at, notes |-> Notes(history[b].of)] = P(b)
    BY <2>1
  <2>. HIDE DEF bs, P, S
  <2>. QED
    BY <2>2, <2>3, <2>4
<1>. HIDE DEF S
<1>3. ASSUME NEW b \in bs
      PROVE  \E i \in of(b) : /\ Labelled(table, of(b)) = table[i].recorded_at
                              /\ \A j \in of(b) : table[j].recorded_at <= table[i].recorded_at
  <2>. DEFINE stamps == {table[i].recorded_at : i \in of(b)}
  <2>1. stamps \subseteq Nat /\ stamps # {} /\ \A x \in stamps : x <= clock
    BY <1>1, <1>t
  <2>2. Max(stamps) \in stamps /\ \A x \in stamps : x <= Max(stamps)
    BY <2>1, <1>t, MaxOf
  <2>3. Labelled(table, of(b)) = Max(stamps)
    BY DEF Labelled
  <2>4. PICK i \in of(b) : Max(stamps) = table[i].recorded_at
    BY <2>2
  <2>5. \A j \in of(b) : table[j].recorded_at <= table[i].recorded_at
    BY <2>2, <2>4
  <2>. QED
    BY <2>3, <2>4, <2>5
<1>4. ASSUME NEW b \in bs
      PROVE  /\ P(b) \in Pt /\ Sound(P(b)) /\ Early(P(b))
             /\ Min(P(b).notes) \in Nat /\ P(b).at \div width = b
  <2>1. PICK i \in of(b) : /\ Labelled(table, of(b)) = table[i].recorded_at
                           /\ \A j \in of(b) : table[j].recorded_at <= table[i].recorded_at
    BY <1>3
  <2>. DEFINE p == P(b)
  <2>2. p.at = table[i].recorded_at /\ p.notes = {table[j].note : j \in of(b)} /\ i \in DOMAIN table
    BY <2>1, <1>1 DEF Notes
  <2>3. p \in Pt
    <3>1. p.at \in Nat /\ p.notes \subseteq Nat
      BY <2>2, <1>1, <1>t
    <3>2. p = [at |-> p.at, notes |-> p.notes]
      OBVIOUS
    <3>. HIDE DEF p
    <3>. QED
      BY <3>1, <3>2 DEF Pt
  <2>. HIDE DEF p
  <2>4. Sound(p)
    <3>1. ASSUME NEW n \in p.notes PROVE n \in DOMAIN notes /\ notes[n].at <= p.at
      <4>1. PICK j \in of(b) : n = table[j].note
        BY <2>2
      <4>2. j \in DOMAIN table /\ table[j].recorded_at <= table[i].recorded_at
        BY <2>1, <1>1
      <4>. QED
        BY <4>1, <4>2, <2>2, <1>t
    <3>. QED
      BY <3>1, <2>2, <1>t DEF Sound
  <2>5. Early(p)
    BY <2>2, RowsAreEarly DEF Early
  <2>6. Min(p.notes) \in Nat
    <3>1. p.notes \subseteq Nat /\ p.notes # {}
      BY <2>2, <2>1, <1>1, <1>t
    <3>. QED
      BY <3>1, MinOf
  <2>7. p.at \div width = b
    BY <2>1, <2>2
  <2>. QED
    BY <2>3, <2>4, <2>5, <2>6, <2>7 DEF p
<1>5. IsFiniteSet(S)
  <2>1. IsFiniteSet(in)
    <3>1. IsFiniteSet(DOMAIN table)
      BY <1>t, FS_Interval
    <3>. QED
      BY <3>1, <1>1, FS_Subset
  <2>. DEFINE f == [i \in in |-> P(nr(i))]
  <2>2. f \in Surjection(in, S)
    <3>1. \A i \in in : nr(i) \in bs /\ f[i] = P(nr(i))
      OBVIOUS
    <3>2. f \in [in -> S]
      <4>1. \A i \in in : P(nr(i)) \in S
        BY <3>1, <1>2
      <4>. HIDE DEF P, nr
      <4>. QED
        BY <4>1
    <3>3. \A p \in S : \E i \in in : f[i] = p
      <4>1. \A b \in bs : \E i \in in : f[i] = P(b)
        OBVIOUS
      <4>. HIDE DEF f, P, bs
      <4>. QED
        BY <4>1, <1>2
    <3>. HIDE DEF f
    <3>. QED
      BY <3>2, <3>3 DEF Surjection
  <2>. HIDE DEF f, in
  <2>. QED
    BY <2>1, <2>2, FS_Surjection
<1>6. Distinct(S)
  <2>1. \A p \in S : p \in Pt /\ Min(p.notes) \in Nat
    <3>1. \A b \in bs : P(b) \in Pt /\ Min(P(b).notes) \in Nat
      BY <1>4
    <3>. HIDE DEF P, bs
    <3>. QED
      BY <3>1, <1>2
  <2>2. ASSUME NEW p \in S, NEW q \in S, p.at = q.at PROVE p = q
    <3>1. \A b \in bs : P(b).at \div width = b
      BY <1>4
    <3>. HIDE DEF P, bs, width
    <3>2. PICK b \in bs : p = P(b)
      BY <1>2
    <3>3. PICK c \in bs : q = P(c)
      BY <1>2
    <3>. QED
      BY <3>1, <3>2, <3>3, <2>2
  <2>. QED
    BY <2>1, <2>2, <1>5 DEF Distinct, Pt
<1>7. \A p \in S : p \in Pt /\ Sound(p) /\ Early(p)
  <2>1. \A b \in bs : P(b) \in Pt /\ Sound(P(b)) /\ Early(P(b))
    BY <1>4
  <2>. HIDE DEF P, bs
  <2>. QED
    BY <2>1, <1>2
<1>8. ASSUME NEW n \in ReadUpto(LatestNote), notes[n].at >= clock - w
      PROVE  \E p \in S : n \in p.notes
  <2>1. PICK i \in DOMAIN table : n = table[i].note
    BY DEF ReadUpto
  <2>2. i \in in
    BY <2>1, <1>8, <1>t, <1>w DEF Since
  <2>3. nr(i) \in bs /\ i \in of(nr(i))
    BY <2>2
  <2>4. n \in P(nr(i)).notes
    BY <2>1, <2>3 DEF Notes
  <2>. HIDE DEF P, bs, nr
  <2>. QED
    BY <2>3, <2>4, <1>2
<1>. QED
  BY <1>6, <1>7, <1>8 DEF S

-----------------------------------------------------------------------------
(* The fetches of the history *)

Fetch == [no : Nat, window : Windows \cup {NoWindow}, step : {"sent", "found", "answered"},
          points : Seq(Pt), read : Nat]

\* What was read is older than what is about to be inserted.
Past(r) == r \in Nat /\ r <= Len(notes) /\ (accepted # NoNote => r < accepted)

\* What an answer has: its points in their order, none newer than what was notified after
\* its latest reading, and of the readings those in the window, or, if they are not too
\* many, all.
Answer(l) ==
    /\ InOrder(l.points)
    /\ \A i \in DOMAIN l.points :
          /\ Sound(l.points[i])
          /\ \A n \in DOMAIN notes : n > l.read => l.points[i].at <= notes[n].at
    /\ l.window # NoWindow =>
          \A n \in ReadUpto(l.read) : notes[n].at >= clock - l.window => Has(l.points, n)
    /\ l.window = NoWindow =>
          /\ Len(l.points) <= Limit
          /\ Cardinality(ReadUpto(l.read)) <= Limit =>
                \A n \in ReadUpto(l.read) :
                    AtEnd(l.points, n, Cardinality(After(ReadUpto(l.read), n)))

\* The last fetch was sent for the window that is selected.
Loads ==
    \A l \in loads :
        /\ l \in Fetch /\ l.no <= asked /\ l.no >= 1 /\ Past(l.read)
        /\ l.window = NoWindow <=> window = NoWindow
        /\ l.no = asked => l.window = window
        /\ Answer(l)

LEMMA FetchType ==
    ASSUME NEW l \in Fetch
    PROVE  /\ l.no \in Nat /\ l.window \in Windows \cup {NoWindow} /\ l.points \in Seq(Pt) /\ l.read \in Nat
           /\ DOMAIN l.points = 1..Len(l.points) /\ Len(l.points) \in Nat
           /\ \A i \in DOMAIN l.points : l.points[i] \in Pt /\ l.points[i].at \in Nat
<1>1. l.no \in Nat /\ l.window \in Windows \cup {NoWindow} /\ l.points \in Seq(Pt) /\ l.read \in Nat
  BY DEF Fetch
<1>2. /\ DOMAIN l.points = 1..Len(l.points) /\ Len(l.points) \in Nat
      /\ \A i \in DOMAIN l.points : l.points[i] \in Pt
  BY <1>1
<1>3. \A i \in DOMAIN l.points : l.points[i].at \in Nat
  BY <1>2 DEF Pt
<1>. QED
  BY <1>1, <1>2, <1>3

\* channel_history answers what an answer has.
LEMMA HistoryIs ==
    ASSUME Server, NEW l, l.window \in Windows \cup {NoWindow}, l.read = LatestNote,
           l.points = InSequence(IF l.window = NoWindow THEN Unwindowed ELSE Windowed(l.window))
    PROVE  l.points \in Seq(Pt) /\ Answer(l)
<1>. DEFINE S == IF l.window = NoWindow THEN Unwindowed ELSE Windowed(l.window)
<1>1. /\ Distinct(S) /\ S \subseteq Pt /\ \A p \in S : Sound(p) /\ Early(p)
  BY UnwindowedIs, WindowedIs
<1>. HIDE DEF S
<1>2. l.points = InSequence(S)
  BY DEF S
<1>3. /\ l.points \in Seq(S) /\ Len(l.points) = Cardinality(S)
      /\ DOMAIN l.points = 1..Cardinality(S)
      /\ \A i \in DOMAIN l.points : l.points[i] \in S
      /\ \A i, j \in DOMAIN l.points : i < j => l.points[i].at <= l.points[j].at
      /\ \A p \in S : \E i \in DOMAIN l.points : l.points[i] = p
  BY <1>1, <1>2, InSequenceIs
<1>4. l.points \in Seq(Pt)
  BY <1>1, <1>3
<1>5. InOrder(l.points)
  BY <1>3 DEF InOrder
<1>6. \A i \in DOMAIN l.points :
          /\ Sound(l.points[i])
          /\ \A n \in DOMAIN notes : n > l.read => l.points[i].at <= notes[n].at
  BY <1>1, <1>3 DEF Early
<1>7. ASSUME l.window # NoWindow, NEW n \in ReadUpto(l.read), notes[n].at >= clock - l.window
      PROVE  Has(l.points, n)
  <2>1. S = Windowed(l.window) /\ l.window \in Windows
    BY <1>7 DEF S
  <2>2. \E p \in S : n \in p.notes
    BY <2>1, <1>7, WindowedIs
  <2>. QED
    BY <2>2, <1>3 DEF Has
<1>8. ASSUME l.window = NoWindow
      PROVE  /\ Len(l.points) <= Limit
             /\ Cardinality(ReadUpto(l.read)) <= Limit =>
                   \A n \in ReadUpto(l.read) :
                       AtEnd(l.points, n, Cardinality(After(ReadUpto(l.read), n)))
  <2>1. S = Unwindowed
    BY <1>8 DEF S
  <2>. QED
    BY <2>1, <1>2, <1>3, UnwindowedIs, UnwindowedEnds
<1>. QED
  BY <1>4, <1>5, <1>6, <1>7, <1>8 DEF Answer

\* Time passes, notifications are added, and readings are added behind those that were
\* read, or all deleted.
LEMMA Grows ==
    ASSUME Server, [Next]_vars
    PROVE  /\ clock \in Nat /\ clock' \in Nat /\ clock <= clock'
           /\ Len(notes) \in Nat /\ Len(notes') \in Nat /\ Len(notes) <= Len(notes')
           /\ DOMAIN notes = 1..Len(notes) /\ DOMAIN notes' = 1..Len(notes')
           /\ \A n \in DOMAIN notes : notes'[n] = notes[n] /\ notes[n].at \in Nat
           /\ \A n \in DOMAIN notes' : n \notin DOMAIN notes => notes'[n].at = clock
           /\ \A r : Past(r) => Past(r)' /\ (ReadUpto(r)' = ReadUpto(r) \/ ReadUpto(r)' = {})
<1>n. /\ DOMAIN notes = 1..Len(notes) /\ Len(notes) \in Nat /\ clock \in Nat
      /\ \A n \in DOMAIN notes : notes[n].at \in Nat
  BY NotesType DEF Server
<1>1. CASE Tick
  BY <1>1, <1>n DEF Tick, Past, ReadUpto
<1>2. ASSUME NEW v \in Values, Notify(v)
      PROVE  /\ clock' = clock /\ Len(notes') = Len(notes) + 1 /\ DOMAIN notes' = 1..Len(notes')
             /\ \A n \in DOMAIN notes : notes'[n] = notes[n]
             /\ \A n \in DOMAIN notes' : n \notin DOMAIN notes => notes'[n].at = clock
             /\ \A r : Past(r) => Past(r)' /\ ReadUpto(r)' = ReadUpto(r)
  <2>1. /\ clock' = clock /\ table' = table /\ accepted' \in {NoNote, Len(notes')}
        /\ accepted = NoNote
    BY <1>2 DEF Notify
  <2>2. /\ Len(notes') = Len(notes) + 1 /\ DOMAIN notes' = 1..Len(notes) + 1
        /\ \A n \in DOMAIN notes : notes'[n] = notes[n]
        /\ notes'[Len(notes) + 1] = [value |-> v, at |-> clock]
    BY <1>2, NotifyKeeps
  <2>3. \A n \in DOMAIN notes' : n \notin DOMAIN notes => notes'[n].at = clock
    BY <2>2, <1>n
  <2>4. \A r : Past(r) => Past(r)' /\ ReadUpto(r)' = ReadUpto(r)
    BY <2>1, <2>2, <1>n DEF Past, ReadUpto
  <2>. QED
    BY <2>1, <2>2, <2>3, <2>4
<1>3. CASE Insert
  <2>1. UNCHANGED <<clock, notes>> /\ accepted' = NoNote /\ accepted # NoNote
    BY <1>3 DEF Insert
  <2>2. PICK row : table' = Append(table, row) /\ row.note = accepted
    BY <1>3 DEF Insert
  <2>3. /\ DOMAIN table' = 1..Len(table) + 1 /\ Len(table) \in Nat /\ DOMAIN table = 1..Len(table)
        /\ \A i \in DOMAIN table : table'[i] = table[i]
        /\ table'[Len(table) + 1].note = accepted
    BY <2>2, TableIs
  <2>4. ASSUME NEW r, Past(r) PROVE Past(r)' /\ ReadUpto(r)' = ReadUpto(r)
    <3>1. Past(r)' /\ accepted \notin 1..r
      BY <2>1, <2>4, <1>n DEF Past
    <3>2. \A n : n \in ReadUpto(r)' <=> n \in ReadUpto(r)
      BY <2>3, <3>1 DEF ReadUpto
    <3>. QED
      BY <3>1, <3>2 DEF ReadUpto
  <2>. QED
    BY <2>1, <2>4, <1>n
<1>4. CASE InsertFails
  BY <1>4, <1>n DEF InsertFails, Past, ReadUpto
<1>5. CASE DeleteChannel
  <2>1. UNCHANGED <<clock, notes, accepted>> /\ table' = <<>>
    BY <1>5 DEF DeleteChannel
  <2>2. \A r : ReadUpto(r)' = {}
    BY <2>1 DEF ReadUpto
  <2>3. \A r : Past(r) => Past(r)'
    BY <2>1 DEF Past
  <2>. QED
    BY <2>1, <2>2, <2>3, <1>n
<1>6. CASE UNCHANGED server
  BY <1>6, <1>n DEF server, Past, ReadUpto
<1>. QED
  <2>1. CASE \E v \in Values : Notify(v)
    BY <2>1, <1>2, <1>n
  <2>. QED
    BY <2>1, <1>1, <1>3, <1>4, <1>5, <1>6, ServerSteps

\* What is true of a point stays true, and what is notified later is not older.
LEMMA SoundStays ==
    ASSUME Server, [Next]_vars, NEW p \in Pt, Sound(p)
    PROVE  /\ Sound(p)'
           /\ \A n \in DOMAIN notes' : n \notin DOMAIN notes => p.at <= notes'[n].at
<1>. p.at \in Nat
  BY DEF Pt
<1>. QED
  BY Grows DEF Sound

LEMMA AnswerStays ==
    ASSUME Server, [Next]_vars, NEW l \in Fetch, Answer(l), Past(l.read)
    PROVE  Answer(l)' /\ Past(l.read)'
<1>g. /\ clock \in Nat /\ clock' \in Nat /\ clock <= clock'
      /\ \A n \in DOMAIN notes : notes'[n] = notes[n] /\ notes[n].at \in Nat
      /\ Past(l.read)' /\ (ReadUpto(l.read)' = ReadUpto(l.read) \/ ReadUpto(l.read)' = {})
  BY Grows
<1>1. InOrder(l.points)
  BY DEF Answer
<1>2. ASSUME NEW i \in DOMAIN l.points
      PROVE  /\ Sound(l.points[i])'
             /\ \A n \in DOMAIN notes' : n > l.read => l.points[i].at <= notes'[n].at
  <2>1. l.points[i] \in Pt
    BY FetchType
  <2>2. Sound(l.points[i]) /\ \A n \in DOMAIN notes : n > l.read => l.points[i].at <= notes[n].at
    BY DEF Answer
  <2>. QED
    BY <2>1, <2>2, <1>g, SoundStays
<1>3. ASSUME l.window # NoWindow, NEW n \in ReadUpto(l.read)', notes'[n].at >= clock' - l.window
      PROVE  Has(l.points, n)
  <2>1. n \in ReadUpto(l.read)
    BY <1>3, <1>g
  <2>2. notes[n].at \in Nat /\ notes'[n] = notes[n]
    BY <2>1, <1>g, TableIs DEF ReadUpto
  <2>3. l.window \in Nat
    BY <1>3, FetchType, NumbersAssumption
  <2>4. notes[n].at >= clock - l.window
    BY <1>3, <2>2, <2>3, <1>g
  <2>. QED
    BY <2>1, <2>4, <1>3 DEF Answer
<1>4. ASSUME l.window = NoWindow
      PROVE  /\ Len(l.points) <= Limit
             /\ Cardinality(ReadUpto(l.read)') <= Limit =>
                   \A n \in ReadUpto(l.read)' :
                       AtEnd(l.points, n, Cardinality(After(ReadUpto(l.read)', n)))
  BY <1>4, <1>g DEF Answer
<1>. QED
  BY <1>1, <1>2, <1>3, <1>4, <1>g DEF Answer

LEMMA LoadsStep ==
    ASSUME Server, Loads, asked \in Nat, window \in Windows \cup {NoWindow}, [Next]_vars
    PROVE  Loads'
<1>a. ASSUME NEW l \in loads
      PROVE  /\ l \in Fetch /\ l.no <= asked /\ l.no >= 1 /\ l.no \in Nat
             /\ l.window = NoWindow <=> window = NoWindow
             /\ l.no = asked => l.window = window
             /\ Answer(l)' /\ Past(l.read)'
  BY AnswerStays, FetchType DEF Loads
<1>1. CASE loads' \subseteq loads /\ UNCHANGED <<window, asked>>
  BY <1>1, <1>a DEF Loads
<1>2. ASSUME NEW w \in Windows, Click(w) PROVE Loads'
  <2>1. PICK new : new = [no |-> asked + 1, window |-> w, step |-> "sent", points |-> <<>>, read |-> NoNote]
    OBVIOUS
  <2>0. window' = w /\ loads' = loads \cup {new} /\ asked' = asked + 1 /\ window # NoWindow
    BY <1>2, <2>1 DEF Click, Load
  <2>2. /\ new \in Fetch /\ new.no = asked + 1 /\ new.window = w /\ new.read = 0 /\ new.points = <<>>
        /\ w # NoWindow
    BY <2>1, NumbersAssumption DEF Fetch, NoNote
  <2>3. Past(new.read)'
    <3>1. Server'
      BY ServerStep
    <3>2. Past(0)'
      BY <3>1, NotesType DEF Past, Server, NoNote
    <3>. QED
      BY <2>2, <3>2
  <2>4. Answer(new)'
    BY <2>2 DEF Answer, ReadUpto, InOrder
  <2>5. ASSUME NEW l \in loads
        PROVE  l.no <= asked' /\ l.no # asked' /\ l.window # NoWindow
    BY <1>a, <2>0
  <2>. QED
    BY <2>0, <2>2, <2>3, <2>4, <2>5, <1>a DEF Loads
<1>3. ASSUME NEW l \in loads, FindHistory(l) PROVE Loads'
  <2>. DEFINE new == [l EXCEPT !.step = "found"]
  <2>1. loads' = (loads \ {l}) \cup {new} /\ UNCHANGED <<window, asked, server>>
    BY <1>3 DEF FindHistory
  <2>2. /\ new \in Fetch /\ new.no = l.no /\ new.window = l.window /\ new.read = l.read
        /\ new.points = l.points
    BY <1>a DEF Fetch
  <2>. HIDE DEF new
  <2>3. Answer(new)' /\ Past(new.read)'
    BY <1>a, <2>2 DEF Answer
  <2>. QED
    BY <2>1, <2>2, <2>3, <1>a DEF Loads
<1>4. ASSUME NEW l \in loads, ReadHistory(l) PROVE Loads'
  <2>. DEFINE answer == InSequence(IF l.window = NoWindow THEN Unwindowed ELSE Windowed(l.window))
  <2>h. PICK history : history = answer
    OBVIOUS
  <2>n. PICK new : new = [l EXCEPT !.step = "answered", !.points = history, !.read = LatestNote]
    OBVIOUS
  <2>1. loads' = (loads \ {l}) \cup {new} /\ UNCHANGED <<window, asked, server>>
    BY <1>4, <2>h, <2>n DEF ReadHistory
  <2>2. l \in Fetch /\ l.window \in Windows \cup {NoWindow}
    BY <1>a, FetchType
  <2>3. /\ new.no = l.no /\ new.window = l.window /\ new.read = LatestNote /\ new.points = history
    BY <2>2, <2>n DEF Fetch
  <2>4. history \in Seq(Pt) /\ Answer(new)
    BY <2>2, <2>3, <2>h, HistoryIs
  <2>5. LatestNote \in Nat /\ Past(LatestNote)
    <3>1. CASE table = <<>>
      BY <3>1, LatestNoteIs, NotesType DEF Past, NoNote, Server
    <3>2. CASE table # <<>>
      <4>1. Len(table) \in DOMAIN table /\ LatestNote = table[Len(table)].note
        BY <3>2, TableIs, LatestNoteIs
      <4>2. accepted # NoNote => LatestNote < accepted
        BY <4>1 DEF Server
      <4>. QED
        BY <4>2, LatestNoteType DEF Past
    <3>. QED
      BY <3>1, <3>2
  <2>6. new \in Fetch
    BY <2>2, <2>4, <2>5, <2>n DEF Fetch
  <2>7. Answer(new)' /\ Past(new.read)'
    BY <2>3, <2>4, <2>5, <2>6, AnswerStays
  <2>. QED
    BY <2>1, <2>3, <2>6, <2>7, <1>a DEF Loads
<1>5. ASSUME NEW l \in loads, AnswerChart(l) \/ ChartFails(l)
      PROVE  loads' \subseteq loads /\ UNCHANGED <<window, asked>>
  BY <1>5 DEF AnswerChart, ChartFails
<1>6. ASSUME \/ Tick \/ Insert \/ InsertFails \/ DeleteChannel \/ (\E v \in Reported : Notify(v))
             \/ Join \/ Lose \/ ReadingToChart
      PROVE  loads' \subseteq loads /\ UNCHANGED <<window, asked>>
  BY <1>6 DEF Tick, Insert, InsertFails, DeleteChannel, Notify, Join, Lose, ReadingToChart, charts
<1>7. ASSUME ReadingToFlag \/ FindFlag \/ get_flag_state \/ AnswerFlag \/ FlagFails \/ UNCHANGED vars
      PROVE  loads' \subseteq loads /\ UNCHANGED <<window, asked>>
  BY <1>7 DEF ReadingToFlag, FindFlag, get_flag_state, AnswerFlag, FlagFails, vars, charts
<1>. QED
  BY <1>1, <1>2, <1>3, <1>4, <1>5, <1>6, <1>7 DEF Next

-----------------------------------------------------------------------------
(* The chart *)

ChartTypes ==
    /\ window \in Windows \cup {NoWindow} /\ skew \in Int
    /\ asked \in 1..MaxLoads /\ drawn \in 0..asked
    /\ seen \in Nat /\ seen <= rendered /\ Past(read)
    /\ points \in Seq(Pt) /\ doubled \in BOOLEAN

OnWire == Edge + 1..Len(notes)

\* What is on the wire is no older than any point, unless an answer has overtaken a push.
Ordered ==
    /\ \A i \in DOMAIN points : Sound(points[i])
    /\ ~doubled =>
          /\ InOrder(points)
          /\ \A i \in DOMAIN points : \A n \in OnWire : points[i].at <= notes[n].at

\* With a window: what was given to the chart and is in the window by both clocks is there.
InWindow == window # NoWindow /\ drawn = asked =>
    \A n \in Fetched \cup Pushed : notes[n].at >= clock + Max({skew + 1, 0}) - window => Has(points, n)

\* Without one: what was given last is at the end, as far from the last point as it is from
\* what was given last of all.
InLine == window = NoWindow =>
    /\ Len(points) <= Max({Limit, Keep})
    /\ \A n \in Pushed : rendered - n < Keep => AtEnd(points, n, rendered - n)
    /\ Cardinality(Fetched) <= Limit =>
          \A n \in Fetched : LET d == Cardinality(After(Fetched, n)) + (rendered - seen)
                             IN  d < Keep => AtEnd(points, n, d)

\* What the properties say of a page with a chart, at every moment.
Points == ChartTypes /\ Ordered /\ InWindow /\ InLine

LEMMA MaxOfTwo ==
    ASSUME NEW a \in Int, NEW b \in Int
    PROVE  Max({a, b}) \in {a, b} /\ Max({a, b}) >= a /\ Max({a, b}) >= b
<1>1. \E x \in {a, b} : \A y \in {a, b} : x >= y
  <2>1. CASE a >= b
    BY <2>1
  <2>2. CASE b >= a
    BY <2>2
  <2>. QED
    BY <2>1, <2>2
<1>. QED
  BY <1>1 DEF Max

LEMMA MaxType ==
    \A a, b \in Int : Max({a, b}) \in Int /\ Max({a, b}) >= a /\ Max({a, b}) >= b
<1>. SUFFICES ASSUME NEW a \in Int, NEW b \in Int
              PROVE  Max({a, b}) \in Int /\ Max({a, b}) >= a /\ Max({a, b}) >= b
  OBVIOUS
<1>. QED
  BY MaxOfTwo

LEMMA MaxUses ==
    ASSUME skew \in Int
    PROVE  /\ Max({skew + 1, 0}) \in Int /\ Max({skew + 1, 0}) >= skew + 1 /\ Max({skew + 1, 0}) >= 0
           /\ Max({Limit, Keep}) \in Int /\ Max({Limit, Keep}) >= Limit /\ Max({Limit, Keep}) >= Keep
<1>1. 0 \in Int /\ skew + 1 \in Int /\ Limit \in Int /\ Keep \in Int
  BY NumbersAssumption
<1>2. Max({skew + 1, 0}) \in Int /\ Max({skew + 1, 0}) >= skew + 1 /\ Max({skew + 1, 0}) >= 0
  BY <1>1, MaxType
<1>3. Max({Limit, Keep}) \in Int /\ Max({Limit, Keep}) >= Limit /\ Max({Limit, Keep}) >= Keep
  BY <1>1, MaxType
<1>. QED
  BY <1>2, <1>3

LEMMA PointsType ==
    ASSUME NEW s \in Seq(Pt)
    PROVE  /\ DOMAIN s = 1..Len(s) /\ Len(s) \in Nat
           /\ \A i \in DOMAIN s : s[i] \in Pt /\ s[i].at \in Nat /\ s[i].notes \subseteq Nat
<1>1. DOMAIN s = 1..Len(s) /\ Len(s) \in Nat /\ \A i \in DOMAIN s : s[i] \in Pt
  OBVIOUS
<1>2. \A i \in DOMAIN s : s[i].at \in Nat /\ s[i].notes \subseteq Nat
  BY <1>1 DEF Pt
<1>. QED
  BY <1>1, <1>2

\* Trimming drops the first points: with a window those before the first one that is in
\* it, without one the first if there are more than Keep.
LEMMA TrimIs ==
    ASSUME NEW s \in Seq(Pt), s # <<>>, NEW part, window # NoWindow => Cutoff(part) \in Int
    PROVE  \E k \in 0..Len(s) :
              /\ Trim(s, part) \in Seq(Pt) /\ Len(Trim(s, part)) = Len(s) - k
              /\ DOMAIN Trim(s, part) = 1..Len(s) - k
              /\ \A i \in 1..Len(s) - k : Trim(s, part)[i] = s[i + k]
              /\ window # NoWindow => /\ \A j \in 1..k : s[j].at < Cutoff(part)
                                      /\ k < Len(s) => s[k + 1].at >= Cutoff(part)
              /\ window = NoWindow => k = IF Len(s) > Keep THEN 1 ELSE 0
<1>s. /\ DOMAIN s = 1..Len(s) /\ Len(s) \in Nat /\ Len(s) >= 1
      /\ \A i \in DOMAIN s : s[i] \in Pt /\ s[i].at \in Nat
  BY PointsType
<1>1. CASE window # NoWindow
  <2>. DEFINE in == {i \in DOMAIN s : s[i].at >= Cutoff(part)} \cup {Len(s) + 1}
              m == Min(in)
  <2>1. in \subseteq Nat /\ in # {}
    BY <1>s
  <2>. HIDE DEF in
  <2>2. m \in in /\ \A i \in in : m <= i
    BY <2>1, MinOf
  <2>3. m \in 1..Len(s) + 1 /\ (m <= Len(s) => s[m].at >= Cutoff(part))
    BY <2>2, <1>s DEF in
  <2>4. \A j \in 1..m - 1 : s[j].at < Cutoff(part)
    <3>. SUFFICES ASSUME NEW j \in 1..m - 1 PROVE s[j].at < Cutoff(part)
      OBVIOUS
    <3>1. j \in DOMAIN s /\ j < m /\ s[j].at \in Nat
      BY <2>3, <1>s
    <3>2. j \notin in
      BY <2>2, <2>3, <3>1
    <3>3. ~(s[j].at >= Cutoff(part))
      BY <3>1, <3>2 DEF in
    <3>4. Cutoff(part) \in Int
      BY <1>1
    <3>. HIDE DEF m
    <3>. QED
      BY <3>1, <3>3, <3>4
  <2>5. Trim(s, part) = SubSeq(s, m, Len(s))
    BY <1>1 DEF Trim, From, in
  <2>. HIDE DEF m
  <2>6. /\ Trim(s, part) \in Seq(Pt) /\ Len(Trim(s, part)) = Len(s) - (m - 1)
        /\ DOMAIN Trim(s, part) = 1..Len(s) - (m - 1)
        /\ \A i \in 1..Len(s) - (m - 1) : Trim(s, part)[i] = s[i + (m - 1)]
    <3>1. \A i \in 1..Len(s) - (m - 1) : SubSeq(s, m, Len(s))[i] = s[i + (m - 1)]
      BY <2>3, <1>s
    <3>2. /\ SubSeq(s, m, Len(s)) \in Seq(Pt) /\ Len(SubSeq(s, m, Len(s))) = Len(s) - (m - 1)
      BY <2>3, <1>s
    <3>3. DOMAIN SubSeq(s, m, Len(s)) = 1..Len(s) - (m - 1)
      BY <3>2
    <3>. QED
      BY <2>5, <3>1, <3>2, <3>3
  <2>7. m - 1 \in 0..Len(s) /\ (m - 1) + 1 = m /\ (m - 1 < Len(s) <=> m <= Len(s))
    BY <2>3, <1>s
  <2>. QED
    BY <2>3, <2>4, <2>6, <2>7, <1>1
<1>2. CASE window = NoWindow
  <2>1. Keep \in Nat
    BY NumbersAssumption
  <2>2. CASE Len(s) > Keep
    <3>1. Trim(s, part) = Tail(s)
      BY <1>2, <2>2 DEF Trim
    <3>2. Tail(s) \in Seq(Pt) /\ Len(Tail(s)) = Len(s) - 1 /\ \A i \in 1..Len(s) - 1 : Tail(s)[i] = s[i + 1]
      BY <1>s
    <3>3. DOMAIN Tail(s) = 1..Len(s) - 1
      BY <3>2
    <3>. QED
      BY <3>1, <3>2, <3>3, <1>2, <2>2, <1>s
  <2>3. CASE ~(Len(s) > Keep)
    <3>1. Trim(s, part) = s
      BY <1>2, <2>3 DEF Trim
    <3>2. 0 \in 0..Len(s) /\ Len(s) = Len(s) - 0 /\ \A i \in 1..Len(s) : i = i + 0
      BY <1>s
    <3>. QED
      BY <3>1, <3>2, <1>2, <2>3, <1>s
  <2>. QED
    BY <2>2, <2>3
<1>. QED
  BY <1>1, <1>2

\* The steps of a page with a chart.
LEMMA ChartSteps ==
    ASSUME Blank, [Next]_vars
    PROVE  \/ /\ UNCHANGED <<window, skew, asked, drawn, seen, read, points, doubled, rendered>>
              /\ joinedAt' = joinedAt \/ Join
           \/ \E w \in Windows : Click(w)
           \/ \E l \in loads : AnswerChart(l)
           \/ ReadingToChart
<1>. DEFINE same == /\ UNCHANGED <<window, skew, asked, drawn, seen, read, points, doubled, rendered>>
                    /\ joinedAt' = joinedAt \/ Join
<1>1. ASSUME \/ Tick \/ Insert \/ InsertFails \/ DeleteChannel \/ (\E v \in Reported : Notify(v))
             \/ Join \/ Lose
      PROVE  same
  BY <1>1 DEF Tick, Insert, InsertFails, DeleteChannel, Notify, Join, Lose, charts, page, link
<1>2. ASSUME NEW l \in loads, FindHistory(l) \/ ReadHistory(l) \/ ChartFails(l) PROVE same
  BY <1>2 DEF FindHistory, ReadHistory, ChartFails, page, link
<1>3. ~ReadingToFlag /\ ~FindFlag /\ ~get_flag_state /\ ~AnswerFlag /\ ~FlagFails
  BY DEF Blank, ReadingToFlag, FindFlag, get_flag_state, AnswerFlag, FlagFails
<1>4. ASSUME UNCHANGED vars PROVE same
  BY <1>4 DEF vars, charts, page, link
<1>. QED
  BY <1>1, <1>2, <1>3, <1>4 DEF Next

\* What comes onto the wire was notified just now.
LEMMA WireGrows ==
    ASSUME Server, Link, [Next]_vars
    PROVE  \A n \in OnWire' : n \in DOMAIN notes' /\ (n \in OnWire \/ n \notin DOMAIN notes)
<1>g. /\ Len(notes) \in Nat /\ Len(notes') \in Nat /\ Len(notes) <= Len(notes')
      /\ DOMAIN notes = 1..Len(notes) /\ DOMAIN notes' = 1..Len(notes')
  BY Grows
<1>l. wire \in Seq(Nat) /\ Len(wire) \in Nat /\ Len(wire) <= Len(notes)
  BY DEF Link
<1>0. /\ wire' \in Seq(Nat) /\ Len(wire') \in Nat /\ Len(wire') <= Len(notes')
  BY LinkStep DEF Link
<1>1. Edge \in Nat /\ Edge' \in Nat
  BY <1>g, <1>l, <1>0 DEF Edge
<1>2. Edge' >= Edge \/ Edge' = Len(notes')
  <2>1. ASSUME NEW v \in Values, Notify(v) PROVE Edge' >= Edge
    <3>1. Len(notes') = Len(notes) + 1 /\ wire' = IF socket = "joined" THEN Append(wire, Len(notes')) ELSE wire
      BY <2>1, NotifyKeeps DEF Notify
    <3>2. Len(wire') <= Len(wire) + 1
      BY <3>1, <1>l, <1>g
    <3>. QED
      BY <3>1, <3>2, <1>l, <1>g, <1>0 DEF Edge
  <2>2. ASSUME Join PROVE Edge' = Edge
    BY <2>2 DEF Join, server, Edge
  <2>3. ASSUME Lose PROVE Edge' = Len(notes')
    <3>1. wire' = <<>>
      BY <2>3 DEF Lose
    <3>. QED
      BY <3>1, <1>g DEF Edge
  <2>4. ASSUME Receive, UNCHANGED server PROVE Edge' >= Edge
    <3>1. Len(wire') = Len(wire) - 1 /\ notes' = notes
      BY <2>4, PushComes DEF server
    <3>. QED
      BY <3>1, <1>g, <1>l DEF Edge
  <2>5. ASSUME UNCHANGED <<notes, link, rendered>> PROVE Edge' = Edge
    BY <2>5 DEF link, Edge
  <2>. QED
    BY <2>1, <2>2, <2>3, <2>4, <2>5, <1>1, LinkSteps
<1>. SUFFICES ASSUME NEW n \in OnWire'
              PROVE  n \in DOMAIN notes' /\ (n \in OnWire \/ n \notin DOMAIN notes)
  OBVIOUS
<1>e. PICK e, f, k, m : e = Edge /\ f = Edge' /\ k = Len(notes) /\ m = Len(notes')
  OBVIOUS
<1>3. n \in f + 1..m
  BY <1>e DEF OnWire
<1>n. /\ e \in Nat /\ f \in Nat /\ k \in Nat /\ m \in Nat
      /\ f >= e \/ f = m
      /\ k <= m
  BY <1>e, <1>1, <1>2, <1>g
<1>4. n \in 1..m
  BY <1>3, <1>n
<1>5. n \in 1..k => n \in e + 1..k
  BY <1>3, <1>n
<1>. QED
  BY <1>4, <1>5, <1>e, <1>g DEF OnWire

LEMMA NoteTimes ==
    ASSUME Server
    PROVE  \A n \in ReadUpto(read) \cup Fetched : n \in DOMAIN notes /\ notes[n].at \in Nat
<1>1. \A n \in ReadUpto(read) \cup Fetched : n \in DOMAIN notes
  BY TableIs DEF ReadUpto, Fetched
<1>. QED
  BY <1>1, NotesType

LEMMA PushedType ==
    ASSUME Server, Link, ChartTypes
    PROVE  \A n : n \in Pushed <=> n \in Nat /\ n > seen /\ n > joinedAt /\ n <= rendered
<1>1. seen \in Nat /\ joinedAt \in Nat /\ rendered \in Nat
  BY DEF Link, ChartTypes
<1>2. Max({seen, joinedAt}) \in {seen, joinedAt} /\ Max({seen, joinedAt}) >= seen /\ Max({seen, joinedAt}) >= joinedAt
  BY <1>1, MaxOfTwo
<1>. QED
  BY <1>1, <1>2 DEF Pushed

\* The points stay in order while the server goes on.
LEMMA OrderedStays ==
    ASSUME Server, Link, ChartTypes, Ordered, [Next]_vars, points' = points, doubled' = doubled
    PROVE  Ordered'
<1>1. \A i \in DOMAIN points : /\ Sound(points[i])'
                               /\ \A n \in DOMAIN notes' : n \notin DOMAIN notes => points[i].at <= notes'[n].at
  <2>. SUFFICES ASSUME NEW i \in DOMAIN points
                PROVE  /\ Sound(points[i])'
                       /\ \A n \in DOMAIN notes' : n \notin DOMAIN notes => points[i].at <= notes'[n].at
    OBVIOUS
  <2>1. PICK p : p = points[i]
    OBVIOUS
  <2>2. p \in Pt /\ Sound(p)
    BY <2>1, PointsType DEF ChartTypes, Ordered
  <2>3. Sound(p)' /\ \A n \in DOMAIN notes' : n \notin DOMAIN notes => p.at <= notes'[n].at
    BY <2>2, SoundStays
  <2>. QED
    BY <2>1, <2>3 DEF Sound
<1>2. \A n \in DOMAIN notes : notes'[n] = notes[n]
  BY Grows
<1>3. ~doubled => \A i \in DOMAIN points : \A n \in OnWire' : points[i].at <= notes'[n].at
  <2>. SUFFICES ASSUME ~doubled, NEW i \in DOMAIN points, NEW n \in OnWire'
                PROVE  points[i].at <= notes'[n].at
    OBVIOUS
  <2>1. n \in DOMAIN notes' /\ (n \in OnWire \/ n \notin DOMAIN notes)
    BY WireGrows
  <2>2. n \in DOMAIN notes => points[i].at <= notes[n].at
    BY <2>1 DEF Ordered
  <2>. QED
    BY <2>1, <2>2, <1>1, <1>2
<1>4. InOrder(points)' <=> InOrder(points)
  BY DEF InOrder
<1>. QED
  BY <1>1, <1>3, <1>4 DEF Ordered

\* What is and stays in the chart while the server goes on.
LEMMA PointsStay ==
    ASSUME Blank, Server, Link, Points, [Next]_vars, joinedAt' = joinedAt \/ Join,
           UNCHANGED <<window, skew, asked, drawn, seen, read, points, doubled, rendered>>
    PROVE  Points'
<1>u. /\ window' = window /\ skew' = skew /\ asked' = asked /\ drawn' = drawn /\ seen' = seen
      /\ read' = read /\ points' = points /\ doubled' = doubled /\ rendered' = rendered
  OBVIOUS
<1>t. /\ ChartTypes /\ window \in Windows \cup {NoWindow} /\ skew \in Int
      /\ seen \in Nat /\ seen <= rendered /\ Past(read)
  BY DEF Points, ChartTypes
<1>g. /\ clock \in Nat /\ clock' \in Nat /\ clock <= clock'
      /\ Len(notes) \in Nat /\ Len(notes') \in Nat /\ Len(notes) <= Len(notes')
      /\ \A n \in DOMAIN notes : notes'[n] = notes[n] /\ notes[n].at \in Nat
  BY Grows
<1>f. Past(read)' /\ (Fetched' = Fetched \/ Fetched' = {})
  <2>1. PICK r : r = read
    OBVIOUS
  <2>2. Past(r)' /\ (ReadUpto(r)' = ReadUpto(r) \/ ReadUpto(r)' = {})
    BY <2>1, <1>t, Grows
  <2>3. Fetched = ReadUpto(r) /\ Fetched' = ReadUpto(r)'
    BY <2>1, <1>u DEF Fetched, ReadUpto
  <2>. QED
    BY <2>1, <2>2, <2>3, <1>u DEF Past
<1>p. Pushed' = Pushed \/ Pushed' = {}
  <2>1. CASE joinedAt' = joinedAt
    BY <2>1, <1>u DEF Pushed
  <2>2. CASE Join
    <3>1. rendered = 0 /\ seen = 0 /\ joinedAt' = Len(notes)
      BY <2>2, <1>t DEF Join, Link
    <3>2. PICK m : m = Max({seen, joinedAt'})
      OBVIOUS
    <3>3. m \in Int /\ m >= 0
      <4>1. seen \in Int /\ joinedAt' \in Int
        BY <3>1, <1>g
      <4>2. m \in Int /\ m >= seen
        BY <3>2, <4>1, MaxType
      <4>. QED
        BY <3>1, <4>2
    <3>4. Pushed' = m + 1..0
      BY <3>1, <3>2, <1>u DEF Pushed
    <3>. QED
      BY <3>3, <3>4
  <2>. QED
    BY <2>1, <2>2
<1>1. ChartTypes'
  BY <1>u, <1>f DEF Points, ChartTypes
<1>2. Ordered'
  BY <1>t, <1>u, OrderedStays DEF Points
<1>3. InWindow'
  <2>. SUFFICES ASSUME window # NoWindow, drawn = asked, NEW n \in Fetched' \cup Pushed',
                       notes'[n].at >= clock' + Max({skew + 1, 0}) - window
                PROVE  Has(points, n)
    BY <1>u DEF InWindow, Has
  <2>1. n \in Fetched \cup Pushed
    BY <1>f, <1>p
  <2>2. n \in DOMAIN notes
    <3>1. n \in Fetched => n \in DOMAIN notes
      BY NoteTimes
    <3>2. n \in Pushed => n \in DOMAIN notes
      <4>1. rendered \in Nat /\ rendered <= Len(notes) /\ DOMAIN notes = 1..Len(notes)
        BY NotesType DEF Link
      <4>. QED
        BY <4>1, <1>t, <1>g, PushedType
    <3>. QED
      BY <2>1, <3>1, <3>2
  <2>3. window \in Nat /\ Max({skew + 1, 0}) \in Int
    BY <1>t, NumbersAssumption, MaxUses
  <2>4. notes[n].at >= clock + Max({skew + 1, 0}) - window
    BY <2>2, <2>3, <1>g
  <2>. QED
    BY <2>1, <2>4 DEF Points, InWindow
<1>4. InLine'
  <2>. SUFFICES ASSUME window = NoWindow
                PROVE  /\ Len(points) <= Max({Limit, Keep})
                       /\ \A n \in Pushed' : rendered - n < Keep => AtEnd(points, n, rendered - n)
                       /\ Cardinality(Fetched') <= Limit =>
                             \A n \in Fetched' :
                                LET d == Cardinality(After(Fetched', n)) + (rendered - seen)
                                IN  d < Keep => AtEnd(points, n, d)
    BY <1>u DEF InLine, AtEnd
  <2>. QED
    BY <1>f, <1>p DEF Points, InLine
<1>. QED
  BY <1>1, <1>2, <1>3, <1>4 DEF Points

\* Selecting a window sends a fetch, which is then the last one.
LEMMA ClickStep ==
    ASSUME Server, Link, Points, NEW w \in Windows, Click(w), asked' <= MaxLoads
    PROVE  Points'
<1>1. /\ window' = w /\ asked' = asked + 1 /\ w # NoWindow /\ window # NoWindow
      /\ UNCHANGED <<skew, drawn, seen, read, points, doubled, rendered, joinedAt>>
      /\ UNCHANGED <<clock, notes, table, accepted, wire>>
  BY NumbersAssumption DEF Click, server, link, page
<1>2. ChartTypes'
  BY <1>1, NumbersAssumption DEF Points, ChartTypes, Past
<1>3. Ordered'
  BY <1>1 DEF Points, Ordered, Sound, InOrder, OnWire, Edge
<1>4. InWindow' /\ InLine'
  <2>1. drawn \in 0..asked /\ asked \in Nat
    BY NumbersAssumption DEF Points, ChartTypes
  <2>2. drawn' # asked' /\ window' # NoWindow
    BY <2>1, <1>1
  <2>. QED
    BY <2>2 DEF InWindow, InLine
<1>. QED
  BY <1>2, <1>3, <1>4 DEF Points

\* An answer is drawn instead of what was there.
LEMMA AnswerStep ==
    ASSUME Server, Link, Loads, Points, NEW l \in loads, AnswerChart(l)
    PROVE  Points'
<1>1. /\ points' = l.points /\ seen' = rendered /\ drawn' = l.no /\ read' = l.read
      /\ doubled' = \E n \in Range(wire) : n <= l.read
      /\ UNCHANGED <<clock, notes, table, accepted, wire, joinedAt>>
      /\ UNCHANGED <<skew, window, asked, rendered>>
  BY DEF AnswerChart, server, link, page
<1>a. /\ l \in Fetch /\ l.no <= asked /\ l.no >= 1 /\ Past(l.read)
      /\ l.window = NoWindow <=> window = NoWindow
      /\ l.no = asked => l.window = window
      /\ Answer(l)
  BY DEF Loads
<1>f. Fetched' = ReadUpto(l.read)
  BY <1>1 DEF Fetched, ReadUpto
<1>t. /\ window \in Windows \cup {NoWindow} /\ skew \in Int /\ asked \in 1..MaxLoads /\ asked \in Nat
      /\ rendered \in Nat /\ joinedAt \in Nat /\ clock \in Nat
      /\ Keep \in Nat \ {0} /\ Limit \in Nat \ {0}
  BY NumbersAssumption DEF Points, ChartTypes, Link, Server
<1>p. Pushed' = {}
  <2>1. Max({rendered, joinedAt}) >= rendered /\ Max({rendered, joinedAt}) \in Int
    BY <1>t, MaxType
  <2>2. Pushed' = Max({rendered, joinedAt}) + 1..rendered
    BY <1>1 DEF Pushed
  <2>. QED
    BY <2>1, <2>2, <1>t
<1>2. ChartTypes'
  <2>1. l.points \in Seq(Pt) /\ l.no \in Nat
    BY <1>a, FetchType
  <2>2. doubled' \in BOOLEAN
    BY <1>1
  <2>. QED
    BY <2>1, <2>2, <1>1, <1>a, <1>t DEF ChartTypes, Past
<1>3. Ordered'
  <2>1. InOrder(points)'
    BY <1>1, <1>a DEF Answer, InOrder
  <2>2. \A i \in DOMAIN points' : Sound(points[i])'
    BY <1>1, <1>a DEF Answer, Sound
  <2>3. ASSUME ~doubled', NEW i \in DOMAIN l.points, NEW n \in OnWire' PROVE l.points[i].at <= notes'[n].at
    <3>0. PICK e, k, m : e = Edge /\ k = Len(wire) /\ m = Len(notes)
      OBVIOUS
    <3>1. /\ wire \in Seq(Nat) /\ k \in Nat /\ k <= m /\ m \in Nat /\ e = m - k
          /\ \A j \in 1..k : wire[j] = e + j
      BY <3>0, NotesType DEF Link, Edge
    <3>2. n \in e + 1..m
      BY <3>0, <1>1 DEF OnWire, Edge
    <3>3. n - e \in 1..k /\ n = e + (n - e) /\ n \in 1..m
      BY <3>1, <3>2
    <3>4. wire[n - e] = n /\ n - e \in DOMAIN wire
      <4>1. wire[n - e] = e + (n - e)
        BY <3>1, <3>3
      <4>2. DOMAIN wire = 1..k
        BY <3>0, <3>1
      <4>. QED
        BY <3>3, <4>1, <4>2
    <3>5. n \in Range(wire)
      BY <3>4 DEF Range
    <3>6. n > l.read
      BY <3>3, <3>5, <2>3, <1>1, <1>a DEF Past
    <3>7. n \in DOMAIN notes
      BY <3>0, <3>3, NotesType
    <3>. QED
      BY <3>6, <3>7, <1>1, <1>a DEF Answer
  <2>. QED
    BY <2>1, <2>2, <2>3, <1>1 DEF Ordered
<1>4. InWindow'
  <2>. SUFFICES ASSUME window # NoWindow, l.no = asked, NEW n \in ReadUpto(l.read),
                       notes[n].at >= clock + Max({skew + 1, 0}) - window
                PROVE  Has(l.points, n)
    BY <1>1, <1>f, <1>p DEF InWindow, Has
  <2>1. l.window = window /\ window \in Nat
    BY <1>a, <1>t, NumbersAssumption
  <2>2. notes[n].at \in Nat
    BY TableIs DEF ReadUpto
  <2>3. Max({skew + 1, 0}) >= 0 /\ Max({skew + 1, 0}) \in Int
    BY <1>t, MaxUses
  <2>4. notes[n].at >= clock - l.window
    BY <2>1, <2>2, <2>3, <1>t
  <2>. QED
    BY <2>1, <2>4, <1>a DEF Answer
<1>5. InLine'
  <2>. SUFFICES ASSUME window = NoWindow
                PROVE  /\ Len(l.points) <= Max({Limit, Keep})
                       /\ Cardinality(ReadUpto(l.read)) <= Limit =>
                             \A n \in ReadUpto(l.read) :
                                LET d == Cardinality(After(ReadUpto(l.read), n)) + (rendered - rendered)
                                IN  d < Keep => AtEnd(l.points, n, d)
    BY <1>1, <1>f, <1>p DEF InLine, AtEnd
  <2>1. l.window = NoWindow
    BY <1>a
  <2>2. /\ Len(l.points) <= Limit /\ Len(l.points) \in Nat
        /\ Cardinality(ReadUpto(l.read)) <= Limit =>
              \A n \in ReadUpto(l.read) : AtEnd(l.points, n, Cardinality(After(ReadUpto(l.read), n)))
    BY <2>1, <1>a, FetchType DEF Answer
  <2>3. Max({Limit, Keep}) >= Limit /\ Max({Limit, Keep}) \in Int
    BY <1>t, MaxUses
  <2>4. ASSUME NEW n \in ReadUpto(l.read)
        PROVE  Cardinality(After(ReadUpto(l.read), n)) + (rendered - rendered)
                  = Cardinality(After(ReadUpto(l.read), n))
    <3>1. l.read \in Nat
      BY <1>a DEF Past
    <3>2. IsFiniteSet(ReadUpto(l.read)) /\ After(ReadUpto(l.read), n) \in SUBSET ReadUpto(l.read)
      BY <3>1, ReadUptoFinite DEF After
    <3>3. Cardinality(After(ReadUpto(l.read), n)) \in Nat
      BY <3>2, FS_Subset, FS_CardinalityType
    <3>. QED
      BY <3>3, <1>t
  <2>. QED
    BY <2>2, <2>3, <2>4, <1>t
<1>. QED
  BY <1>2, <1>3, <1>4, <1>5 DEF Points

\* A push is added behind the points, and the first k points are dropped: those before the
\* earlier or the later cutoff.
Pushing(s, k) ==
    /\ s \in Seq(Pt) /\ Len(s) = Len(points) + 1 /\ k \in 0..Len(s)
    /\ \A i \in 1..Len(points) : s[i] = points[i]
    /\ s[Len(s)].notes = {Edge + 1}
    /\ \A i \in 1..Len(s) : Sound(s[i])
    /\ ~doubled => /\ InOrder(s)
                   /\ \A i \in 1..Len(s) : \A n \in Edge + 2..Len(notes) : s[i].at <= notes[n].at
    /\ points' \in Seq(Pt) /\ Len(points') = Len(s) - k
    /\ \A i \in 1..Len(s) - k : points'[i] = s[i + k]
    /\ window # NoWindow => /\ \A i \in 1..k : s[i].at < Cutoff(1)
                            /\ k < Len(s) => s[k + 1].at >= Cutoff(0)
    /\ window = NoWindow => k = IF Len(s) > Keep THEN 1 ELSE 0

LEMMA PushIs ==
    ASSUME Server, Link, ChartTypes, Ordered, ReadingToChart
    PROVE  \E s, k : Pushing(s, k)
<1>. DEFINE e == Edge
<1>1. /\ e \in Nat /\ e + 1 <= Len(notes) /\ Len(notes) \in Nat /\ Head(wire) = e + 1
      /\ DOMAIN notes = 1..Len(notes)
  BY PushComes, NotesType DEF ReadingToChart
<1>2. PICK p : p = [at |-> notes[e + 1].at, notes |-> {e + 1}]
  OBVIOUS
<1>3. PICK s : s = Append(points, p)
  OBVIOUS
<1>4. PICK part \in {0, 1} : points' = Trim(s, part)
  BY <1>1, <1>2, <1>3 DEF ReadingToChart
<1>. HIDE DEF e
<1>n. e + 1 \in DOMAIN notes /\ notes[e + 1].at \in Nat /\ notes[e + 1].at <= clock
  BY <1>1, NotesType DEF Server
<1>5. p \in Pt /\ p.at = notes[e + 1].at /\ p.notes = {e + 1}
  BY <1>1, <1>2, <1>n DEF Pt
<1>l. /\ points \in Seq(Pt) /\ Len(points) \in Nat /\ DOMAIN points = 1..Len(points)
      /\ \A i \in DOMAIN points : points[i].at \in Nat
  BY PointsType DEF ChartTypes
<1>6. /\ s \in Seq(Pt) /\ Len(s) = Len(points) + 1 /\ DOMAIN s = 1..Len(points) + 1
      /\ \A i \in 1..Len(points) : s[i] = points[i]
      /\ s[Len(points) + 1] = p
  BY <1>3, <1>5, <1>l
<1>7. \A i \in 1..Len(s) : Sound(s[i])
  <2>1. Sound(p)
    BY <1>5, <1>n DEF Sound
  <2>2. \A i \in 1..Len(points) : Sound(points[i])
    BY <1>l DEF Ordered
  <2>3. \A i \in 1..Len(s) : i \in 1..Len(points) \/ i = Len(points) + 1
    BY <1>6, <1>l
  <2>. QED
    BY <1>6, <2>1, <2>2, <2>3
<1>o. \A n \in e + 1..Len(notes) : n \in OnWire
  BY DEF OnWire, e
<1>8. ASSUME ~doubled
      PROVE  /\ InOrder(s)
             /\ \A i \in 1..Len(s) : \A n \in e + 2..Len(notes) : s[i].at <= notes[n].at
  <2>1. /\ \A i \in 1..Len(points) : \A n \in e + 1..Len(notes) : points[i].at <= notes[n].at
        /\ \A i, j \in 1..Len(points) : i < j => points[i].at <= points[j].at
    BY <1>8, <1>l, <1>o DEF Ordered, InOrder
  <2>2. \A i \in 1..Len(points) : points[i].at <= p.at
    BY <2>1, <1>1, <1>5
  <2>3. \A n \in e + 2..Len(notes) : p.at <= notes[n].at
    <3>. SUFFICES ASSUME NEW n \in e + 2..Len(notes) PROVE notes[e + 1].at <= notes[n].at
      BY <1>5
    <3>1. n \in DOMAIN notes /\ e + 1 < n
      BY <1>1
    <3>. QED
      BY <3>1, <1>n DEF Server
  <2>4. InOrder(s)
    <3>. SUFFICES ASSUME NEW i \in 1..Len(points) + 1, NEW j \in 1..Len(points) + 1, i < j
                  PROVE  s[i].at <= s[j].at
      BY <1>6 DEF InOrder
    <3>1. i \in 1..Len(points) /\ (j \in 1..Len(points) \/ j = Len(points) + 1)
      BY <1>l
    <3>. QED
      BY <3>1, <2>1, <2>2, <1>6
  <2>5. ASSUME NEW i \in 1..Len(s), NEW n \in e + 2..Len(notes) PROVE s[i].at <= notes[n].at
    <3>1. CASE i \in 1..Len(points)
      <4>1. n \in e + 1..Len(notes)
        BY <1>1
      <4>. QED
        BY <3>1, <4>1, <2>1, <1>6
    <3>2. CASE i = Len(points) + 1
      BY <3>2, <2>3, <1>6
    <3>. QED
      BY <3>1, <3>2, <1>6, <1>l
  <2>. QED
    BY <2>4, <2>5
<1>c. window # NoWindow => /\ Cutoff(part) \in Int /\ Cutoff(0) \in Int /\ Cutoff(1) \in Int
                           /\ Cutoff(0) <= Cutoff(part) /\ Cutoff(part) <= Cutoff(1)
  BY NumbersAssumption DEF ChartTypes, Server, Cutoff
<1>9. PICK k \in 0..Len(s) :
              /\ Trim(s, part) \in Seq(Pt) /\ Len(Trim(s, part)) = Len(s) - k
              /\ \A i \in 1..Len(s) - k : Trim(s, part)[i] = s[i + k]
              /\ window # NoWindow => /\ \A j \in 1..k : s[j].at < Cutoff(part)
                                      /\ k < Len(s) => s[k + 1].at >= Cutoff(part)
              /\ window = NoWindow => k = IF Len(s) > Keep THEN 1 ELSE 0
  <2>1. s # <<>>
    BY <1>6, <1>l
  <2>. QED
    BY <2>1, <1>c, <1>6, TrimIs DEF ChartTypes
<1>10. window # NoWindow => /\ \A j \in 1..k : s[j].at < Cutoff(1)
                            /\ k < Len(s) => s[k + 1].at >= Cutoff(0)
  <2>. SUFFICES ASSUME window # NoWindow
                PROVE  /\ \A j \in 1..k : s[j].at < Cutoff(1)
                       /\ k < Len(s) => s[k + 1].at >= Cutoff(0)
    OBVIOUS
  <2>1. PICK x, y, z : x = Cutoff(0) /\ y = Cutoff(part) /\ z = Cutoff(1)
    OBVIOUS
  <2>2. x \in Int /\ y \in Int /\ z \in Int /\ x <= y /\ y <= z
    BY <1>c, <2>1
  <2>3. Len(s) \in Nat /\ \A i \in 1..Len(s) : s[i].at \in Nat
    BY <1>6, PointsType
  <2>4. ASSUME NEW j \in 1..k PROVE s[j].at < z
    <3>1. s[j].at \in Nat /\ s[j].at < y
      BY <1>9, <2>1, <2>3
    <3>. QED
      BY <2>2, <3>1
  <2>5. ASSUME k < Len(s) PROVE s[k + 1].at >= x
    <3>1. s[k + 1].at \in Nat /\ s[k + 1].at >= y
      BY <1>9, <2>1, <2>3, <2>5
    <3>. QED
      BY <2>2, <3>1
  <2>. QED
    BY <2>1, <2>4, <2>5
<1>. QED
  BY <1>4, <1>5, <1>6, <1>7, <1>8, <1>9, <1>10 DEF Pushing, e

\* What the dropping leaves: a point of s that is behind the first k.
LEMMA PushLeaves ==
    ASSUME NEW s, NEW k, Pushing(s, k)
    PROVE  /\ Len(s) \in Nat /\ k \in Nat /\ k <= Len(s) /\ DOMAIN s = 1..Len(s)
           /\ DOMAIN points' = 1..Len(s) - k
           /\ \A i \in 1..Len(s) : i > k => i - k \in DOMAIN points' /\ points'[i - k] = s[i]
           /\ \A i \in DOMAIN points' : i + k \in 1..Len(s) /\ points'[i] = s[i + k]
           /\ \A i \in 1..Len(s) : s[i].at \in Nat
<1>1. /\ s \in Seq(Pt) /\ k \in 0..Len(s) /\ points' \in Seq(Pt) /\ Len(points') = Len(s) - k
      /\ \A i \in 1..Len(s) - k : points'[i] = s[i + k]
  BY DEF Pushing
<1>2. /\ Len(s) \in Nat /\ DOMAIN s = 1..Len(s) /\ \A i \in DOMAIN s : s[i].at \in Nat
  BY <1>1, PointsType
<1>3. k \in Nat /\ k <= Len(s) /\ DOMAIN points' = 1..Len(s) - k
  BY <1>1, <1>2
<1>4. ASSUME NEW i \in 1..Len(s), i > k PROVE i - k \in 1..Len(s) - k /\ points'[i - k] = s[i]
  <2>1. i - k \in 1..Len(s) - k /\ (i - k) + k = i
    BY <1>2, <1>3, <1>4
  <2>. QED
    BY <1>1, <2>1
<1>5. ASSUME NEW i \in 1..Len(s) - k PROVE i + k \in 1..Len(s) /\ points'[i] = s[i + k]
  <2>1. i + k \in 1..Len(s)
    BY <1>2, <1>3
  <2>. QED
    BY <1>1, <2>1
<1>. QED
  BY <1>2, <1>3, <1>4, <1>5

\* A push keeps the order.
LEMMA PushOrdered ==
    ASSUME Server, Link, Points, ReadingToChart
    PROVE  Ordered'
<1>1. PICK s, k : Pushing(s, k)
  BY PushIs DEF Points
<1>2. clock' = clock /\ notes' = notes /\ doubled' = doubled
  BY DEF ReadingToChart, server
<1>3. OnWire' = Edge + 2..Len(notes)
  <2>1. wire' \in Seq(Nat) /\ Len(wire') = Len(wire) - 1 /\ Len(wire) \in Nat /\ Len(notes) \in Nat
    BY PushComes DEF ReadingToChart
  <2>2. Edge' + 1 = Edge + 2
    BY <2>1, <1>2 DEF Edge
  <2>. QED
    BY <2>2, <1>2 DEF OnWire
<1>4. ASSUME NEW i \in DOMAIN points' PROVE Sound(points[i])'
  <2>1. Sound(s[i + k]) /\ points'[i] = s[i + k]
    BY <1>1, PushLeaves DEF Pushing
  <2>. QED
    BY <2>1, <1>2 DEF Sound
<1>5. ASSUME ~doubled
      PROVE  InOrder(points)' /\ \A i \in DOMAIN points' : \A n \in OnWire' : points'[i].at <= notes'[n].at
  <2>1. \A i \in DOMAIN points' : i + k \in 1..Len(s) /\ points'[i] = s[i + k] /\ i \in Nat
    BY <1>1, PushLeaves
  <2>2. /\ \A i, j \in 1..Len(s) : i < j => s[i].at <= s[j].at
        /\ \A i \in 1..Len(s) : \A n \in Edge + 2..Len(notes) : s[i].at <= notes[n].at
    <3>1. DOMAIN s = 1..Len(s)
      BY <1>1, PushLeaves
    <3>. QED
      BY <1>1, <1>5, <3>1 DEF Pushing, InOrder
  <2>3. ASSUME NEW i \in DOMAIN points', NEW j \in DOMAIN points', i < j
        PROVE  points'[i].at <= points'[j].at
    <3>1. k \in Nat
      BY <1>1, PushLeaves
    <3>2. i + k < j + k
      BY <2>1, <2>3, <3>1
    <3>. QED
      BY <2>1, <2>2, <3>2
  <2>. QED
    BY <2>1, <2>2, <2>3, <1>2, <1>3 DEF InOrder
<1>. QED
  BY <1>2, <1>4, <1>5 DEF Ordered

\* With a window nothing that is left is older than it, unless an answer had overtaken
\* a push.
LEMMA PushTrims ==
    ASSUME Server, Link, Points, ReadingToChart, window # NoWindow, ~doubled,
           NEW i \in DOMAIN points'
    PROVE  points'[i].at >= Cutoff(0)
<1>1. PICK s, k : Pushing(s, k)
  BY PushIs DEF Points
<1>2. /\ i + k \in 1..Len(s) /\ points'[i] = s[i + k] /\ k \in Nat /\ DOMAIN s = 1..Len(s)
      /\ Len(s) \in Nat /\ i \in Nat /\ i >= 1
      /\ \A j \in 1..Len(s) : s[j].at \in Nat
  BY <1>1, PushLeaves
<1>3. k + 1 \in 1..Len(s) /\ k < Len(s) /\ (k + 1 < i + k \/ k + 1 = i + k)
  BY <1>2
<1>4. s[k + 1].at >= Cutoff(0) /\ InOrder(s)
  BY <1>1, <1>3 DEF Pushing
<1>5. s[k + 1].at <= s[i + k].at
  <2>1. k + 1 < i + k => s[k + 1].at <= s[i + k].at
    BY <1>2, <1>3, <1>4 DEF InOrder
  <2>2. s[k + 1].at \in Nat
    BY <1>2, <1>3
  <2>3. k + 1 = i + k => s[k + 1].at <= s[i + k].at
    BY <2>2
  <2>. QED
    BY <1>3, <2>1, <2>3
<1>6. Cutoff(0) \in Int
  BY NumbersAssumption DEF Points, ChartTypes, Server, Cutoff
<1>7. PICK x, y, c : x = s[k + 1].at /\ y = s[i + k].at /\ c = Cutoff(0)
  OBVIOUS
<1>8. x \in Nat /\ y \in Nat /\ c \in Int /\ x >= c /\ x <= y
  BY <1>2, <1>3, <1>4, <1>5, <1>6, <1>7
<1>. QED
  BY <1>2, <1>7, <1>8

\* A push adds itself to what was given.
LEMMA PushAdds ==
    ASSUME Server, Link, ChartTypes, ReadingToChart
    PROVE  /\ rendered' = Edge + 1 /\ Edge \in Nat /\ seen' = seen
           /\ Fetched' = Fetched
           /\ rendered = Edge \/ (rendered = 0 /\ seen = 0)
           /\ \A n \in Pushed' : n \in Nat /\ (n = Edge + 1 \/ (n \in Pushed /\ rendered = Edge))
<1>1. /\ rendered' = Edge + 1 /\ Edge \in Nat /\ seen' = seen /\ joinedAt' = joinedAt
      /\ (rendered = Edge /\ joinedAt < Edge) \/ (rendered = 0 /\ joinedAt = Edge)
  BY PushComes DEF ReadingToChart
<1>2. Fetched' = Fetched
  BY DEF ReadingToChart, server, Fetched
<1>3. seen \in Nat /\ seen <= rendered /\ joinedAt \in Nat
  BY DEF ChartTypes, Link
<1>4. PICK m, e : m = Max({seen, joinedAt}) /\ e = Edge
  OBVIOUS
<1>5. m \in Int /\ m >= seen /\ m >= joinedAt
  <2>1. seen \in Int /\ joinedAt \in Int
    BY <1>3
  <2>. QED
    BY <2>1, <1>4, MaxType
<1>6. Pushed' = m + 1..e + 1 /\ Pushed = m + 1..rendered
  BY <1>1, <1>4 DEF Pushed
<1>e. /\ e \in Nat
      /\ (rendered = e /\ joinedAt < e) \/ (rendered = 0 /\ joinedAt = e)
  BY <1>1, <1>4
<1>7. ASSUME NEW n \in m + 1..e + 1
      PROVE  n \in Nat /\ (n = e + 1 \/ (n \in m + 1..rendered /\ rendered = e))
  BY <1>3, <1>5, <1>e
<1>8. rendered = Edge \/ (rendered = 0 /\ seen = 0)
  BY <1>1, <1>3
<1>9. ASSUME NEW n \in Pushed' PROVE n \in Nat /\ (n = Edge + 1 \/ (n \in Pushed /\ rendered = Edge))
  BY <1>4, <1>6, <1>7
<1>. QED
  BY <1>1, <1>2, <1>8, <1>9

\* With a window, what is dropped has left it.
LEMMA PushInWindow ==
    ASSUME Server, Link, Points, ReadingToChart
    PROVE  InWindow'
<1>1. PICK s, k : Pushing(s, k)
  BY PushIs DEF Points
<1>u. /\ UNCHANGED <<clock, notes, table, accepted>>
      /\ UNCHANGED <<window, skew, asked, drawn, read>>
  BY DEF ReadingToChart, server, page
<1>t. ChartTypes /\ skew \in Int /\ clock \in Nat /\ window \in Windows \cup {NoWindow}
  BY DEF Points, ChartTypes, Server
<1>. SUFFICES ASSUME window # NoWindow, drawn = asked, NEW n \in Fetched' \cup Pushed',
                     notes[n].at >= clock + Max({skew + 1, 0}) - window
              PROVE  \E i \in DOMAIN points' : n \in points'[i].notes
  BY <1>u DEF InWindow, Has
<1>a. /\ rendered' = Edge + 1 /\ Fetched' = Fetched
      /\ \A m \in Pushed' : m = Edge + 1 \/ m \in Pushed
  BY <1>t, PushAdds
<1>2. PICK i \in 1..Len(s) : n \in s[i].notes
  <2>1. CASE n \in Fetched \cup Pushed
    <3>1. PICK i \in DOMAIN points : n \in points[i].notes
      BY <2>1 DEF Points, InWindow, Has
    <3>2. /\ Len(points) \in Nat /\ DOMAIN points = 1..Len(points)
      BY PointsType DEF Points, ChartTypes
    <3>3. Len(s) = Len(points) + 1 /\ \A j \in 1..Len(points) : s[j] = points[j]
      BY <1>1 DEF Pushing
    <3>4. i \in 1..Len(s) /\ s[i] = points[i]
      BY <3>2, <3>3
    <3>. QED
      BY <3>1, <3>4
  <2>2. CASE n = Edge + 1
    <3>1. s[Len(s)].notes = {Edge + 1} /\ Len(s) = Len(points) + 1
      BY <1>1 DEF Pushing
    <3>2. Len(points) \in Nat
      BY PointsType DEF Points, ChartTypes
    <3>3. Len(s) \in 1..Len(s)
      BY <3>1, <3>2
    <3>. QED
      BY <2>2, <3>1, <3>3
  <2>. QED
    BY <2>1, <2>2, <1>a
<1>3. n \in DOMAIN notes /\ notes[n].at <= s[i].at /\ notes[n].at \in Nat /\ s[i].at \in Nat
  <2>1. n \in DOMAIN notes /\ notes[n].at <= s[i].at
    BY <1>1, <1>2 DEF Pushing, Sound
  <2>. QED
    BY <2>1, <1>1, PushLeaves, NotesType
<1>4. i > k
  <2>1. window \in Nat /\ Max({skew + 1, 0}) \in Int /\ Max({skew + 1, 0}) >= skew + 1
    BY <1>t, NumbersAssumption, MaxUses
  <2>2. PICK c, x, w : c = Cutoff(1) /\ x = Max({skew + 1, 0}) /\ w = window
    OBVIOUS
  <2>3. c = clock + skew + 1 - w
    BY <2>2 DEF Cutoff
  <2>4. s[i].at >= c
    BY <1>3, <1>t, <2>1, <2>2, <2>3
  <2>5. \A j \in 1..k : s[j].at < c
    BY <1>1, <2>2 DEF Pushing
  <2>6. c \in Int
    BY <1>t, <2>1, <2>2, <2>3
  <2>7. i \notin 1..k
    BY <1>3, <2>4, <2>5, <2>6
  <2>8. k \in Nat /\ i \in Nat /\ i >= 1
    BY <1>1, PushLeaves
  <2>. QED
    BY <2>7, <2>8
<1>5. i - k \in DOMAIN points' /\ points'[i - k] = s[i]
  <2>1. \A j \in 1..Len(s) : j > k => j - k \in DOMAIN points' /\ points'[j - k] = s[j]
    BY <1>1, PushLeaves
  <2>. QED
    BY <2>1, <1>2, <1>4
<1>. QED
  BY <1>2, <1>5

\* Without a window only the first point is dropped, and only when there are Keep behind
\* it: what was given last moves one point away from the end.
LEMMA PushMoves ==
    ASSUME Points, window = NoWindow, NEW s, NEW k, Pushing(s, k),
           NEW n, NEW d \in Nat, NEW f \in Nat, AtEnd(points, n, d), d < f, f < Keep
    PROVE  \E i \in DOMAIN points' : n \in points'[i].notes /\ Len(points') - i <= f
<1>1. PICK i \in DOMAIN points : n \in points[i].notes /\ Len(points) - i <= d
  BY DEF AtEnd
<1>2. PICK g : g = Len(points)
  OBVIOUS
<1>3. g \in Nat /\ i \in 1..g
  BY <1>2, PointsType DEF Points, ChartTypes
<1>4. /\ Len(s) = g + 1 /\ s[i] = points[i] /\ Len(points') = g + 1 - k
      /\ k = IF g + 1 > Keep THEN 1 ELSE 0
  BY <1>2, <1>3 DEF Pushing
<1>5. Keep \in Nat /\ g - i <= d
  BY <1>1, <1>2, NumbersAssumption
<1>6. i > k /\ i \in 1..g + 1 /\ (g + 1 - k) - (i - k) <= f
  BY <1>3, <1>4, <1>5
<1>7. i - k \in DOMAIN points' /\ points'[i - k] = s[i]
  BY <1>4, <1>6, PushLeaves
<1>. QED
  BY <1>1, <1>4, <1>6, <1>7

LEMMA PushInLine ==
    ASSUME Server, Link, Points, ReadingToChart
    PROVE  InLine'
<1>1. PICK s, k : Pushing(s, k)
  BY PushIs DEF Points
<1>u. UNCHANGED <<window, read>>
  BY DEF ReadingToChart
<1>t. ChartTypes /\ seen \in Nat /\ seen <= rendered /\ rendered \in Nat
  BY DEF Points, ChartTypes, Link
<1>a. /\ rendered' = Edge + 1 /\ Edge \in Nat /\ seen' = seen /\ Fetched' = Fetched
      /\ rendered = Edge \/ (rendered = 0 /\ seen = 0)
      /\ \A n \in Pushed' : n \in Nat /\ (n = Edge + 1 \/ (n \in Pushed /\ rendered = Edge))
  BY <1>t, PushAdds
<1>p. Keep \in Nat \ {0} /\ Len(points) \in Nat
  BY PointsType, NumbersAssumption DEF Points, ChartTypes
<1>. SUFFICES ASSUME window = NoWindow PROVE InLine'
  BY <1>u DEF InLine
<1>k. /\ Len(s) = Len(points) + 1 /\ Len(points') = Len(s) - k
      /\ k = IF Len(s) > Keep THEN 1 ELSE 0
  BY <1>1 DEF Pushing
<1>2. Len(points') <= Max({Limit, Keep})
  <2>1. PICK m : m = Max({Limit, Keep})
    OBVIOUS
  <2>2. m \in Int /\ m >= Keep /\ Len(points) <= m
    BY <2>1, <1>t, MaxUses DEF Points, ChartTypes, InLine
  <2>. QED
    BY <2>1, <2>2, <1>k, <1>p
<1>3. ASSUME NEW n \in Pushed', (Edge + 1) - n < Keep
      PROVE  \E i \in DOMAIN points' : n \in points'[i].notes /\ Len(points') - i <= (Edge + 1) - n
  <2>1. CASE n = Edge + 1
    <3>1. s[Len(s)].notes = {Edge + 1}
      BY <1>1 DEF Pushing
    <3>2. Len(s) \in 1..Len(s) /\ Len(s) > k /\ Len(s) - k \in Nat
      BY <1>k, <1>p
    <3>3. Len(s) - k \in DOMAIN points' /\ points'[Len(s) - k] = s[Len(s)]
      BY <1>1, <3>2, PushLeaves
    <3>4. Len(points') - (Len(s) - k) <= (Edge + 1) - n
      BY <2>1, <1>k, <3>2, <1>a
    <3>. QED
      BY <2>1, <3>1, <3>3, <3>4
  <2>2. CASE n \in Pushed /\ rendered = Edge
    <3>1. n \in Nat /\ n <= rendered
      BY <2>2, <1>t, PushedType
    <3>2. rendered - n \in Nat /\ (Edge + 1) - n \in Nat /\ rendered - n < (Edge + 1) - n
      BY <2>2, <3>1, <1>a
    <3>3. AtEnd(points, n, rendered - n)
      <4>1. rendered - n < Keep
        BY <3>2, <1>3, <1>p
      <4>. QED
        BY <2>2, <4>1 DEF Points, InLine
    <3>. QED
      BY <1>1, <1>3, <3>2, <3>3, PushMoves
  <2>. QED
    BY <2>1, <2>2, <1>a
<1>4. ASSUME Cardinality(Fetched) <= Limit, NEW n \in Fetched,
             Cardinality(After(Fetched, n)) + ((Edge + 1) - seen) < Keep
      PROVE  \E i \in DOMAIN points' :
                n \in points'[i].notes
                /\ Len(points') - i <= Cardinality(After(Fetched, n)) + ((Edge + 1) - seen)
  <2>1. Cardinality(After(Fetched, n)) \in Nat
    <3>1. read \in Nat /\ Fetched = ReadUpto(read)
      BY <1>t DEF ChartTypes, Past, Fetched, ReadUpto
    <3>2. IsFiniteSet(Fetched) /\ After(Fetched, n) \in SUBSET Fetched
      BY <3>1, ReadUptoFinite DEF After
    <3>. QED
      BY <3>2, FS_Subset, FS_CardinalityType
  <2>2. PICK c, d, f : /\ c = Cardinality(After(Fetched, n))
                       /\ d = c + (rendered - seen) /\ f = c + ((Edge + 1) - seen)
    OBVIOUS
  <2>3. d \in Nat /\ f \in Nat /\ d < f /\ f < Keep /\ d < Keep
    BY <2>1, <2>2, <1>4, <1>a, <1>t, <1>p
  <2>4. AtEnd(points, n, d)
    BY <2>2, <2>3, <1>4 DEF Points, InLine
  <2>. QED
    BY <2>2, <2>3, <2>4, <1>1, PushMoves
<1>5. \A n \in Pushed' : rendered' - n < Keep => AtEnd(points', n, rendered' - n)
  BY <1>3, <1>a DEF AtEnd
<1>6. ASSUME Cardinality(Fetched') <= Limit, NEW n \in Fetched',
             Cardinality(After(Fetched', n)) + (rendered' - seen') < Keep
      PROVE  AtEnd(points', n, Cardinality(After(Fetched', n)) + (rendered' - seen'))
  <2>1. rendered' - seen' = (Edge + 1) - seen /\ Fetched' = Fetched
    BY <1>a
  <2>2. PICK d : d = Cardinality(After(Fetched, n)) + ((Edge + 1) - seen)
    OBVIOUS
  <2>3. Cardinality(Fetched) <= Limit /\ n \in Fetched /\ d < Keep
    BY <2>1, <2>2, <1>6
  <2>4. \E i \in DOMAIN points' : n \in points'[i].notes /\ Len(points') - i <= d
    BY <2>2, <2>3, <1>4
  <2>5. AtEnd(points', n, d)
    BY <2>4 DEF AtEnd
  <2>. QED
    BY <2>1, <2>2, <2>5
<1>. QED
  BY <1>2, <1>5, <1>6 DEF InLine

\* A push is added to the chart.
LEMMA PushStep ==
    ASSUME Server, Link, Points, ReadingToChart
    PROVE  Points'
<1>1. ChartTypes'
  <2>1. PICK s, k : Pushing(s, k)
    BY PushIs DEF Points
  <2>2. points' \in Seq(Pt)
    BY <2>1 DEF Pushing
  <2>3. /\ UNCHANGED <<notes, accepted, window, skew, asked, drawn, read, doubled>>
        /\ rendered' = Edge + 1 /\ Edge \in Nat /\ seen' = seen
        /\ rendered = Edge \/ (rendered = 0 /\ seen = 0)
    BY PushAdds DEF Points, ReadingToChart, server, page
  <2>4. seen \in Nat /\ seen <= rendered /\ rendered \in Nat
    BY DEF Points, ChartTypes, Link
  <2>5. seen' <= rendered'
    BY <2>3, <2>4
  <2>. QED
    BY <2>2, <2>3, <2>5 DEF Points, ChartTypes, Past
<1>. QED
  BY <1>1, PushOrdered, PushInWindow, PushInLine DEF Points

-----------------------------------------------------------------------------
(* The pages *)

\* A page with a flag has no chart.
Undrawn ==
    /\ drawn = 0 /\ asked = 1 /\ points = <<>> /\ read = 0 /\ window = NoWindow
    /\ skew = 0 /\ doubled = FALSE

ChartInv == Blank /\ Server /\ Link /\ Loads /\ Points

PageInv == (FlagInv /\ Undrawn) \/ ChartInv

LEMMA UndrawnStep == FlagInv /\ Undrawn /\ [Next]_vars => Undrawn'
<1>. SUFFICES ASSUME widget = "flag", loads = {}, Undrawn, [Next]_vars
              PROVE  UNCHANGED <<drawn, asked, points, read, window, skew, doubled>>
  BY DEF FlagInv, Undrawn
<1>. USE DEF page, charts
<1>1. ASSUME NEW v \in Values, Notify(v)
      PROVE  UNCHANGED <<drawn, asked, points, read, window, skew, doubled>>
  BY <1>1 DEF Notify
<1>2. ASSUME Tick \/ Insert \/ InsertFails \/ DeleteChannel
      PROVE  UNCHANGED <<drawn, asked, points, read, window, skew, doubled>>
  BY <1>2 DEF Tick, Insert, InsertFails, DeleteChannel
<1>3. ASSUME Join \/ Lose \/ ReadingToFlag \/ FindFlag \/ get_flag_state \/ AnswerFlag \/ FlagFails
      PROVE  UNCHANGED <<drawn, asked, points, read, window, skew, doubled>>
  BY <1>3 DEF Join, Lose, ReadingToFlag, FindFlag, get_flag_state, AnswerFlag, FlagFails
<1>4. ASSUME UNCHANGED vars PROVE UNCHANGED <<drawn, asked, points, read, window, skew, doubled>>
  BY <1>4 DEF vars
<1>. QED
  BY <1>1, <1>2, <1>3, <1>4, FlagSteps

LEMMA ChartInit == Init /\ widget = "chart" => ChartInv
<1>. SUFFICES ASSUME Init, widget = "chart" PROVE ChartInv
  OBVIOUS
<1>0. /\ <<>> \in Seq(Note) /\ <<>> \in Seq(Row) /\ <<>> \in Seq(Nat) /\ <<>> \in Seq(Pt)
      /\ Len(<<>>) = 0 /\ DOMAIN <<>> = {}
  OBVIOUS
<1>1. Blank
  BY DEF Init, Blank
<1>2. Server
  BY <1>0 DEF Init, Server
<1>3. Link
  BY <1>0 DEF Init, Link, Edge
<1>w. window \in Windows \cup {NoWindow} /\ skew \in Int /\ asked = 1 /\ MaxLoads \in Nat \ {0}
  BY NumbersAssumption DEF Init
<1>4. Loads
  <2>1. ReadUpto(0) = {}
    BY DEF ReadUpto
  <2>2. PICK l : l = [no |-> 1, window |-> window, step |-> "sent", points |-> <<>>, read |-> NoNote]
    OBVIOUS
  <2>3. /\ l \in Fetch /\ l.no = 1 /\ l.window = window /\ l.points = <<>> /\ l.read = 0
        /\ loads = {l}
    BY <1>0, <1>w, <2>2 DEF Init, Fetch, NoNote
  <2>4. Past(l.read)
    BY <1>0, <2>3 DEF Past, Init
  <2>5. Limit \in Nat
    BY NumbersAssumption
  <2>6. Answer(l)
    BY <1>0, <2>1, <2>3, <2>5 DEF Answer, InOrder
  <2>. QED
    BY <2>3, <2>4, <2>6, <1>w DEF Loads
<1>5. ChartTypes
  <2>1. Past(read)
    BY <1>0 DEF Init, Past, NoNote
  <2>2. asked \in 1..MaxLoads /\ drawn \in 0..asked /\ seen \in Nat /\ seen <= rendered
    <3>1. drawn = 0 /\ seen = 0 /\ rendered = 0
      BY DEF Init
    <3>. QED
      BY <3>1, <1>w
  <2>3. points \in Seq(Pt) /\ doubled \in BOOLEAN
    BY <1>0 DEF Init
  <2>. QED
    BY <1>w, <2>1, <2>2, <2>3 DEF ChartTypes
<1>6. Ordered
  BY <1>0 DEF Init, Ordered, InOrder
<1>f. Fetched = {} /\ Pushed = {}
  <2>1. Max({0, 0}) \in Int /\ Max({0, 0}) >= 0
    BY MaxType
  <2>2. Pushed = Max({0, 0}) + 1..0
    BY DEF Init, Pushed
  <2>3. Pushed = {}
    BY <2>1, <2>2
  <2>4. Fetched = {}
    BY <1>0 DEF Init, Fetched
  <2>. QED
    BY <2>3, <2>4
<1>7. InWindow
  BY <1>f DEF InWindow
<1>8. InLine
  <2>1. Len(points) <= Max({Limit, Keep})
    <3>1. Max({Limit, Keep}) \in Int /\ Max({Limit, Keep}) >= Limit
      BY <1>w, MaxUses
    <3>2. Len(points) = 0 /\ Limit \in Nat
      BY <1>0, NumbersAssumption DEF Init
    <3>. QED
      BY <3>1, <3>2
  <2>. QED
    BY <2>1, <1>f DEF InLine
<1>. QED
  BY <1>1, <1>2, <1>3, <1>4, <1>5, <1>6, <1>7, <1>8 DEF ChartInv, Points

LEMMA ChartStep == ChartInv /\ [Next]_vars => ChartInv'
<1>. SUFFICES ASSUME Blank, Server, Link, Loads, Points, [Next]_vars PROVE ChartInv'
  BY DEF ChartInv
<1>t. asked \in Nat /\ window \in Windows \cup {NoWindow} /\ MaxLoads \in Nat
  BY NumbersAssumption DEF Points, ChartTypes
<1>1. Blank' /\ Server' /\ Link' /\ Loads'
  BY <1>t, BlankStep, ServerStep, LinkStep, LoadsStep
<1>2. ASSUME UNCHANGED <<window, skew, asked, drawn, seen, read, points, doubled, rendered>>,
             joinedAt' = joinedAt \/ Join
      PROVE  Points'
  BY <1>2, PointsStay
<1>3. ASSUME NEW w \in Windows, Click(w) PROVE Points'
  <2>1. asked' <= MaxLoads
    BY <1>t, <1>3 DEF Click
  <2>. QED
    BY <1>3, <2>1, ClickStep
<1>4. ASSUME NEW l \in loads, AnswerChart(l) PROVE Points'
  BY <1>4, AnswerStep
<1>5. ASSUME ReadingToChart PROVE Points'
  BY <1>5, PushStep
<1>. QED
  BY <1>1, <1>2, <1>3, <1>4, <1>5, ChartSteps DEF ChartInv

LEMMA AllPages == Spec => []PageInv
<1>1. Init => PageInv
  <2>1. Init => widget \in {"flag", "chart"}
    BY DEF Init
  <2>2. Init /\ widget = "flag" => Undrawn
    BY DEF Init, Undrawn, NoNote
  <2>. QED
    BY <2>1, <2>2, FlagInit, ChartInit DEF PageInv
<1>2. PageInv /\ [Next]_vars => PageInv'
  BY FlagStep, UndrawnStep, ChartStep DEF PageInv
<1>. QED
  BY <1>1, <1>2, PTL DEF Spec

\* The points of a chart are in the order of time, on which its trimming relies, unless
\* an answer has points whose pushes are still to come.
THEOREM OrderCorrect == Spec => []ChartInOrder
<1>1. PageInv => ChartInOrder
  <2>1. Undrawn => ChartInOrder
    BY DEF Undrawn, ChartInOrder
  <2>2. ChartInv => ChartInOrder
    BY DEF ChartInv, Points, Ordered, InOrder, ChartInOrder
  <2>. QED
    BY <2>1, <2>2 DEF PageInv
<1>. QED
  BY AllPages, <1>1, PTL

\* A point that is there is drawn.
LEMMA HasDrawn == \A n : Has(points, n) => n \in Drawn
  BY DEF Has, Drawn, Range

\* The chart has what it was given, of the window but for the second on its edge or of the
\* last readings, as soon as its last fetch is answered.
THEOREM CompleteCorrect == Spec => []ChartComplete
<1>1. PageInv => ChartComplete
  <2>1. Undrawn => ChartComplete
    BY DEF Undrawn, ChartComplete
  <2>2. ASSUME ChartInv, drawn = asked, window # NoWindow
        PROVE  \A n \in Fetched \cup Pushed :
                  notes[n].at >= clock + Max({skew + 1, 0}) - window => n \in Drawn
    BY <2>2, HasDrawn DEF ChartInv, Points, InWindow
  <2>3. ASSUME ChartInv, window = NoWindow
        PROVE  /\ \A n \in Pushed : rendered - n < Keep => n \in Drawn
               /\ Cardinality(Fetched) <= Limit =>
                     \A n \in Fetched :
                        Cardinality({k \in Fetched : k > n}) + (rendered - seen) < Keep => n \in Drawn
    <3>1. \A n, d : AtEnd(points, n, d) => n \in Drawn
      BY HasDrawn DEF AtEnd, Has
    <3>. QED
      BY <2>3, <3>1 DEF ChartInv, Points, InLine, After
  <2>. QED
    BY <2>1, <2>2, <2>3 DEF PageInv, ChartComplete
<1>. QED
  BY AllPages, <1>1, PTL

\* After a push the chart has nothing that is older than its window, or no more points
\* than it may.
THEOREM TrimCorrect == Spec => ChartTrimmed
<1>. DEFINE step == widget = "chart" /\ rendered' # rendered =>
                       IF window = NoWindow THEN Len(points') <= Max({Limit, Keep})
                       ELSE ~doubled => \A p \in Range(points') : p.at >= Cutoff(0)
<1>1. PageInv /\ [Next]_vars => step
  <2>. SUFFICES ASSUME PageInv, [Next]_vars, widget = "chart", rendered' # rendered
                PROVE  IF window = NoWindow THEN Len(points') <= Max({Limit, Keep})
                       ELSE ~doubled => \A p \in Range(points') : p.at >= Cutoff(0)
    OBVIOUS
  <2>1. ChartInv
    BY DEF PageInv, FlagInv
  <2>2. ReadingToChart
    <3>1. \A w \in Windows : ~Click(w)
      BY DEF Click
    <3>2. \A l \in loads : ~AnswerChart(l)
      BY DEF AnswerChart
    <3>. QED
      BY <2>1, <3>1, <3>2, ChartSteps DEF ChartInv
  <2>3. window' = window
    BY <2>2 DEF ReadingToChart
  <2>4. CASE window = NoWindow
    BY <2>1, <2>3, <2>4, ChartStep DEF ChartInv, Points, InLine
  <2>5. ASSUME window # NoWindow, ~doubled, NEW p \in Range(points') PROVE p.at >= Cutoff(0)
    <3>1. PICK i \in DOMAIN points' : p = points'[i]
      BY <2>5 DEF Range
    <3>. QED
      BY <2>1, <2>2, <2>5, <3>1, PushTrims DEF ChartInv
  <2>. QED
    BY <2>4, <2>5
<1>. QED
  BY AllPages, <1>1, PTL DEF Spec, ChartTrimmed

-----------------------------------------------------------------------------
(* Types *)

\* What the invariants of the pages leave open: the bounds of the clock and of the values,
\* and that the times a flag has are times there have been.
Limits ==
    /\ clock <= MaxClock /\ exists \in BOOLEAN
    /\ \A n \in DOMAIN notes : notes[n].value \in Reported
    /\ flag.lastOn \in 0..clock \cup {NoTime}
    /\ state.lastOn \in 0..clock \cup {NoTime}

LEMMA ReportedStays == PageInv /\ [Next]_vars => Reported' = Reported
<1>. SUFFICES ASSUME PageInv, [Next]_vars PROVE widget' = widget
  BY DEF Reported
<1>1. CASE FlagInv
  BY <1>1, FlagSteps DEF FlagInv
<1>2. CASE Blank
  BY <1>2, BlankStep DEF Blank
<1>. QED
  BY <1>1, <1>2 DEF PageInv, ChartInv

\* The time of the last reading that was on is one of the stamps.
LEMMA LastOnTimeType ==
    ASSUME Server, LastOn
    PROVE  LastOnTime \in 0..clock \cup {NoTime}
<1>1. /\ DOMAIN table = 1..Len(table) /\ Len(table) \in Nat
      /\ \A i \in DOMAIN table : table[i].recorded_at \in Nat /\ table[i].recorded_at <= clock
      /\ \A i, j \in DOMAIN table : i < j => table[i].recorded_at <= table[j].recorded_at
      /\ OnIds \in SUBSET DOMAIN table /\ table \in Seq(Row) /\ clock \in Nat
  BY TableIs DEF OnIds
<1>2. latest_at_or_above(table, FlagOn) = LatestOf(table, OnIds)
  BY DEF latest_at_or_above, OnIds
<1>3. CASE OnIds = {}
  BY <1>2, <1>3 DEF LastOnTime, LatestOf, NoReading, NoTime
<1>4. CASE OnIds # {}
  <2>1. PICK m \in OnIds : \A i \in OnIds : i <= m
    BY <1>4 DEF LastOn
  <2>2. LatestOf(table, OnIds) = m
    BY <1>1, <2>1, LatestOfSet
  <2>3. LastOnTime = table[m].recorded_at /\ m \in DOMAIN table
    BY <1>1, <1>2, <2>1, <2>2 DEF LastOnTime, NoReading
  <2>4. table[m].recorded_at \in 0..clock
    BY <1>1, <2>3
  <2>. QED
    BY <2>3, <2>4
<1>. QED
  BY <1>3, <1>4

\* The times of a flag are taken from a note or from a reading.
LEMMA TimesStay ==
    ASSUME PageInv, Limits, [Next]_vars
    PROVE  /\ flag'.lastOn \in 0..clock' \cup {NoTime}
           /\ state'.lastOn \in 0..clock' \cup {NoTime}
<1>s. Server
  BY DEF PageInv, FlagInv, ChartInv
<1>g. clock \in Nat /\ clock' \in Nat /\ clock <= clock'
  BY <1>s, Grows
<1>w. \A t \in 0..clock \cup {NoTime} : t \in 0..clock' \cup {NoTime}
  BY <1>g
<1>1. CASE UNCHANGED <<flag, state>>
  BY <1>1, <1>w DEF Limits
<1>. SUFFICES ASSUME FlagInv PROVE /\ flag'.lastOn \in 0..clock \cup {NoTime}
                                   /\ state'.lastOn \in 0..clock \cup {NoTime}
  <2>1. CASE Blank
    BY <2>1, <1>1, BlankStep DEF Blank
  <2>. QED
    BY <2>1, <1>w DEF PageInv, ChartInv
<1>l. /\ flag.lastOn \in 0..clock \cup {NoTime} /\ state.lastOn \in 0..clock \cup {NoTime}
      /\ state \in [step : Steps, note : Nat, lastOn : Int]
      /\ flag \in [note : Nat, on : BOOLEAN, lastOn : Int]
  BY DEF Limits, FlagInv, Shown
<1>2. CASE ReadingToFlag
  <2>1. /\ flag'.lastOn = IF IsOn(Edge + 1) THEN notes[Edge + 1].at ELSE flag.lastOn
        /\ state' = state /\ Edge \in Nat /\ Edge + 1 <= Len(notes)
    BY <1>s, <1>2, NextPush DEF FlagInv
  <2>2. Edge + 1 \in DOMAIN notes
    BY <1>s, <2>1, NotesType
  <2>3. notes[Edge + 1].at \in 0..clock
    BY <1>s, <1>g, <2>2, NotesType DEF Server
  <2>. QED
    BY <1>l, <2>1, <2>3
<1>3. CASE get_flag_state
  <2>1. flag' = flag
    BY <1>3 DEF get_flag_state
  <2>2. state'.lastOn = state.lastOn \/ state'.lastOn = LastOnTime
    BY <1>3, <1>l DEF get_flag_state
  <2>. QED
    BY <2>1, <2>2, <1>l, <1>s, LastOnTimeType DEF FlagInv
<1>4. CASE AnswerFlag
  <2>1. flag'.lastOn = state.lastOn /\ state'.lastOn = state.lastOn
    BY <1>4, <1>l DEF AnswerFlag
  <2>. QED
    BY <2>1, <1>l
<1>5. CASE FindFlag \/ FlagFails
  <2>1. flag' = flag /\ state'.lastOn = state.lastOn
    BY <1>5, <1>l DEF FindFlag, FlagFails
  <2>. QED
    BY <2>1, <1>l
<1>6. ASSUME \/ Tick \/ Insert \/ InsertFails \/ DeleteChannel \/ (\E v \in Values : Notify(v))
             \/ Join \/ Lose \/ UNCHANGED vars
      PROVE  UNCHANGED <<flag, state>>
  BY <1>6 DEF Tick, Insert, InsertFails, DeleteChannel, Notify, Join, Lose, vars, flags
<1>7. CASE UNCHANGED <<flag, state>>
  BY <1>7, <1>l
<1>. QED
  BY <1>2, <1>3, <1>4, <1>5, <1>6, <1>7, FlagSteps DEF FlagInv

LEMMA LimitsStep == PageInv /\ Limits /\ [Next]_vars => Limits'
<1>. SUFFICES ASSUME PageInv, Limits, [Next]_vars PROVE Limits'
  OBVIOUS
<1>s. Server
  BY DEF PageInv, FlagInv, ChartInv
<1>1. clock' <= MaxClock
  <2>1. clock \in Nat /\ MaxClock \in Nat /\ clock <= MaxClock
    BY <1>s, NumbersAssumption DEF Server, Limits
  <2>2. clock' = clock \/ (clock < MaxClock /\ clock' = clock + 1)
    BY ServerSteps DEF Tick, Insert, InsertFails, DeleteChannel, Notify, server
  <2>. QED
    BY <2>1, <2>2
<1>2. \A n \in DOMAIN notes' : notes'[n].value \in Reported
  <2>1. ASSUME NEW v \in Reported, Notify(v) PROVE \A n \in DOMAIN notes' : notes'[n].value \in Reported
    <3>1. v \in Values
      BY ReportedValues
    <3>2. /\ DOMAIN notes' = 1..Len(notes) + 1 /\ DOMAIN notes = 1..Len(notes) /\ Len(notes) \in Nat
          /\ \A n \in DOMAIN notes : notes'[n] = notes[n]
          /\ notes'[Len(notes) + 1] = [value |-> v, at |-> clock]
      BY <1>s, <2>1, <3>1, NotifyKeeps, NotesType
    <3>3. \A n \in DOMAIN notes' : n \in DOMAIN notes \/ n = Len(notes) + 1
      BY <3>2
    <3>. QED
      BY <2>1, <3>2, <3>3 DEF Limits
  <2>2. (\E v \in Reported : Notify(v)) \/ notes' = notes
    <3>1. ASSUME Tick \/ Insert \/ InsertFails \/ DeleteChannel PROVE notes' = notes
      BY <3>1 DEF Tick, Insert, InsertFails, DeleteChannel
    <3>2. ASSUME Join \/ Lose \/ ReadingToFlag \/ FindFlag \/ get_flag_state \/ AnswerFlag \/ FlagFails
          PROVE notes' = notes
      BY <3>2 DEF Join, Lose, ReadingToFlag, FindFlag, get_flag_state, AnswerFlag, FlagFails, server
    <3>3. ASSUME ReadingToChart \/ (\E w \in Windows : Click(w)) PROVE notes' = notes
      BY <3>3 DEF ReadingToChart, Click, server
    <3>4. ASSUME NEW l \in loads, FindHistory(l) \/ ReadHistory(l) \/ AnswerChart(l) \/ ChartFails(l)
          PROVE notes' = notes
      BY <3>4 DEF FindHistory, ReadHistory, AnswerChart, ChartFails, server
    <3>5. ASSUME UNCHANGED vars PROVE notes' = notes
      BY <3>5 DEF vars, server
    <3>. QED
      BY <3>1, <3>2, <3>3, <3>4, <3>5 DEF Next
  <2>. QED
    BY <2>1, <2>2 DEF Limits
<1>3. exists' \in BOOLEAN
  <2>1. exists' = exists \/ exists' = FALSE
    BY ServerSteps DEF Tick, Insert, InsertFails, DeleteChannel, Notify, server
  <2>. QED
    BY <2>1 DEF Limits
<1>. QED
  BY <1>1, <1>2, <1>3, ReportedStays, TimesStay DEF Limits

LEMMA Retyped ==
    ASSUME NEW S, NEW T, NEW s \in Seq(S), \A i \in DOMAIN s : s[i] \in T
    PROVE  s \in Seq(T)
  OBVIOUS

\* What is typed by the server and the socket alone.
LEMMA ServerTypes ==
    ASSUME Server, Link, Limits
    PROVE  /\ clock \in 0..MaxClock
           /\ notes \in Seq([value : Reported, at : 0..clock])
           /\ table \in Seq([value : Reported, recorded_at : 0..clock, note : DOMAIN notes])
           /\ joinedAt \in 0..Len(notes) /\ rendered \in 0..Len(notes)
           /\ wire = [i \in 1..Len(wire) |-> Len(notes) - Len(wire) + i]
           /\ Len(wire) <= Len(notes) - joinedAt
<1>n. /\ DOMAIN notes = 1..Len(notes) /\ Len(notes) \in Nat /\ clock \in Nat
      /\ \A n \in DOMAIN notes : notes[n].at \in Nat /\ notes[n].at <= clock
  BY NotesType DEF Server
<1>1. clock \in 0..MaxClock
  BY <1>n, NumbersAssumption DEF Limits
<1>2. \A n \in DOMAIN notes : notes[n] \in [value : Reported, at : 0..clock]
  <2>. SUFFICES ASSUME NEW n \in DOMAIN notes PROVE notes[n] \in [value : Reported, at : 0..clock]
    OBVIOUS
  <2>1. notes[n] \in Note
    BY DEF Server
  <2>2. notes[n].value \in Reported /\ notes[n].at \in 0..clock
    BY <1>n DEF Limits
  <2>. QED
    BY <2>1, <2>2 DEF Note
<1>3. notes \in Seq([value : Reported, at : 0..clock])
  <2>1. notes \in Seq(Note)
    BY DEF Server
  <2>. QED
    BY <1>2, <2>1, Retyped
<1>4. table \in Seq([value : Reported, recorded_at : 0..clock, note : DOMAIN notes])
  <2>1. ASSUME NEW i \in DOMAIN table
        PROVE  table[i] \in [value : Reported, recorded_at : 0..clock, note : DOMAIN notes]
    <3>1. table[i] \in Row
      BY DEF Server
    <3>2. table[i].note \in DOMAIN notes /\ table[i].value = notes[table[i].note].value
      BY DEF Server
    <3>3. table[i].recorded_at \in 0..clock
      BY <1>n, TableIs
    <3>. QED
      BY <3>1, <3>2, <3>3 DEF Row, Limits
  <2>2. table \in Seq(Row)
    BY DEF Server
  <2>. QED
    BY <2>1, <2>2, Retyped
<1>5. joinedAt \in 0..Len(notes) /\ rendered \in 0..Len(notes)
  BY <1>n DEF Link
<1>6. /\ wire \in Seq(Nat) /\ Len(wire) \in Nat /\ DOMAIN wire = 1..Len(wire) /\ Len(wire) <= Len(notes)
      /\ \A i \in 1..Len(wire) : wire[i] = Edge + i
  BY DEF Link
<1>7. wire = [i \in 1..Len(wire) |-> Len(notes) - Len(wire) + i]
  <2>1. wire = [i \in DOMAIN wire |-> wire[i]]
    BY <1>6
  <2>. QED
    BY <2>1, <1>6 DEF Edge
<1>8. Len(wire) <= Len(notes) - joinedAt
  <2>1. CASE socket = "joined"
    <3>1. joinedAt <= Edge /\ joinedAt \in Nat
      BY <2>1, <1>n, <1>6 DEF Link, Edge
    <3>. QED
      BY <3>1, <1>n, <1>6 DEF Edge
  <2>2. CASE socket # "joined"
    <3>1. Len(wire) = 0
      BY <2>2 DEF Link
    <3>. QED
      BY <3>1, <1>n, <1>5
  <2>. QED
    BY <2>1, <2>2
<1>. QED
  BY <1>1, <1>3, <1>4, <1>5, <1>7, <1>8

\* Sound points are points of the model.
LEMMA SoundPoints ==
    ASSUME Server, NEW s \in Seq(Pt), \A i \in DOMAIN s : Sound(s[i])
    PROVE  s \in Seq(Point)
<1>1. ASSUME NEW i \in DOMAIN s PROVE s[i] \in Point
  <2>1. s[i] \in Pt /\ s[i].at \in Nat /\ s[i].at <= clock /\ clock \in Nat
        /\ \A n \in s[i].notes : n \in DOMAIN notes
    BY PointsType DEF Sound, Server
  <2>2. s[i].at \in 0..clock /\ s[i].notes \in SUBSET DOMAIN notes
    BY <2>1
  <2>. QED
    BY <2>1, <2>2 DEF Pt, Point
<1>. QED
  BY <1>1

LEMMA FlagTyped == FlagInv /\ Undrawn /\ Limits => TypeOK
<1>. SUFFICES ASSUME FlagInv, Undrawn, Limits PROVE TypeOK
  OBVIOUS
<1>1. /\ clock \in 0..MaxClock
      /\ notes \in Seq([value : Reported, at : 0..clock])
      /\ table \in Seq([value : Reported, recorded_at : 0..clock, note : DOMAIN notes])
      /\ joinedAt \in 0..Len(notes) /\ rendered \in 0..Len(notes)
      /\ wire = [i \in 1..Len(wire) |-> Len(notes) - Len(wire) + i]
      /\ Len(wire) <= Len(notes) - joinedAt
  BY ServerTypes DEF FlagInv
<1>n. Len(notes) \in Nat /\ rendered \in Nat /\ rendered <= Len(notes)
  BY NotesType DEF FlagInv, Link
<1>2. /\ accepted \in {NoNote, Len(notes)} /\ socket \in {"opening", "joined", "lost"}
      /\ socket # "joined" => wire = <<>>
      /\ widget \in {"flag", "chart"} /\ toasts \subseteq 1..rendered
  BY DEF FlagInv, Server, Link, Toasts
<1>3. /\ state.step \in Steps /\ state.note \in 0..Len(notes) /\ seen \in 0..rendered
      /\ flag.on \in BOOLEAN /\ flag.note \in 0..Len(notes)
  <2>1. /\ seen \in Nat /\ seen <= rendered /\ state.note \in Nat /\ state.note <= Len(notes)
        /\ flag.note = rendered \/ flag.note = state.note
        /\ state \in [step : Steps, note : Nat, lastOn : Int]
        /\ flag \in [note : Nat, on : BOOLEAN, lastOn : Int]
    BY DEF FlagInv, Shown
  <2>2. state.step \in Steps /\ flag.on \in BOOLEAN
    BY <2>1
  <2>. QED
    BY <1>n, <2>1, <2>2
<1>4. /\ flag.lastOn \in 0..clock \cup {NoTime} /\ state.lastOn \in 0..clock \cup {NoTime}
  BY DEF Limits
<1>5. /\ window \in Windows \cup {NoWindow} /\ points \in Seq(Point) /\ loads = {}
      /\ drawn \in 0..asked /\ asked \in 1..MaxLoads /\ read \in 0..Len(notes)
  BY <1>n, NumbersAssumption DEF Undrawn, FlagInv
<1>6. exists \in BOOLEAN
  BY DEF Limits
<1>. QED
  BY <1>1, <1>2, <1>3, <1>4, <1>5, <1>6 DEF TypeOK

LEMMA ChartTyped == ChartInv /\ Limits => TypeOK
<1>. SUFFICES ASSUME ChartInv, Limits PROVE TypeOK
  OBVIOUS
<1>1. /\ clock \in 0..MaxClock
      /\ notes \in Seq([value : Reported, at : 0..clock])
      /\ table \in Seq([value : Reported, recorded_at : 0..clock, note : DOMAIN notes])
      /\ joinedAt \in 0..Len(notes) /\ rendered \in 0..Len(notes)
      /\ wire = [i \in 1..Len(wire) |-> Len(notes) - Len(wire) + i]
      /\ Len(wire) <= Len(notes) - joinedAt
  BY ServerTypes DEF ChartInv
<1>n. Len(notes) \in Nat /\ rendered \in Nat
  BY NotesType DEF ChartInv, Link
<1>2. /\ accepted \in {NoNote, Len(notes)} /\ socket \in {"opening", "joined", "lost"}
      /\ socket # "joined" => wire = <<>>
      /\ widget \in {"flag", "chart"} /\ toasts \subseteq 1..rendered
  BY DEF ChartInv, Blank, Server, Link
<1>3. /\ state.step \in Steps /\ state.note \in 0..Len(notes)
      /\ flag.on \in BOOLEAN /\ flag.note \in 0..Len(notes)
  BY <1>n DEF ChartInv, Blank, Steps, NoNote
<1>4. /\ flag.lastOn \in 0..clock \cup {NoTime} /\ state.lastOn \in 0..clock \cup {NoTime}
  BY DEF Limits
<1>5. /\ window \in Windows \cup {NoWindow} /\ drawn \in 0..asked /\ asked \in 1..MaxLoads
      /\ read \in 0..Len(notes) /\ seen \in 0..rendered
  BY <1>n DEF ChartInv, Points, ChartTypes, Past
<1>6. points \in Seq(Point)
  BY SoundPoints DEF ChartInv, Points, ChartTypes, Ordered
<1>7. ASSUME NEW l \in loads PROVE l.no \in 1..asked /\ l.points \in Seq(Point)
  <2>1. l \in Fetch /\ l.no <= asked /\ l.no >= 1 /\ Answer(l)
    BY DEF ChartInv, Loads
  <2>2. l.no \in Nat /\ l.points \in Seq(Pt) /\ asked \in Nat
    BY <2>1, <1>5, NumbersAssumption, FetchType
  <2>3. l.points \in Seq(Point)
    BY <2>1, <2>2, SoundPoints DEF ChartInv, Answer
  <2>. QED
    BY <2>1, <2>2, <2>3
<1>8. exists \in BOOLEAN
  BY DEF Limits
<1>. QED
  BY <1>1, <1>2, <1>3, <1>4, <1>5, <1>6, <1>7, <1>8 DEF TypeOK

\* Every variable has its type: what is on the wire are the last notifications since the
\* socket joined, and every time that is shown is one there has been.
THEOREM TypeCorrect == Spec => []TypeOK
<1>1. Init => Limits
  <2>. SUFFICES ASSUME Init PROVE Limits
    OBVIOUS
  <2>1. clock = 0 /\ notes = <<>> /\ MaxClock \in Nat /\ exists = TRUE
    BY NumbersAssumption DEF Init
  <2>2. flag.lastOn = NoTime /\ state.lastOn = NoTime
    BY DEF Init
  <2>. QED
    BY <2>1, <2>2 DEF Limits
<1>2. PageInv /\ Limits /\ [Next]_vars => Limits'
  BY LimitsStep
<1>3. PageInv /\ Limits => TypeOK
  BY FlagTyped, ChartTyped DEF PageInv
<1>. QED
  BY AllPages, <1>1, <1>2, <1>3, PTL DEF Spec

=============================================================================
