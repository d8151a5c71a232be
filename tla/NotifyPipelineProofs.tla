------------------------ MODULE NotifyPipelineProofs ------------------------
(***************************************************************************)
(* NotifyPipeline for every throttle, clock and number of readings: the    *)
(* latest reading is the last one inserted, and the recorded state of a    *)
(* flag is one the device reported less than the interval before its last  *)
(* notification.                                                           *)
(***************************************************************************)
EXTENDS NotifyPipeline, FiniteSetTheorems, WellFoundedInduction, TLAPS

Reading == [value : Values, recorded_at : Nat]

LEMMA DivType == ASSUME NEW a \in Nat, NEW p \in Nat \ {0}
                 PROVE  a \div p \in Nat
  BY Z3

\* A clock that ticks in parts of a second does not go back.
LEMMA DivMonotone == ASSUME NEW a \in Nat, NEW p \in Nat \ {0}
                     PROVE  (a + 1) \div p >= a \div p
<1> DEFINE q == a \div p
           r == (a + 1) \div p
<1>1. q \in Int /\ r \in Int
  BY Z3
<1>2. p * q <= a /\ a + 1 < p * r + p
  BY Z3
<1>3. p * q < p * (r + 1)
  BY <1>1, <1>2, Z3
<1>4. q < r + 1
  BY <1>1, <1>3, Z3
<1> QED  BY <1>1, <1>4, Z3

-----------------------------------------------------------------------------
(* Types *)

LEMMA NowType == TypeOK => Now \in Nat /\ clock \in Nat /\ shift \in Nat
<1>. SUFFICES ASSUME TypeOK PROVE Now \in Nat /\ clock \in Nat /\ shift \in Nat
  OBVIOUS
<1>1. clock \in Nat /\ shift \in Nat
  BY NumbersAssumption DEF TypeOK
<1>2. clock \div PerSecond \in Nat
  BY <1>1, DivType, NumbersAssumption
<1>. QED
  BY <1>1, <1>2 DEF Now

LEMMA TypeStep == TypeOK /\ [Next]_vars => TypeOK'
<1>. SUFFICES ASSUME TypeOK, [Next]_vars PROVE TypeOK'
  OBVIOUS
<1>. USE DEF TypeOK, time
<1>1. ASSUME NEW v \in Values, Notify(v) PROVE TypeOK'
  <2>1. last' \in 0..clock \cup {NoTime}
    BY <1>1, NumbersAssumption DEF Notify, NoteEmit
  <2>2. recent' \subseteq [value : Values, at : 0..clock]
    BY <1>1, NumbersAssumption DEF Notify
  <2>. QED
    BY <1>1, <2>1, <2>2 DEF Notify
<1>2. ASSUME Insert PROVE TypeOK'
  <2>1. accepted \in Values
    BY <1>2 DEF Insert
  <2>2. [value |-> accepted, recorded_at |-> Now] \in Reading
    BY <2>1, NowType DEF Reading
  <2>3. table' \in Seq(Reading)
    BY <1>2, <2>2 DEF Insert, Reading
  <2>. QED
    BY <1>2, <2>3 DEF Insert, Reading
<1>3. ASSUME InsertFails PROVE TypeOK'
  BY <1>3 DEF InsertFails
<1>4. ASSUME DeleteChannel PROVE TypeOK'
  <2>1. <<>> \in Seq(Reading)
    OBVIOUS
  <2>. QED
    BY <1>4, <2>1 DEF DeleteChannel, Reading
<1>5. ASSUME Restart PROVE TypeOK'
  BY <1>5 DEF Restart
<1>6. ASSUME Tick PROVE TypeOK'
  <2>1. clock' \in 0..MaxClock /\ 0..clock \subseteq 0..clock'
    BY <1>6, NumbersAssumption DEF Tick
  <2>2. [value : Values, at : 0..clock] \subseteq [value : Values, at : 0..clock']
    BY <2>1
  <2>. QED
    BY <1>6, <2>1, <2>2 DEF Tick
<1>7. ASSUME NEW s \in Shifts, SetClock(s) PROVE TypeOK'
  BY <1>7 DEF SetClock
<1>8. ASSUME UNCHANGED vars PROVE TypeOK'
  BY <1>8 DEF vars
<1>. QED
  BY <1>1, <1>2, <1>3, <1>4, <1>5, <1>6, <1>7, <1>8 DEF Next

LEMMA TypeInit == Init => TypeOK
<1>1. <<>> \in Seq(Reading)
  OBVIOUS
<1>2. 0 \in 0..MaxClock
  BY NumbersAssumption
<1>. SUFFICES ASSUME Init PROVE TypeOK
  OBVIOUS
<1>3. clock \in 0..MaxClock /\ shift \in Shifts /\ table \in Seq(Reading)
  BY <1>1, <1>2 DEF Init
<1>4. exists \in BOOLEAN /\ lost \in BOOLEAN /\ stepped \in BOOLEAN /\ exists
  BY DEF Init
<1>5. /\ last \in 0..clock \cup {NoTime} /\ accepted \in Values \cup {NoValue}
      /\ recent \subseteq [value : Values, at : 0..clock]
  BY DEF Init
<1>. QED
  BY <1>3, <1>4, <1>5 DEF TypeOK, Reading

\* The type invariant holds: in particular a deleted channel has no readings, whatever was
\* about to be inserted.
THEOREM TypeCorrect == Spec => []TypeOK
  BY TypeInit, TypeStep, PTL DEF Spec

-----------------------------------------------------------------------------
(* The latest reading *)

\* As long as the clock has not been set back, readings have the order of their stamps and
\* none is of the future.
Stamped ==
    ~stepped =>
        /\ \A i \in DOMAIN table : table[i].recorded_at <= Now
        /\ \A i, j \in DOMAIN table : i < j => table[i].recorded_at <= table[j].recorded_at

LEMMA StampedStep == TypeOK /\ Stamped /\ [Next]_vars => Stamped'
<1>. SUFFICES ASSUME TypeOK, Stamped, [Next]_vars, ~stepped' PROVE
        /\ \A i \in DOMAIN table' : table'[i].recorded_at <= Now'
        /\ \A i, j \in DOMAIN table' : i < j => table'[i].recorded_at <= table'[j].recorded_at
  BY DEF Stamped
<1>n. Now \in Nat /\ clock \in Nat /\ shift \in Nat
  BY NowType
<1>t. table \in Seq(Reading)
  BY DEF TypeOK, Reading
<1>r. \A i \in DOMAIN table : table[i].recorded_at \in Nat
  <2>1. \A i \in DOMAIN table : table[i] \in Reading
    BY <1>t
  <2>. QED
    BY <2>1 DEF Reading
<1>k. ASSUME table' = table, ~stepped, Now' >= Now, Now' \in Nat PROVE
        /\ \A i \in DOMAIN table' : table'[i].recorded_at <= Now'
        /\ \A i, j \in DOMAIN table' : i < j => table'[i].recorded_at <= table'[j].recorded_at
  BY <1>k, <1>n, <1>r DEF Stamped
<1>1. ASSUME NEW v \in Values, Notify(v) PROVE Now' = Now /\ table' = table /\ ~stepped
  BY <1>1 DEF Notify, time, Now
<1>2. CASE Insert
  <2>1. Now' = Now /\ ~stepped /\ table' = Append(table, [value |-> accepted, recorded_at |-> Now])
    BY <1>2 DEF Insert, time, Now
  <2>2. DOMAIN table' = 1..Len(table) + 1 /\ DOMAIN table = 1..Len(table) /\ Len(table) \in Nat
    BY <2>1, <1>t
  <2>3. /\ table'[Len(table) + 1].recorded_at = Now
        /\ \A i \in DOMAIN table : table'[i] = table[i]
    BY <2>1, <2>2, <1>t
  <2>. QED
    BY <2>1, <2>2, <2>3, <1>n, <1>r DEF Stamped
<1>3. ASSUME InsertFails \/ Restart PROVE Now' = Now /\ table' = table /\ ~stepped
  BY <1>3 DEF InsertFails, Restart, time, Now
<1>4. CASE DeleteChannel
  BY <1>4 DEF DeleteChannel
<1>5. ASSUME Tick PROVE Now' >= Now /\ Now' \in Nat /\ table' = table /\ ~stepped
  <2>1. clock' = clock + 1 /\ shift' = shift
    BY <1>5 DEF Tick
  <2>2. (clock + 1) \div PerSecond >= clock \div PerSecond
    BY <1>n, DivMonotone, NumbersAssumption
  <2>3. (clock + 1) \div PerSecond \in Nat /\ clock \div PerSecond \in Nat
    BY <1>n, DivType, NumbersAssumption
  <2>4. Now' = ((clock + 1) \div PerSecond) + shift /\ Now = (clock \div PerSecond) + shift
    BY <2>1 DEF Now
  <2>. QED
    BY <1>5, <1>n, <2>2, <2>3, <2>4 DEF Tick
<1>6. ASSUME NEW s \in Shifts, SetClock(s)
      PROVE  Now' >= Now /\ Now' \in Nat /\ table' = table /\ ~stepped
  <2>1. s \in Nat /\ shift' = s /\ s >= shift /\ ~stepped /\ clock' = clock /\ table' = table
    <3>1. stepped' = (stepped \/ s < shift) /\ shift' = s /\ clock' = clock /\ table' = table
      BY <1>6 DEF SetClock
    <3>2. ~stepped /\ ~(s < shift)
      BY <3>1
    <3>. QED
      BY <3>1, <3>2, <1>n, NumbersAssumption
  <2>2. clock \div PerSecond \in Nat
    BY <1>n, DivType, NumbersAssumption
  <2>3. Now' = (clock \div PerSecond) + s /\ Now = (clock \div PerSecond) + shift
    BY <2>1 DEF Now
  <2>. QED
    BY <2>1, <2>2, <2>3, <1>n
<1>7. ASSUME UNCHANGED vars PROVE Now' = Now /\ table' = table /\ ~stepped
  BY <1>7 DEF vars, time, Now
<1>. QED
  BY <1>1, <1>2, <1>3, <1>4, <1>5, <1>6, <1>7, <1>k, <1>n DEF Next

\* The reading that was inserted last comes last in the order of the query.
LEMMA LastIsLatest ==
    ASSUME NEW s \in Seq(Reading),
           \A i, j \in DOMAIN s : i < j => s[i].recorded_at <= s[j].recorded_at
    PROVE  latest_by_channel(s) = Len(s)
<1>1. DOMAIN s = 1..Len(s) /\ Len(s) \in Nat
  OBVIOUS
<1>2. \A i \in DOMAIN s : s[i].recorded_at \in Nat
  <2>1. \A i \in DOMAIN s : s[i] \in Reading
    BY <1>1
  <2>. QED
    BY <2>1 DEF Reading
<1>3. CASE DOMAIN s = {}
  BY <1>1, <1>3 DEF latest_by_channel, LatestOf, NoReading
<1>4. CASE DOMAIN s # {}
  <2>1. Len(s) \in DOMAIN s /\ Len(s) >= 1
    BY <1>1, <1>4
  <2>2. \A j \in DOMAIN s \ {Len(s)} : Before(s, j, Len(s))
    BY <1>1, <1>2, <2>1 DEF Before
  <2>3. ASSUME NEW i \in DOMAIN s, \A j \in DOMAIN s \ {i} : Before(s, j, i) PROVE i = Len(s)
    <3>1. CASE i # Len(s)
      <4>1. Before(s, Len(s), i) /\ Before(s, i, Len(s))
        BY <2>1, <2>2, <2>3, <3>1
      <4>. QED
        BY <4>1, <1>1, <1>2, <2>1 DEF Before
    <3>. QED
      BY <3>1
  <2>. QED
    BY <1>4, <2>1, <2>2, <2>3 DEF latest_by_channel, LatestOf
<1>. QED
  BY <1>3, <1>4

LEMMA LatestHolds == TypeOK /\ Stamped => LatestIsLast
  BY LastIsLatest DEF TypeOK, Reading, Stamped, LatestIsLast

LEMMA StampedInit == Init => Stamped
  BY DEF Init, Stamped

\* latest_by_channel returns the reading inserted last, as long as the clock is not set
\* back.
THEOREM LatestCorrect == Spec => []LatestIsLast
<1>1. Init => TypeOK /\ Stamped
  BY TypeInit, StampedInit
<1>2. TypeOK /\ Stamped /\ [Next]_vars => (TypeOK /\ Stamped)'
  BY TypeStep, StampedStep
<1>. QED
  BY <1>1, <1>2, LatestHolds, PTL DEF Spec

-----------------------------------------------------------------------------
(* The state of the flag *)

\* The notification with which the limiter opened the current interval, and the value it had.
Opened(n, v) == n.value = v /\ (last # NoTime => n.at = last)

\* The notification that was accepted last is still a recent one, on its way into the
\* table or at its end: within the interval nothing is accepted, and nothing is forgotten
\* either.
Recorded ==
    /\ last # NoTime => recent # {}
    /\ accepted # NoValue => last # NoTime /\ \E n \in recent : Opened(n, accepted)
    /\ exists /\ accepted = NoValue /\ ~lost /\ recent # {} =>
          table # <<>> /\ \E n \in recent : Opened(n, table[Len(table)].value)

LEMMA RecordedStep == TypeOK /\ Recorded /\ [Next]_vars => Recorded'
<1>. SUFFICES ASSUME TypeOK, Recorded, [Next]_vars PROVE Recorded'
  OBVIOUS
<1>t. /\ clock \in Nat /\ last \in 0..clock \cup {NoTime} /\ MinInterval \in Nat
      /\ recent \subseteq [value : Values, at : 0..clock] /\ table \in Seq(Reading)
      /\ lost \in BOOLEAN /\ exists \in BOOLEAN
  BY NumbersAssumption, NowType DEF TypeOK, Reading
<1>1. ASSUME NEW v \in Values, Notify(v) PROVE Recorded'
  <2>0. v # NoValue
    BY ValuesAssumption
  <2>1. [value |-> v, at |-> clock] \in recent'
    BY <1>1 DEF Notify
  <2>2. CASE ShouldEmit
    <3>1. accepted' = v /\ last' = clock /\ last' # NoTime
      BY <1>1, <2>2, <1>t DEF Notify, NoteEmit, NoTime
    <3>. QED
      BY <3>1, <2>0, <2>1 DEF Recorded, Opened
  <2>3. CASE ~ShouldEmit
    <3>1. /\ accepted' = NoValue /\ accepted = NoValue /\ last' = last /\ last # NoTime
          /\ clock - last < MinInterval
      BY <1>1, <2>3, <1>t DEF Notify, NoteEmit, ShouldEmit
    <3>2. table' = table /\ lost' = lost /\ exists' = exists
      BY <1>1 DEF Notify
    <3>3. \A n \in recent : n.at = last => n \in recent'
      BY <1>1, <3>1 DEF Notify
    <3>4. recent' # {}
      BY <2>1
    <3>5. CASE exists /\ ~lost
      <4>1. table # <<>> /\ \E n \in recent : Opened(n, table[Len(table)].value)
        BY <3>1, <3>5 DEF Recorded
      <4>2. \E n \in recent' : n.value = table[Len(table)].value /\ n.at = last
        BY <4>1, <3>1, <3>3 DEF Opened
      <4>. QED
        BY <3>1, <3>2, <3>4, <4>1, <4>2 DEF Recorded, Opened
    <3>. QED
      BY <3>1, <3>2, <3>4, <3>5 DEF Recorded
  <2>. QED
    BY <2>2, <2>3
<1>2. CASE Insert
  <2>1. PICK n \in recent : Opened(n, accepted)
    BY <1>2 DEF Insert, Recorded
  <2>2. recent' = recent /\ last' = last /\ accepted' = NoValue
    BY <1>2 DEF Insert
  <2>3. table' = Append(table, [value |-> accepted, recorded_at |-> Now])
    BY <1>2 DEF Insert
  <2>4. table' # <<>> /\ table'[Len(table')].value = accepted
    <3>1. Len(table) \in Nat /\ Len(table') = Len(table) + 1
      BY <2>3, <1>t
    <3>2. table'[Len(table) + 1] = [value |-> accepted, recorded_at |-> Now]
      BY <2>3, <1>t
    <3>. QED
      BY <3>1, <3>2
  <2>. QED
    BY <2>1, <2>2, <2>4 DEF Recorded, Opened
<1>3. CASE InsertFails
  BY <1>3 DEF InsertFails, Recorded
<1>4. CASE DeleteChannel
  BY <1>4 DEF DeleteChannel, Recorded, Opened
<1>5. CASE Restart
  BY <1>5 DEF Restart, Recorded, Opened
<1>6. CASE Tick
  BY <1>6 DEF Tick, Recorded, Opened
<1>7. ASSUME NEW s \in Shifts, SetClock(s) PROVE Recorded'
  BY <1>7 DEF SetClock, Recorded, Opened
<1>8. CASE UNCHANGED vars
  BY <1>8 DEF vars, Recorded, Opened
<1>. QED
  BY <1>1, <1>2, <1>3, <1>4, <1>5, <1>6, <1>7, <1>8 DEF Next

LEMMA RecordedInit == Init => Recorded
  BY DEF Init, Recorded

\* The recorded state of the flag is one that the device reported less than the interval
\* before its last notification.
THEOREM StateCorrect == Spec => []StateIsRecent
<1>1. Init => TypeOK /\ Stamped /\ Recorded
  BY TypeInit, StampedInit, RecordedInit
<1>2. TypeOK /\ Stamped /\ Recorded /\ [Next]_vars => (TypeOK /\ Stamped /\ Recorded)'
  BY TypeStep, StampedStep, RecordedStep
<1>3. TypeOK /\ Stamped /\ Recorded => StateIsRecent
  <2>. SUFFICES ASSUME TypeOK, Stamped, Recorded, exists, accepted = NoValue, ~lost, ~stepped,
                       recent # {}
                PROVE  \E n \in recent : n.value = table[latest_by_channel(table)].value
    BY DEF StateIsRecent
  <2>1. latest_by_channel(table) = Len(table)
    BY LatestHolds DEF LatestIsLast
  <2>2. \E n \in recent : Opened(n, table[Len(table)].value)
    BY DEF Recorded
  <2>. QED
    BY <2>1, <2>2 DEF Opened
<1>. QED
  BY <1>1, <1>2, <1>3, PTL DEF Spec

-----------------------------------------------------------------------------
(* The chart *)

\* Some reading comes last in the order of the queries.
LEMMA LatestExists ==
    ASSUME NEW s \in Seq(Reading), NEW ids, ids \subseteq DOMAIN s, ids # {}
    PROVE  \E i \in ids : \A j \in ids \ {i} : Before(s, j, i)
<1>. DEFINE later(i) == {j \in ids : Before(s, i, j)}
            sets == {later(i) : i \in ids}
<1>1. DOMAIN s = 1..Len(s) /\ Len(s) \in Nat
  OBVIOUS
<1>2. \A i \in ids : i \in Nat /\ s[i].recorded_at \in Nat
  <2>1. \A i \in ids : s[i] \in Reading /\ i \in Nat
    BY <1>1
  <2>. QED
    BY <2>1 DEF Reading
<1>3. IsFiniteSet(ids)
  <2>1. IsFiniteSet(1..Len(s)) /\ ids \in SUBSET (1..Len(s))
    BY <1>1, FS_Interval
  <2>. QED
    BY <2>1, FS_Subset
<1>4. IsWellFoundedOn(StrictSubsetOrdering(ids), FiniteSubsetsOf(ids))
  BY FS_StrictSubsetOrderingWellFounded
<1>5. sets \subseteq FiniteSubsetsOf(ids) /\ sets # {}
  <2>1. \A i \in ids : later(i) \in SUBSET ids
    OBVIOUS
  <2>2. \A i \in ids : IsFiniteSet(later(i))
    BY <2>1, <1>3, FS_Subset
  <2>. QED
    BY <2>1, <2>2 DEF FiniteSubsetsOf
<1>6. PICK T \in sets : \A U \in sets : <<U, T>> \notin StrictSubsetOrdering(ids)
  BY <1>4, <1>5, WFMin
<1>7. PICK i \in ids : T = later(i)
  OBVIOUS
<1>8. later(i) = {}
  <2>. SUFFICES ASSUME NEW j \in later(i) PROVE FALSE
    OBVIOUS
  <2>1. later(j) \subseteq later(i) /\ j \notin later(j)
    BY <1>2 DEF Before
  <2>2. <<later(j), later(i)>> \in StrictSubsetOrdering(ids)
    BY <2>1 DEF StrictSubsetOrdering
  <2>. QED
    BY <2>2, <1>6, <1>7
<1>9. \A j \in ids \ {i} : Before(s, j, i)
  BY <1>2, <1>8 DEF Before
<1>. QED
  BY <1>9

LEMMA LatestIs ==
    ASSUME NEW s \in Seq(Reading), NEW ids, ids \subseteq DOMAIN s, ids # {}
    PROVE  /\ LatestOf(s, ids) \in ids
           /\ \A j \in ids \ {LatestOf(s, ids)} : Before(s, j, LatestOf(s, ids))
  BY LatestExists DEF LatestOf

\* The label of a bucket is the stamp of its latest reading.
LEMMA LabelledIs ==
    ASSUME NEW s \in Seq(Reading), NEW ids, ids \subseteq DOMAIN s, ids # {}
    PROVE  /\ \E i \in ids : Labelled(s, ids) = s[i].recorded_at
           /\ \A j \in ids : s[j].recorded_at <= Labelled(s, ids)
<1>. DEFINE stamps == {s[i].recorded_at : i \in ids}
<1>1. PICK i \in ids : \A j \in ids \ {i} : Before(s, j, i)
  BY LatestExists
<1>2. stamps \subseteq Nat
  <2>1. \A j \in ids : s[j] \in Reading
    OBVIOUS
  <2>. QED
    BY <2>1 DEF Reading
<1>3. s[i].recorded_at \in stamps /\ \A y \in stamps : s[i].recorded_at >= y
  <2>1. \A j \in ids : s[j].recorded_at \in Nat
    BY <1>2
  <2>2. \A j \in ids : s[i].recorded_at >= s[j].recorded_at
    BY <2>1, <1>1 DEF Before
  <2>. QED
    BY <2>2
<1>4. Max(stamps) \in stamps /\ \A y \in stamps : Max(stamps) >= y
  BY <1>3 DEF Max
<1>. QED
  BY <1>2, <1>4 DEF Labelled

\* Division by the length of a bucket keeps the order.
LEMMA DivOrder ==
    ASSUME NEW a \in Nat, NEW b \in Nat, NEW p \in Nat \ {0}, a <= b
    PROVE  a \div p <= b \div p
<1> DEFINE q == a \div p
           r == b \div p
<1>1. q \in Int /\ r \in Int
  BY Z3
<1>2. p * q <= a /\ b < p * r + p
  BY Z3
<1>3. p * q < p * (r + 1)
  BY <1>1, <1>2, Z3
<1>4. q < r + 1
  BY <1>1, <1>3, Z3
<1> QED  BY <1>1, <1>4, Z3

\* For every table the chart of a window ends with the latest reading, if the window has
\* it, and its points are in the order of their labels: buckets are numbered by the
\* epoch and not by the window, and labelled with the last of their readings.
LEMMA ChartEnds == TypeOK => ChartEndsWithLatest
<1>. SUFFICES ASSUME TypeOK PROVE ChartEndsWithLatest
  OBVIOUS
<1>. DEFINE in == Since(table, Now - Window)
            of(b) == {i \in in : table[i].recorded_at \div Bucket = b}
            latest == latest_by_channel(table)
<1>1. table \in Seq(Reading) /\ in \subseteq DOMAIN table
  BY DEF TypeOK, Reading, Since
<1>2. \A i \in DOMAIN table : table[i].recorded_at \in Nat /\ i \in Nat
  <2>1. \A i \in DOMAIN table : table[i] \in Reading /\ i \in Nat
    BY <1>1
  <2>. QED
    BY <2>1 DEF Reading
<1>3. Bucket \in Nat \ {0}
  BY NumbersAssumption
<1>4. /\ DOMAIN Points = {table[i].recorded_at \div Bucket : i \in in}
      /\ \A b \in DOMAIN Points : /\ Points[b].of = of(b) /\ of(b) # {}
                                  /\ Points[b].recorded_at = Labelled(table, of(b))
  BY DEF Points, downsample_since, Buckets
<1>5. DOMAIN Points \subseteq Nat
  BY <1>1, <1>2, <1>3, <1>4, DivType
<1>6. ASSUME NEW b \in DOMAIN Points
      PROVE  /\ \E i \in of(b) : Points[b].recorded_at = table[i].recorded_at
             /\ \A j \in of(b) : table[j].recorded_at <= Points[b].recorded_at
  <2>1. of(b) # {} /\ of(b) \subseteq DOMAIN table
    BY <1>1, <1>4
  <2>. HIDE DEF of
  <2>. QED
    BY <2>1, <1>1, <1>4, LabelledIs
<1>7. ASSUME NEW b \in DOMAIN Points, NEW c \in DOMAIN Points, b < c
      PROVE  Points[b].recorded_at < Points[c].recorded_at
  <2>1. PICK i \in of(b) : Points[b].recorded_at = table[i].recorded_at
    BY <1>6
  <2>2. PICK j \in of(c) : Points[c].recorded_at = table[j].recorded_at
    BY <1>6
  <2>3. table[i].recorded_at \in Nat /\ table[j].recorded_at \in Nat
    BY <1>1, <1>2
  <2>4. ~(table[j].recorded_at <= table[i].recorded_at)
    <3>1. ASSUME table[j].recorded_at <= table[i].recorded_at PROVE c <= b
      BY <2>3, <3>1, <1>3, DivOrder
    <3>. QED
      BY <3>1, <1>5, <1>7
  <2>. QED
    BY <2>1, <2>2, <2>3, <2>4
<1>8. UNION {Points[b].of : b \in DOMAIN Points} = in
  <2>1. \A i \in in : table[i].recorded_at \div Bucket \in DOMAIN Points
    BY <1>4
  <2>2. \A i \in in : i \in of(table[i].recorded_at \div Bucket)
    OBVIOUS
  <2>3. \A b \in DOMAIN Points : Points[b].of \subseteq in
    BY <1>4
  <2>4. \A i \in in : \E b \in DOMAIN Points : i \in Points[b].of
    BY <2>1, <2>2, <1>4
  <2>. QED
    BY <2>3, <2>4
<1>9. \A b, c \in DOMAIN Points : b # c => Points[b].of \cap Points[c].of = {}
  BY <1>4
<1>10. ASSUME latest \in in
       PROVE  LET end == Points[Max(DOMAIN Points)]
              IN  latest \in end.of /\ end.recorded_at = table[latest].recorded_at
  <2>. DEFINE e == table[latest].recorded_at \div Bucket
  <2>1. \A j \in DOMAIN table : table[j].recorded_at <= table[latest].recorded_at
    BY <1>1, <1>2, <1>10, LatestIs DEF latest_by_channel, Before
  <2>2. latest \in of(e) /\ e \in DOMAIN Points
    BY <1>4, <1>10
  <2>3. ASSUME NEW b \in DOMAIN Points PROVE b <= e
    <3>1. PICK i \in in : b = table[i].recorded_at \div Bucket
      BY <1>4
    <3>2. i \in DOMAIN table /\ latest \in DOMAIN table
      BY <1>1, <1>10
    <3>. QED
      BY <3>1, <3>2, <2>1, <1>2, <1>3, DivOrder
  <2>4. Max(DOMAIN Points) = e
    BY <2>2, <2>3, <1>5 DEF Max
  <2>5. Points[e].recorded_at = table[latest].recorded_at
    <3>1. PICK i \in of(e) : Points[e].recorded_at = table[i].recorded_at
      BY <2>2, <1>6
    <3>2. table[latest].recorded_at <= Points[e].recorded_at
      BY <2>2, <1>6
    <3>3. i \in DOMAIN table /\ latest \in DOMAIN table
      BY <1>1, <1>10
    <3>4. table[i].recorded_at \in Nat /\ table[latest].recorded_at \in Nat
          /\ table[i].recorded_at <= table[latest].recorded_at
      BY <3>3, <1>2, <2>1
    <3>. QED
      BY <3>1, <3>2, <3>4
  <2>. QED
    BY <2>2, <2>4, <2>5, <1>4
<1>. QED
  BY <1>7, <1>8, <1>9, <1>10 DEF ChartEndsWithLatest

\* The chart ends where the flag stands, whatever the clock was set to in between.
THEOREM ChartCorrect == Spec => []ChartEndsWithLatest
  BY TypeInit, TypeStep, ChartEnds, PTL DEF Spec

=============================================================================
