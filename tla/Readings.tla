------------------------------ MODULE Readings ------------------------------
(***************************************************************************)
(* The queries of db/readings.py on the readings of one channel.  A table  *)
(* of readings is a sequence: its indices are the ids, in the order of     *)
(* insertion, and a reading has a value and recorded_at, the UTC second of *)
(* its insertion.                                                          *)
(***************************************************************************)
EXTENDS Integers, Sequences, FiniteSets, FiniteSetsExt

NoReading == 0

\* Mutant: readings of one second come in any order, here the first one wins.
Before_SecondsOnly(table, i, j) == \/ table[i].recorded_at < table[j].recorded_at
                                   \/ table[i].recorded_at = table[j].recorded_at /\ i > j

\* ORDER BY recorded_at, id
Before(table, i, j) == \/ table[i].recorded_at < table[j].recorded_at
                       \/ table[i].recorded_at = table[j].recorded_at /\ i < j

\* ... DESC LIMIT 1
LatestOf(table, ids) ==
    IF ids = {} THEN NoReading
    ELSE CHOOSE i \in ids : \A j \in ids \ {i} : Before(table, j, i)

latest_by_channel(table) == LatestOf(table, DOMAIN table)

\* ... AND value >= threshold
latest_at_or_above(table, threshold) ==
    LatestOf(table, {i \in DOMAIN table : table[i].value >= threshold})

\* ORDER BY recorded_at, id LIMIT limit, which leaves the oldest.
list_by_channel(table, limit) ==
    {i \in DOMAIN table : Cardinality({j \in DOMAIN table \ {i} : Before(table, j, i)}) < limit}

\* WHERE recorded_at >= since
Since(table, since) == {i \in DOMAIN table : table[i].recorded_at >= since}

\* GROUP BY the number of the bucket
Buckets(table, since, bucket) == {table[i].recorded_at \div bucket : i \in Since(table, since)}

\* Mutant: a bucket is labelled with its first reading.
Labelled_First(table, ids) == Min({table[i].recorded_at : i \in ids})

\* MAX(recorded_at)
Labelled(table, ids) == Max({table[i].recorded_at : i \in ids})

\* AVG(value) is kept as the readings whose average it is.
downsample_since(table, since, bucket) ==
    [b \in Buckets(table, since, bucket) |->
        LET ids == {i \in Since(table, since) : table[i].recorded_at \div bucket = b}
        IN  [of |-> ids, recorded_at |-> Labelled(table, ids)]]
=============================================================================
