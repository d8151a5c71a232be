------------------------ MODULE DeviceRegistryProofs ------------------------
(***************************************************************************)
(* Proofs about DeviceRegistry for every number of addresses, registra-    *)
(* tions and requests, every inference of types and every history of       *)
(* crashes and starts.  DialledAsGiven and SchemaComplete speak of a       *)
(* server that serves; Migrating and Filling say the same of one that is   *)
(* about to.                                                               *)
(***************************************************************************)
EXTENDS DeviceRegistry, TLAPS

\* How far a start is and which columns the file has: what was found is still there,
\* what was passed has been added.
Migrating ==
    /\ phase # "down" => found \subseteq cols
    /\ phase = "addr_type" => found = cols
    /\ phase \in {"select", "fill"} => "addr_type" \in cols \ found
    /\ phase \in {"stamps", "labels", "serving"} => "addr_type" \in cols
    /\ phase \in {"labels", "serving"} => "last_connected_at" \in cols
    /\ phase = "serving" => "label" \in cols
    /\ todo # {} => phase = "fill"

\* A row still waits to be filled in.
Waits(id) == phase = "select" \/ id \in todo

\* The type of a row, at every moment of the life of the file.
Filling ==
    /\ "addr_type" \notin cols \/ phase \in {"select", "fill"} =>
          \A id \in Registered : given[id] = NoType
    /\ "addr_type" \notin cols => torn = {}
    /\ todo \subseteq Registered
    /\ \A id \in Registered :
          /\ given[id] # NoType => rows[id].addr_type = given[id]
          /\ given[id] = NoType /\ ("addr_type" \notin cols \/ Waits(id) \/ id \in torn)
                => rows[id].addr_type = "public"
          /\ Waits(id) => id \notin torn
          /\ given[id] = NoType /\ "addr_type" \in cols /\ ~Waits(id) /\ id \notin torn
                => rows[id].addr_type = Inferred[rows[id].address]

\* What a request has read is gone or has not changed hands.
Held ==
    \A r \in Requests : pc[r] # "idle" => rows[at[r].id].address \in {at[r].address, NoAddress}

\* A crash in an earlier start is over for rows that are registered later.
TornIsOld == \A id \in Ids : id >= nextId => id \notin torn

IInv == TypeOK /\ Migrating /\ Filling /\ Held /\ TornIsOld

LEMMA InitInv == Init => IInv
<1>. SUFFICES ASSUME Init PROVE IInv
  OBVIOUS
<1>. USE DEF Init
<1>1. TypeOK
  BY DEF TypeOK, Columns, Row, NoRow, Seen, Nothing, NoId
<1>2. Migrating
  BY DEF Migrating
<1>3. Filling
  BY NamesAssumption DEF Filling, Registered, Waits, NoRow, Row
<1>4. Held /\ TornIsOld
  BY DEF Held, TornIsOld
<1>. QED
  BY <1>1, <1>2, <1>3, <1>4 DEF IInv

\* Every step of a start keeps all of it.
LEMMA StartStep == IInv /\ Initialize => IInv'
<1>. SUFFICES ASSUME IInv, Initialize PROVE IInv'
  OBVIOUS
<1>. USE DEF IInv
<1>0. UNCHANGED <<nextId, threads, given, torn>> /\ phase \notin {"serving"}
  BY DEF Initialize, Begin, AddAddrType, Select, Fill, Filled, AddLastConnectedAt, AddLabel, To
<1>1. \A id \in Ids : rows'[id].address = rows[id].address /\ rows'[id].label = rows[id].label
  <2>1. CASE rows' = rows
    BY <2>1
  <2>2. CASE Fill
    BY <2>2 DEF Fill, TypeOK, Row
  <2>. QED
    BY <2>1, <2>2 DEF Initialize, Begin, AddAddrType, Select, Filled, AddLastConnectedAt, AddLabel, To
<1>2. TypeOK'
  <2>1. CASE Fill
    <3>1. PICK id \in todo : rows' = [rows EXCEPT ![id].addr_type = Inferred[rows[id].address]]
                             /\ todo' = todo \ {id}
      BY <2>1 DEF Fill
    <3>2. id \in Ids /\ rows[id].address \in Addresses /\ rows[id] \in Row
      BY <3>1 DEF TypeOK, Filling, Registered, Row
    <3>3. rows' \in [Ids -> Row]
      BY <3>1, <3>2, InferredAssumption DEF TypeOK, Row
    <3>4. \A i \in Ids : i # id => rows'[i] = rows[i]
      BY <3>1, <3>2 DEF TypeOK
    <3>5. rows[id].address # NoAddress /\ ~(id >= nextId)
      BY <3>2, NamesAssumption DEF TypeOK, NoRow
    <3>6. rows'[id].address # NoAddress
      BY <1>1, <3>2, <3>5
    <3>7. \A i \in Ids : i >= nextId \/ rows'[i].address = NoAddress => rows'[i] = NoRow
      BY <3>4, <3>5, <3>6 DEF TypeOK
    <3>. QED
      BY <2>1, <1>0, <3>1, <3>3, <3>7 DEF TypeOK, Fill, threads
  <2>2. CASE Begin
    BY <2>2 DEF TypeOK, Begin, To, threads
  <2>3. CASE AddAddrType
    BY <2>3 DEF TypeOK, AddAddrType, To, threads, Columns
  <2>4. CASE Select
    BY <2>4 DEF TypeOK, Select, To, threads, Registered
  <2>5. CASE Filled \/ AddLastConnectedAt \/ AddLabel
    BY <2>5 DEF TypeOK, Filled, AddLastConnectedAt, AddLabel, To, threads, Columns
  <2>. QED
    BY <2>1, <2>2, <2>3, <2>4, <2>5 DEF Initialize
<1>3. Migrating'
  BY DEF Initialize, Begin, AddAddrType, Select, Fill, Filled, AddLastConnectedAt, AddLabel, To,
         Migrating
<1>4. Registered' = Registered
  BY <1>1 DEF Registered
<1>5. Filling'
  <2>1. CASE Begin
    BY <2>1, <1>4 DEF Begin, To, Filling, Waits, Migrating
  <2>2. CASE AddAddrType
    BY <2>2, <1>4 DEF AddAddrType, To, Filling, Waits, Migrating
  <2>3. CASE Select
    BY <2>3, <1>4 DEF Select, To, Filling, Waits, Migrating
  <2>4. CASE Fill
    <3>1. PICK id \in todo : rows' = [rows EXCEPT ![id].addr_type = Inferred[rows[id].address]]
                             /\ todo' = todo \ {id}
      BY <2>4 DEF Fill
    <3>2. id \in Registered /\ id \in Ids /\ id \notin torn /\ given[id] = NoType
      BY <2>4, <3>1 DEF Fill, Filling, Waits, Registered
    <3>3. rows'[id].addr_type = Inferred[rows'[id].address]
      BY <3>1, <3>2 DEF TypeOK, Row
    <3>4. \A i \in Registered : i # id => rows'[i] = rows[i]
      BY <3>1, <3>2 DEF TypeOK, Registered
    <3>. QED
      BY <1>0, <1>4, <2>4, <3>1, <3>2, <3>3, <3>4 DEF Fill, Filling, Waits, Migrating
  <2>5. CASE Filled \/ AddLastConnectedAt \/ AddLabel
    BY <2>5, <1>4 DEF Filled, AddLastConnectedAt, AddLabel, To, Filling, Waits, Migrating
  <2>. QED
    BY <2>1, <2>2, <2>3, <2>4, <2>5 DEF Initialize
<1>6. Held' /\ TornIsOld'
  BY <1>0, <1>1 DEF Held, TornIsOld, TypeOK, threads
<1>. QED
  BY <1>2, <1>3, <1>5, <1>6

\* A crash keeps what the file has, and the rows it has torn off.
LEMMA CrashStep == IInv /\ Crash => IInv'
<1>. SUFFICES ASSUME IInv, Crash PROVE IInv'
  OBVIOUS
<1>. USE DEF IInv, Crash, file
<1>1. TypeOK'
  BY DEF TypeOK, Seen, Nothing, NoId, Registered
<1>2. Migrating'
  BY DEF Migrating
<1>3. Registered' = Registered /\ todo \subseteq Registered
  BY DEF Registered, Filling
<1>4. Filling'
  BY <1>3 DEF Filling, Waits, Migrating
<1>5. Held'
  BY DEF Held, TypeOK
<1>6. \A id \in Registered : ~(id >= nextId)
  BY NamesAssumption DEF TypeOK, Registered, NoRow
<1>7. TornIsOld'
  BY <1>3, <1>6 DEF TornIsOld
<1>. QED
  BY <1>1, <1>2, <1>4, <1>5, <1>7

\* So does every step of a request: a server that serves has filled in what it will.
LEMMA CreateStep == ASSUME NEW r \in Requests, NEW a \in Addresses, NEW t \in Types,
                           IInv, Create(r, a, t)
                    PROVE  IInv'
<1>. USE DEF IInv
<1>. DEFINE new == [address |-> a, addr_type |-> t, label |-> NoLabel]
<1>1. /\ phase = "serving" /\ nextId \in Ids /\ new \in Row
      /\ rows' = [rows EXCEPT ![nextId] = new] /\ rows'[nextId] = new
      /\ given' = [given EXCEPT ![nextId] = t] /\ given'[nextId] = t
      /\ nextId' = nextId + 1 /\ a # NoAddress /\ t # NoType
      /\ \A id \in Ids : id # nextId => rows'[id] = rows[id] /\ given'[id] = given[id]
      /\ UNCHANGED <<cols, phase, found, todo, torn>>
  BY NamesAssumption, MaxIdAssumption DEF Create, TypeOK, Ids, Row, start
<1>2. /\ pc' = [pc EXCEPT ![r] = "connect"]
      /\ at' = [at EXCEPT ![r] = [id |-> nextId, address |-> a]]
      /\ at'[r] = [id |-> nextId, address |-> a] /\ at'[r] \in Seen /\ at'[r].id = nextId
      /\ at'[r].address = a
      /\ \A s \in Requests \ {r} : pc'[s] = pc[s] /\ at'[s] = at[s]
  BY <1>1 DEF Create, TypeOK, Seen
<1>3. rows[nextId] = NoRow /\ nextId \notin Registered
  BY <1>1 DEF TypeOK, Registered, NoRow
<1>4. TypeOK'
  <2>1. nextId' \in 1..MaxId + 1 /\ nextId \in 1..nextId' - 1
    BY <1>1, MaxIdAssumption DEF Ids
  <2>2. rows' \in [Ids -> Row] /\ given' \in [Ids -> Types \cup {NoType}]
    BY <1>1 DEF TypeOK
  <2>3. \A id \in Ids : id >= nextId' \/ rows'[id].address = NoAddress => rows'[id] = NoRow
    BY <1>1 DEF TypeOK, Ids
  <2>4. at' \in [Requests -> Seen] /\ pc' \in [Requests -> {"idle", "connect", "remove", "label"}]
    BY <1>2 DEF TypeOK
  <2>5. \A s \in Requests : pc'[s] # "idle" => phase' = "serving" /\ at'[s].id \in 1..nextId' - 1
    <3>1. ASSUME NEW s \in Requests \ {r}, pc[s] # "idle" PROVE at[s].id \in 1..nextId' - 1
      BY <1>1, <3>1 DEF TypeOK, Ids
    <3>. QED
      BY <1>1, <1>2, <2>1, <3>1
  <2>. QED
    BY <1>1, <2>1, <2>2, <2>3, <2>4, <2>5 DEF TypeOK
<1>5. Migrating'
  BY <1>1 DEF Migrating
<1>6. Registered' = Registered \cup {nextId}
  BY <1>1, <1>3 DEF Registered
<1>7. Filling'
  <2>1. todo = {} /\ "addr_type" \in cols
    BY <1>1 DEF Migrating
  <2>2. /\ phase' # "select" /\ todo' = {} /\ cols' = cols /\ torn' = torn
        /\ rows'[nextId].addr_type = given'[nextId] /\ given'[nextId] # NoType
    BY <1>1, <2>1
  <2>3. \A id \in Registered : id \in Ids /\ id # nextId /\ ~Waits(id) /\ ~Waits(id)'
    BY <1>1, <1>3, <2>1 DEF Registered, Waits
  <2>4. ASSUME NEW id \in Registered'
        PROVE  /\ given'[id] # NoType => rows'[id].addr_type = given'[id]
               /\ given'[id] = NoType /\ id \in torn => rows'[id].addr_type = "public"
               /\ given'[id] = NoType /\ id \notin torn
                     => rows'[id].addr_type = Inferred[rows'[id].address]
    <3>1. CASE id = nextId
      BY <2>2, <3>1
    <3>2. CASE id \in Registered
      BY <1>1, <2>1, <2>3, <3>2 DEF Filling
    <3>. QED
      BY <1>6, <3>1, <3>2
  <2>5. \A id \in Registered' : ~Waits(id)'
    BY <2>2 DEF Waits
  <2>6. phase' = "serving" /\ "addr_type" \in cols'
    BY <1>1, <2>1
  <2>. QED
    BY <2>2, <2>4, <2>5, <2>6 DEF Filling
<1>8. Held'
  <2>1. ASSUME NEW s \in Requests \ {r}, pc[s] # "idle"
        PROVE  at[s].id \in Ids /\ at[s].id # nextId
    <3>1. at[s].id \in 1..nextId - 1
      BY <2>1 DEF TypeOK
    <3>. QED
      BY <1>1, <3>1, MaxIdAssumption DEF Ids
  <2>. QED
    BY <1>1, <1>2, <2>1 DEF Held
<1>9. TornIsOld'
  BY <1>1 DEF TornIsOld, Ids
<1>. QED
  BY <1>4, <1>5, <1>7, <1>8, <1>9

\* The request at hand ends, and the row it has read goes or gets a label, or nothing
\* happens to it.
Ends(r) ==
    /\ pc[r] # "idle" /\ Done(r)
    /\ UNCHANGED <<cols, nextId, start, given, torn>>
    /\ \/ rows' = rows
       \/ rows' = [rows EXCEPT ![at[r].id] = NoRow]
       \/ at[r].id \in Registered /\ \E l \in Labels \cup {NoLabel} :
            rows' = [rows EXCEPT ![at[r].id].label = l]

LEMMA RequestEnds ==
    ASSUME NEW r \in Requests, Connected(r) \/ Delete(r) \/ DeleteFails(r)
                               \/ \E l \in Labels \cup {NoLabel} : SetLabel(r, l)
    PROVE  Ends(r)
  BY DEF Connected, Delete, DeleteFails, SetLabel, Ends, file

LEMMA EndStep == ASSUME NEW r \in Requests, IInv, Ends(r) PROVE IInv'
<1>. USE DEF IInv
<1>1. /\ phase = "serving" /\ at[r].id \in Ids /\ at[r].id \in 1..nextId - 1
      /\ UNCHANGED <<cols, nextId, phase, found, todo, given, torn>>
  BY MaxIdAssumption DEF TypeOK, Ends, start, Ids
<1>2. /\ pc' = [pc EXCEPT ![r] = "idle"] /\ at' = [at EXCEPT ![r] = Nothing] /\ Nothing \in Seen
      /\ pc'[r] = "idle" /\ \A s \in Requests \ {r} : pc'[s] = pc[s] /\ at'[s] = at[s]
  BY DEF Ends, Done, TypeOK, Seen, Nothing, NoId
<1>3. /\ rows' \in [Ids -> Row]
      /\ \A id \in Ids : \/ rows'[id] = NoRow
                         \/ /\ rows'[id].address = rows[id].address
                            /\ rows'[id].addr_type = rows[id].addr_type
                            /\ rows'[id].label # rows[id].label => rows[id].address # NoAddress
  <2>1. CASE rows' = rows
    BY <2>1 DEF TypeOK
  <2>2. CASE rows' = [rows EXCEPT ![at[r].id] = NoRow]
    BY <1>1, <2>2 DEF TypeOK, Row, NoRow, Types
  <2>3. ASSUME NEW l \in Labels \cup {NoLabel}, rows' = [rows EXCEPT ![at[r].id].label = l],
               at[r].id \in Registered
        PROVE  /\ rows' \in [Ids -> Row]
               /\ \A id \in Ids :
                    /\ rows'[id].address = rows[id].address
                    /\ rows'[id].addr_type = rows[id].addr_type
                    /\ rows'[id].label # rows[id].label => rows[id].address # NoAddress
    <3>1. rows[at[r].id] \in Row /\ rows[at[r].id].address # NoAddress
      BY <1>1, <2>3 DEF TypeOK, Registered
    <3>2. rows' \in [Ids -> Row]
      BY <1>1, <2>3, <3>1 DEF TypeOK, Row
    <3>3. \A id \in Ids : id # at[r].id => rows'[id] = rows[id]
      BY <1>1, <2>3 DEF TypeOK
    <3>4. /\ rows'[at[r].id].address = rows[at[r].id].address
          /\ rows'[at[r].id].addr_type = rows[at[r].id].addr_type
      BY <1>1, <2>3, <3>1 DEF TypeOK, Row
    <3>. QED
      BY <3>1, <3>2, <3>3, <3>4
  <2>. QED
    BY <2>1, <2>2, <2>3 DEF Ends
<1>4. TypeOK'
  <2>1. \A id \in Ids : id >= nextId \/ rows'[id].address = NoAddress => rows'[id] = NoRow
    <3>. SUFFICES ASSUME NEW id \in Ids, id >= nextId \/ rows'[id].address = NoAddress,
                         rows'[id] # NoRow
                  PROVE  FALSE
      OBVIOUS
    <3>1. rows'[id].address = rows[id].address /\ rows'[id].addr_type = rows[id].addr_type
          /\ (rows'[id].label # rows[id].label => rows[id].address # NoAddress)
      BY <1>3
    <3>2. rows[id] = NoRow /\ rows[id].address = NoAddress
      BY <3>1 DEF TypeOK, NoRow
    <3>3. rows'[id].label = rows[id].label /\ rows'[id] \in Row /\ rows[id] \in Row
      BY <1>3, <3>1, <3>2 DEF TypeOK
    <3>4. rows'[id] = rows[id]
      BY <3>1, <3>3 DEF Row
    <3>. QED
      BY <3>2, <3>4
  <2>2. at' \in [Requests -> Seen] /\ pc' \in [Requests -> {"idle", "connect", "remove", "label"}]
    BY <1>2 DEF TypeOK
  <2>. QED
    BY <1>1, <1>2, <1>3, <2>1, <2>2 DEF TypeOK
<1>5. Migrating' /\ TornIsOld'
  BY <1>1 DEF Migrating, TornIsOld
<1>6. \A id \in Registered' : /\ id \in Registered
                              /\ rows'[id].address = rows[id].address
                              /\ rows'[id].addr_type = rows[id].addr_type
  BY <1>3 DEF Registered, NoRow
<1>7. Filling'
  <2>1. todo = {} /\ "addr_type" \in cols /\ \A id \in Registered' : ~Waits(id) /\ ~Waits(id)'
    BY <1>1 DEF Migrating, Waits
  <2>. QED
    BY <1>1, <1>6, <2>1 DEF Filling
<1>8. Held'
  <2>1. ASSUME NEW s \in Requests \ {r}, pc[s] # "idle"
        PROVE  at[s].id \in Ids /\ rows'[at[s].id].address \in {rows[at[s].id].address, NoAddress}
    <3>1. at[s].id \in Ids
      BY <2>1, MaxIdAssumption DEF TypeOK, Ids
    <3>. QED
      BY <1>3, <3>1 DEF NoRow
  <2>. QED
    BY <1>2, <2>1 DEF Held
<1>. QED
  BY <1>4, <1>5, <1>7, <1>8

LEMMA ReadStep == ASSUME NEW r \in Requests, NEW id \in Ids, NEW what \in {"remove", "label"},
                         IInv, Read(r, id, what)
                  PROVE  IInv'
<1>. USE DEF IInv, Read, file, start
<1>1. id \in 1..nextId - 1 /\ rows[id].address \in Addresses \cup {NoAddress}
  BY NamesAssumption, MaxIdAssumption DEF TypeOK, Registered, Ids, NoRow, Row
<1>2. /\ at'[r] = [id |-> id, address |-> rows[id].address] /\ at'[r] \in Seen
      /\ at'[r].id = id /\ at'[r].address = rows[id].address
      /\ \A s \in Requests \ {r} : pc'[s] = pc[s] /\ at'[s] = at[s]
  BY <1>1 DEF TypeOK, Seen
<1>3. TypeOK'
  BY <1>1, <1>2 DEF TypeOK
<1>4. Migrating' /\ TornIsOld'
  BY DEF Migrating, TornIsOld
<1>5. Filling'
  BY DEF Filling, Waits, Registered
<1>6. Held'
  BY <1>2 DEF Held
<1>. QED
  BY <1>3, <1>4, <1>5, <1>6

LEMMA StutterStep == IInv /\ UNCHANGED vars => IInv'
  BY DEF IInv, TypeOK, Migrating, Filling, Held, TornIsOld, Waits, Registered,
         vars, file, start, threads

LEMMA Step == IInv /\ [Next]_vars => IInv'
  BY StartStep, CrashStep, CreateStep, RequestEnds, EndStep, ReadStep, StutterStep DEF Next

-----------------------------------------------------------------------------
\* Types, for every file, every number of requests and every history of crashes.
THEOREM TypeCorrect == Spec => []TypeOK
<1>1. IInv => TypeOK
  BY DEF IInv
<1>. QED
  BY InitInv, Step, <1>1, PTL DEF Spec

\* apply_migrations may be cut off anywhere and repeated: no later start changes the
\* type a row was given, only the rows named in torn keep the default, and a server that
\* serves has every column.
THEOREM MigrationCorrect == Spec => [](DialledAsGiven /\ SchemaComplete)
<1>1. IInv => DialledAsGiven
  BY DEF IInv, DialledAsGiven, Filling, Migrating, Waits
<1>2. IInv => SchemaComplete
  BY DEF IInv, SchemaComplete, Migrating, TypeOK, Columns
<1>. QED
  BY InitInv, Step, <1>1, <1>2, PTL DEF Spec

\* Removals and labels reach the registration they were meant for.
THEOREM OwnChanges == Spec => ChangesItsOwn
<1>. DEFINE Own == \A r \in Requests : pc[r] \in {"remove", "label"} /\ pc'[r] = "idle"
                      /\ rows' # rows => rows[at[r].id].address = at[r].address
<1>1. IInv /\ [Next]_vars => Own
  <2>. SUFFICES ASSUME IInv, [Next]_vars, rows' # rows,
                       NEW r \in Requests, pc[r] \in {"remove", "label"}, pc'[r] = "idle"
                PROVE  rows[at[r].id].address = at[r].address
    OBVIOUS
  <2>0. phase = "serving" /\ at[r].id \in Ids /\ rows[at[r].id].address \in {at[r].address, NoAddress}
    BY MaxIdAssumption DEF IInv, TypeOK, Held, Ids
  <2>1. PICK s \in Requests : Ends(s) \/ \E a \in Addresses, t \in Types : Create(s, a, t)
    BY <2>0, RequestEnds DEF Next, Initialize, Begin, AddAddrType, Select, Fill, Filled,
       AddLastConnectedAt, AddLabel, Crash, Read, vars, file
  <2>2. s = r
    BY <2>1 DEF Ends, Done, Create, IInv, TypeOK
  <2>3. Ends(r)
    BY <2>1, <2>2 DEF Create
  <2>4. rows[at[r].id] # NoRow \/ at[r].id \in Registered
    BY <2>0, <2>3 DEF Ends, IInv, TypeOK
  <2>5. rows[at[r].id].address # NoAddress
    BY <2>0, <2>4 DEF Registered, IInv, TypeOK
  <2>. QED
    BY <2>0, <2>5
<1>. QED
  BY InitInv, Step, <1>1, PTL DEF Spec, ChangesItsOwn
=============================================================================
