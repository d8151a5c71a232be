--------------------------- MODULE DeviceRegistry ---------------------------
(***************************************************************************)
(* The devices table over the life of a database file.  Every start of the *)
(* server adds the columns the file does not have yet (apply_migrations)   *)
(* and fills in addr_type, with which a peripheral is dialled, for the     *)
(* rows that are older than the column.  Then requests register, label and *)
(* remove devices.  The process may die at any moment; every statement is  *)
(* committed by itself (isolation_level=None).                             *)
(***************************************************************************)
EXTENDS Integers, FiniteSets

CONSTANTS
    Addresses,  \* addresses as they are spelled
    Inferred,   \* infer_addr_type
    Labels,     \* labels users give
    Requests,   \* bound: requests that are served at one time
    MaxId,      \* bound: ids the table hands out
    NoAddress,  \* the address of a row that is not there
    NoLabel,    \* NULL
    NoType      \* the type of a row that nobody has chosen one for

Types == {"public", "random"}

ASSUME InferredAssumption == Inferred \in [Addresses -> Types]
ASSUME MaxIdAssumption == MaxId \in Nat
ASSUME NamesAssumption == NoAddress \notin Addresses /\ NoType \notin Types

NoId    == 0
Ids     == 1..MaxId
Columns == {"addr_type", "last_connected_at", "label"}
Row     == [address : Addresses \cup {NoAddress}, addr_type : Types, label : Labels \cup {NoLabel}]
NoRow   == [address |-> NoAddress, addr_type |-> "public", label |-> NoLabel]
Seen    == [id : Ids \cup {NoId}, address : Addresses \cup {NoAddress}]
Nothing == [id |-> NoId, address |-> NoAddress]

VARIABLES
    cols,       \* columns the file has, of those that came later
    rows,       \* rows[id]; a column that is not there reads as its default
    nextId,     \* AUTOINCREMENT
    phase,      \* where the start of the server is
    found,      \* the columns apply_migrations has read
    todo,       \* ids it has still to fill in
    pc, at,     \* where a request is, with the row it has read or created
    given,      \* history: the type a row was registered with, NoType if it is older
    torn        \* history: rows that a crash has kept from being filled in

file    == <<cols, rows, nextId>>
start   == <<phase, found, todo>>
threads == <<pc, at>>
vars    == <<file, start, threads, given, torn>>

TypeOK ==
    /\ cols \subseteq Columns
    /\ rows \in [Ids -> Row]
    /\ nextId \in 1..MaxId + 1
    /\ phase \in {"down", "addr_type", "select", "fill", "stamps", "labels", "serving"}
    /\ found \subseteq Columns
    /\ todo \subseteq Ids
    /\ pc \in [Requests -> {"idle", "connect", "remove", "label"}]
    /\ at \in [Requests -> Seen]
    /\ given \in [Ids -> Types \cup {NoType}]
    /\ torn \subseteq Ids
    /\ \A id \in Ids : id >= nextId \/ rows[id].address = NoAddress => rows[id] = NoRow
    /\ \A r \in Requests : pc[r] # "idle" => phase = "serving" /\ at[r].id \in 1..nextId - 1

Registered == {id \in Ids : rows[id].address # NoAddress}

\* A file of any version of the server, with devices in it.
Init ==
    /\ cols \in {{}, {"addr_type"}, {"addr_type", "last_connected_at"}, Columns}
    /\ nextId \in 1..MaxId + 1
    /\ rows \in [Ids -> Row]
    /\ given \in [Ids -> Types \cup {NoType}]
    /\ \A id \in Ids :
        /\ id >= nextId => rows[id] = NoRow
        /\ rows[id].address = NoAddress => rows[id] = NoRow
        /\ IF "addr_type" \in cols /\ rows[id] # NoRow
           THEN given[id] = rows[id].addr_type
           ELSE given[id] = NoType /\ rows[id].addr_type = "public"
        /\ "label" \notin cols => rows[id].label = NoLabel
    /\ \A i, j \in Registered : rows[i].address = rows[j].address => i = j
    /\ phase = "down" /\ found = {} /\ todo = {}
    /\ pc = [r \in Requests |-> "idle"]
    /\ at = [r \in Requests |-> Nothing]
    /\ torn = {}

-----------------------------------------------------------------------------
(* initialize and apply_migrations, statement by statement *)

To(p) == phase' = p /\ UNCHANGED <<rows, nextId, threads, given>>

\* PRAGMA table_info
Begin ==
    /\ phase = "down"
    /\ found' = cols
    /\ To("addr_type")
    /\ UNCHANGED <<cols, todo, torn>>

\* Mutant: the rows are filled in at every start.
AddAddrType_Always ==
    /\ phase = "addr_type"
    /\ cols' = cols \cup {"addr_type"}
    /\ To("select")
    /\ UNCHANGED <<found, todo, torn>>

\* ALTER TABLE, if the column was not found: every row has the default.
AddAddrType ==
    /\ phase = "addr_type"
    /\ IF "addr_type" \in found
       THEN cols' = cols /\ To("stamps")
       ELSE cols' = cols \cup {"addr_type"} /\ To("select")
    /\ UNCHANGED <<found, todo, torn>>

Select ==
    /\ phase = "select"
    /\ todo' = Registered
    /\ To("fill")
    /\ UNCHANGED <<cols, found, torn>>

\* One UPDATE per row.
Fill ==
    /\ phase = "fill"
    /\ \E id \in todo :
        /\ \A i \in todo : id <= i
        /\ rows' = [rows EXCEPT ![id].addr_type = Inferred[rows[id].address]]
        /\ todo' = todo \ {id}
    /\ UNCHANGED <<cols, nextId, phase, found, threads, given, torn>>

\* Mutant: the later columns are added in the block of the first.
Filled_SkipsLater ==
    /\ phase = "fill" /\ todo = {}
    /\ To("serving")
    /\ UNCHANGED <<cols, found, todo, torn>>

Filled ==
    /\ phase = "fill" /\ todo = {}
    /\ To("stamps")
    /\ UNCHANGED <<cols, found, todo, torn>>

\* ALTER TABLE, if the column was not found.
\* A column that was found is not added again: cols is a set.
AddLastConnectedAt ==
    /\ phase = "stamps"
    /\ cols' = cols \cup {"last_connected_at"}
    /\ To("labels")
    /\ UNCHANGED <<found, todo, torn>>

AddLabel ==
    /\ phase = "labels"
    /\ cols' = cols \cup {"label"}
    /\ To("serving")
    /\ UNCHANGED <<found, todo, torn>>

\* The process is killed or the board loses power; what the next start finds is what
\* has been committed.  A column that is there is not filled in again.
Crash ==
    /\ phase # "down"
    /\ phase' = "down"
    /\ found' = {} /\ todo' = {}
    /\ pc' = [r \in Requests |-> "idle"]
    /\ at' = [r \in Requests |-> Nothing]
    /\ torn' = torn \cup todo \cup (IF phase = "select" THEN Registered ELSE {})
    /\ UNCHANGED <<file, given>>

-----------------------------------------------------------------------------
(* Requests *)

Done(r) ==
    /\ pc' = [pc EXCEPT ![r] = "idle"]
    /\ at' = [at EXCEPT ![r] = Nothing]

\* Mutant: ids are those of the rows that are there (no AUTOINCREMENT).
Create_ReusesIds(r, a, t) ==
    /\ phase = "serving" /\ pc[r] = "idle"
    /\ \A id \in Registered : rows[id].address # a
    /\ \E id \in Ids \ Registered :
        /\ \A i \in Ids \ Registered : id <= i
        /\ rows' = [rows EXCEPT ![id] = [address |-> a, addr_type |-> t, label |-> NoLabel]]
        /\ given' = [given EXCEPT ![id] = t]
        /\ at' = [at EXCEPT ![r] = [id |-> id, address |-> a]]
        /\ nextId' = IF id = nextId THEN id + 1 ELSE nextId
    /\ pc' = [pc EXCEPT ![r] = "connect"]
    /\ UNCHANGED <<cols, start, torn>>

\* add_device: the type is the one of the form, if it is a type, or the inferred one;
\* the address must be new.
Create(r, a, t) ==
    /\ phase = "serving" /\ pc[r] = "idle" /\ nextId <= MaxId
    /\ \A id \in Registered : rows[id].address # a
    /\ rows' = [rows EXCEPT ![nextId] = [address |-> a, addr_type |-> t, label |-> NoLabel]]
    /\ given' = [given EXCEPT ![nextId] = t]
    /\ at' = [at EXCEPT ![r] = [id |-> nextId, address |-> a]]
    /\ nextId' = nextId + 1
    /\ pc' = [pc EXCEPT ![r] = "connect"]
    /\ UNCHANGED <<cols, start, torn>>

\* The connection is made or not; the row is read back, or has been removed meanwhile.
Connected(r) ==
    /\ pc[r] = "connect"
    /\ Done(r)
    /\ UNCHANGED <<file, start, given, torn>>

\* remove_device and set_label read the row first ...
Read(r, id, what) ==
    /\ phase = "serving" /\ pc[r] = "idle" /\ id \in Registered
    /\ pc' = [pc EXCEPT ![r] = what]
    /\ at' = [at EXCEPT ![r] = [id |-> id, address |-> rows[id].address]]
    /\ UNCHANGED <<file, start, given, torn>>

\* ... and change it by its id, if it is still there.
Delete(r) ==
    /\ pc[r] = "remove"
    /\ rows' = [rows EXCEPT ![at[r].id] = NoRow]
    /\ Done(r)
    /\ UNCHANGED <<cols, nextId, start, given, torn>>

\* The connection could not be ended: the row stays.
DeleteFails(r) ==
    /\ pc[r] = "remove"
    /\ Done(r)
    /\ UNCHANGED <<file, start, given, torn>>

\* Mutant: an upsert.
SetLabel_Upserts(r, l) ==
    /\ pc[r] = "label"
    /\ rows' = [rows EXCEPT ![at[r].id].label = l]
    /\ Done(r)
    /\ UNCHANGED <<cols, nextId, start, given, torn>>

SetLabel(r, l) ==
    /\ pc[r] = "label"
    /\ rows' = IF at[r].id \in Registered THEN [rows EXCEPT ![at[r].id].label = l] ELSE rows
    /\ Done(r)
    /\ UNCHANGED <<cols, nextId, start, given, torn>>

Initialize == Begin \/ AddAddrType \/ Select \/ Fill \/ Filled \/ AddLastConnectedAt \/ AddLabel

Next ==
    \/ Initialize \/ Crash
    \/ \E r \in Requests :
        \/ \E a \in Addresses, t \in Types : Create(r, a, t)
        \/ Connected(r)
        \/ \E id \in Ids, what \in {"remove", "label"} : Read(r, id, what)
        \/ Delete(r) \/ DeleteFails(r)
        \/ \E l \in Labels \cup {NoLabel} : SetLabel(r, l)

Spec == Init /\ [][Next]_vars

-----------------------------------------------------------------------------
(* Properties *)

\* The type a row is dialled with, when the server serves: the one it was registered
\* with, whatever starts came after ("values written later are never overwritten"), or
\* for a row older than the column the one inferred from its address - unless a crash
\* came between the ALTER TABLE and its UPDATE, after which it stays "public".
DialledAsGiven ==
    phase = "serving" => \A id \in Registered :
        rows[id].addr_type = IF given[id] # NoType THEN given[id]
                             ELSE IF id \in torn THEN "public"
                             ELSE Inferred[rows[id].address]

\* A server that serves has every column its queries name, also when earlier starts
\* were cut off at any statement.
SchemaComplete == phase = "serving" => cols = Columns

\* A request changes the registration that it has read, never another one that was made
\* since, although it changes it by id and in a second statement.
ChangesItsOwn ==
    [][\A r \in Requests : pc[r] \in {"remove", "label"} /\ pc'[r] = "idle" /\ rows' # rows =>
        rows[at[r].id].address = at[r].address]_vars
=============================================================================
