--------------------------- MODULE Announcements ---------------------------
(***************************************************************************)
(* What the dashboards are promised about the device_status events of the  *)
(* server: for every device row the events form a path of the graph        *)
(*                                                                         *)
(*      (nothing) --> any status                                           *)
(*      connected --> disconnected --> reconnecting --> connected          *)
(*                         \----------------------------/                  *)
(*                                                                         *)
(* A status is never announced twice in a row, a lost device is always     *)
(* announced as disconnected before the first retry is, and a retry is     *)
(* never announced as a fresh loss.  ReconnectMonitor implements this      *)
(* specification.                                                          *)
(***************************************************************************)
CONSTANT Ids                \* the ids of the rows of table devices
VARIABLE shown              \* shown[id]: the last status announced for row id

Statuses == {"disconnected", "reconnecting", "connected"}

Follows(old, new) ==
    CASE old = "none"         -> new \in Statuses
      [] old = "connected"    -> new = "disconnected"
      [] old = "disconnected" -> new \in {"reconnecting", "connected"}
      [] old = "reconnecting" -> new = "connected"

Init == shown = [id \in Ids |-> "none"]

Announce(id, s) == /\ Follows(shown[id], s)
                   /\ shown' = [shown EXCEPT ![id] = s]

Next == \E id \in Ids, s \in Statuses : Announce(id, s)

Spec == Init /\ [][Next]_shown
=============================================================================
