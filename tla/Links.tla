------------------------------- MODULE Links -------------------------------
(***************************************************************************)
(* What the rest of the server may know of the Bluetooth backend: for each *)
(* address, is a worker registered, and how far is it.                     *)
(*                                                                         *)
(*      none --> connecting --> up --> closing --> none                    *)
(*                    \----------------/                                   *)
(*                                                                         *)
(* Any worker may be unregistered (--> none).  A worker that is closing is *)
(* not dialled again before it has ended, and a link never comes up that   *)
(* nobody asked for.  BluepyManager implements this specification, and the *)
(* modules that abstract the backend (ReconnectMonitor, ScanWindow,        *)
(* ChannelSubscriptions) keep to it.                                       *)
(***************************************************************************)
CONSTANT Peers              \* addresses of peripherals
VARIABLE state              \* state[a]: of the worker registered for a

States == {"none", "connecting", "up", "closing"}

\* A server that starts with the links activate() has brought up or left trying.
Init == state \in [Peers -> States \ {"closing"}]

Becomes(a, from, to) == /\ state[a] \in from
                        /\ state' = [state EXCEPT ![a] = to]

Ask(a)    == Becomes(a, {"none"}, "connecting")
Answer(a) == Becomes(a, {"connecting"}, "up")
Fail(a)   == Becomes(a, {"connecting"}, "closing")
Lose(a)   == Becomes(a, {"up"}, "closing")
Forget(a) == Becomes(a, {"connecting", "up", "closing"}, "none")

Next == \E a \in Peers : Ask(a) \/ Answer(a) \/ Fail(a) \/ Lose(a) \/ Forget(a)

Spec == Init /\ [][Next]_state
=============================================================================
