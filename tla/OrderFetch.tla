------------------------------ MODULE OrderFetch ------------------------------
(***************************************************************************)
(* What the scheduler of flexo promises about the fetching of an order,    *)
(* with no word on threads, locks, scores or channels:                     *)
(*   - an order is fetched by one job at a time: it starts only when it is *)
(*     not in flight, and providers are asked only while it is in flight;  *)
(*   - a job asks each provider at most once;                              *)
(*   - an order that leaves is forgotten, a later request starts afresh.   *)
(***************************************************************************)
CONSTANTS Orders, AllProviders

VARIABLES
    in_flight,  \* the orders a job is fetching
    asked       \* the providers the current job of an order has asked

vars == <<in_flight, asked>>

TypeOK ==
    /\ in_flight \subseteq Orders
    /\ asked \in [Orders -> SUBSET AllProviders]

Init ==
    /\ in_flight = {}
    /\ asked = [o \in Orders |-> {}]

Start(o) ==
    /\ o \notin in_flight
    /\ in_flight' = in_flight \cup {o}
    /\ UNCHANGED asked

Ask(o, p) ==
    /\ o \in in_flight
    /\ p \notin asked[o]
    /\ asked' = [asked EXCEPT ![o] = @ \cup {p}]
    /\ UNCHANGED in_flight

End(o) ==
    /\ o \in in_flight
    /\ in_flight' = in_flight \ {o}
    /\ asked' = [asked EXCEPT ![o] = {}]

Next == \E o \in Orders :
    \/ Start(o)
    \/ \E p \in AllProviders : Ask(o, p)
    \/ End(o)

Spec == Init /\ [][Next]_vars
=============================================================================
