--------------------------- MODULE DeliveryPromise ---------------------------
(***************************************************************************)
(* What the delivery queue promises to the code that dispatches an event:  *)
(* an event, once enqueued, stays in the table, and is called delivered    *)
(* only when a client has acknowledged it by its id.  It may be received   *)
(* any number of times (at least once, not exactly once).  That the client *)
(* is one of the addressee, and has received the event, is up to the       *)
(* clients: an acknowledgement may come from another one, or ahead.        *)
(***************************************************************************)
CONSTANT Items

VARIABLES
    status,       \* of each event: none (not enqueued), pending, delivered
    acknowledged  \* the events some client has received or acknowledged

Init == status = [i \in Items |-> "none"] /\ acknowledged = {}

Enqueue(i) == status[i] = "none" /\ status' = [status EXCEPT ![i] = "pending"] /\ UNCHANGED acknowledged

Acknowledge(i) == acknowledged' = acknowledged \cup {i} /\ UNCHANGED status

Confirm(i) ==
    /\ status[i] = "pending" /\ i \in acknowledged
    /\ status' = [status EXCEPT ![i] = "delivered"]
    /\ UNCHANGED acknowledged

Next == \E i \in Items : Enqueue(i) \/ Acknowledge(i) \/ Confirm(i)

Spec == Init /\ [][Next]_<<status, acknowledged>>
=============================================================================
