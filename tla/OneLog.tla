------------------------------- MODULE OneLog -------------------------------
(***************************************************************************)
(* What key transparency promises its clients: one append-only log.        *)
(* Whatever a client accepts for an epoch, no other client accepts         *)
(* anything else for it, and a client follows one log and never goes back. *)
(* There is neither an operator nor a witness in this specification.       *)
(***************************************************************************)
EXTENDS Naturals

CONSTANTS
  Clients,
  Heads      \* records with log_id, epoch and root

VARIABLE accepted    \* the heads each client has accepted

Init == accepted = [c \in Clients |-> {}]

\* No client has another root for this epoch of this log.
Agreed(h) ==
  \A d \in Clients : \A a \in accepted[d] :
    (a.log_id = h.log_id /\ a.epoch = h.epoch) => a.root = h.root

\* The client follows this log and has nothing newer.
Advances(c, h) ==
  \A a \in accepted[c] : a.log_id = h.log_id /\ a.epoch <= h.epoch

Accept(c, h) ==
  /\ Agreed(h)
  /\ Advances(c, h)
  /\ accepted' = [accepted EXCEPT ![c] = @ \cup {h}]

Next == \E c \in Clients, h \in Heads : Accept(c, h)

Spec == Init /\ [][Next]_accepted
=============================================================================
