------------------------------ MODULE MlsGroup ------------------------------
(* One device's view of an MLS group: umbrella-mls/src/group.rs.            *)
(*                                                                          *)
(* A group state is the sequence of commits merged so far.  Two devices     *)
(* hold the same epoch secrets exactly when they merged the same commits in *)
(* the same order, so the sequence stands for the epoch number and for the  *)
(* key schedule at once.  A commit is the pair of its author and the device *)
(* it adds; a self-update adds its author.  A device merges its own commit  *)
(* at once, so an author makes one commit from a given state.  Past epochs  *)
(* are not kept (the groups are built with openmls' default of none), and   *)
(* the key of an application message is gone once it was used.              *)
EXTENDS Naturals, Sequences

NoGroup == [live |-> FALSE]

GroupAt(h) == [live |-> TRUE, hist |-> h, opened |-> {}]

CreatePrivate == GroupAt(<< >>)

\* A Welcome carries the group as it is after the commit that adds the device.
JoinFromWelcome(welcome) == GroupAt(welcome)

AddMembers(g, author, peer) == GroupAt(Append(g.hist, <<author, peer>>))

ForceRekey(g, author) == GroupAt(Append(g.hist, <<author, author>>))

(* process_incoming on a commit: it applies only to the state it was made   *)
(* from; otherwise the call fails and the group is left as it was.          *)
CommitApplies(g, parent) == g.hist = parent

ProcessCommit(g, parent, author) ==
    IF CommitApplies(g, parent) THEN ForceRekey(g, author) ELSE g

\* Mutant: the key of a message is kept after use.
ApplicationOpens_KeyKept(g, hist, id) == g.hist = hist

(* process_incoming on an application message.                              *)
ApplicationOpens(g, hist, id) == g.hist = hist /\ id \notin g.opened

ProcessApplication(g, hist, id) ==
    IF ApplicationOpens(g, hist, id)
    THEN [g EXCEPT !.opened = @ \cup {id}] ELSE g
=============================================================================
