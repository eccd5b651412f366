----------------------------- MODULE MaxRatchet -----------------------------
(* The "max ratchet" message format of umbrella-mls/src/max_ratchet and its *)
(* receiver in umbrella-client/src/facade/chat_common.rs: the sender first  *)
(* rekeys the group (a commit it merges at once), encrypts the text in the  *)
(* new epoch and authenticates the ciphertext with a key of that epoch; the *)
(* commit, the ciphertext and the tag travel in one "v3" bundle.            *)
EXTENDS MlsGroup

(* What goes on the wire: the form, the author, the state the commit was    *)
(* made from, the epoch the text was encrypted in and the epoch whose       *)
(* exporter secret keyed the tag.  "v2" is a bare MLS application message,  *)
(* "raw" the bytes of the text itself.                                      *)
Raw(m) == [kind |-> "raw", from |-> m, parent |-> << >>, hist |-> << >>,
           mac |-> << >>]

EncryptApplication(g, m) ==
    [kind |-> "v2", from |-> m, parent |-> g.hist, hist |-> g.hist,
     mac |-> << >>]

\* Mutant: the tag is keyed with the epoch before the rekey.
EncryptWithRekeyAuthenticated_OldEpochTag(g, m) ==
    [kind |-> "v3", from |-> m, parent |-> g.hist, hist |-> ForceRekey(g, m).hist,
     mac |-> g.hist]

EncryptWithRekeyAuthenticated(g, m) ==
    LET new == ForceRekey(g, m)
    IN  [kind |-> "v3", from |-> m, parent |-> g.hist, hist |-> new.hist,
         mac |-> new.hist]

(* The v3 branch of decrypt_text_with_fallback: the commit, the ciphertext, *)
(* the tag, in that order.  A failure drops the text and keeps whatever the *)
(* earlier steps did to the group.                                          *)
AfterCommit(g, e) == ProcessCommit(g, e.parent, e.from)

OpensV3(g, e, id) ==
    /\ CommitApplies(g, e.parent)
    /\ ApplicationOpens(AfterCommit(g, e), e.hist, id)
    /\ e.mac = AfterCommit(g, e).hist

AfterV3(g, e, id) ==
    IF CommitApplies(g, e.parent)
    THEN ProcessApplication(AfterCommit(g, e), e.hist, id) ELSE g

(* The whole of decrypt_text_with_fallback for a device with a group: the   *)
(* group afterwards, and what the caller gets: the text, nothing, or the    *)
(* undecoded bytes taken for a text.                                        *)
AfterDecrypt(g, e, id) ==
    CASE e.kind = "v3"  -> AfterV3(g, e, id)
      [] e.kind = "v2"  -> ProcessApplication(g, e.hist, id)
      [] e.kind = "raw" -> g

Decrypted(g, e, id) ==
    CASE e.kind = "v3"  -> IF OpensV3(g, e, id) THEN "text" ELSE "dropped"
      [] e.kind = "v2"  -> IF ApplicationOpens(g, e.hist, id) THEN "text" ELSE "bytes"
      [] e.kind = "raw" -> "text"

(* Without a group every payload is shown as it is.                         *)
Undecrypted(e) == IF e.kind = "raw" THEN "text" ELSE "bytes"
=============================================================================
