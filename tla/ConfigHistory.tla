---------------------------- MODULE ConfigHistory ----------------------------
(***************************************************************************)
(* What a history of configurations promises, whoever writes and prunes    *)
(* it: a capture lands inside the promise, and only what a kept snapshot   *)
(* outside of it supersedes is forgotten, the oldest first.  The promise   *)
(* is a moment: the targets since then must resolve.                       *)
(***************************************************************************)
EXTENDS SnapshotHistory

VARIABLES
    written,    \* every key ever written
    kept,       \* those not forgotten
    promise     \* the earliest moment that must still resolve

history == <<written, kept, promise>>

Init == written = {} /\ kept = {} /\ promise = 0

Write ==
    \E ref \in written' \ written :
        /\ ref.at >= promise
        /\ written' = written \union {ref}
        /\ kept' = kept \union {ref}
        /\ UNCHANGED promise

Forget ==
    \E ref \in kept :
        /\ \A other \in kept : ~KeyLess(other, ref)
        /\ \E anchor \in kept : KeyLess(ref, anchor) /\ anchor.at < promise
        /\ kept' = kept \ {ref}
        /\ UNCHANGED <<written, promise>>

(* Time passes, or the window is made shorter.                             *)
Advance == promise' > promise /\ UNCHANGED <<written, kept>>

Next == Write \/ Forget \/ Advance

Spec == Init /\ [][Next]_history
=============================================================================
