---------------------------- MODULE FinalAgreement ----------------------------
(***************************************************************************)
(* What the finalization of a deal promises.  An agreement stands on the   *)
(* negotiation as it was saved when it was made.  As soon as that moves on *)
(* the agreement is history and never stands again, and a final document   *)
(* is prepared, published, reviewed and confirmed only on an agreement     *)
(* that stands.  Only to look whether a published document is still there  *)
(* is always allowed.                                                      *)
(***************************************************************************)
CONSTANT Agreement

VARIABLES
    made,    \* the agreements that were made
    current, \* those that still stand
    reached  \* how far each has come

vars == <<made, current, reached>>

Init == made = {} /\ current = {} /\ reached = {}

Agree(a) ==
    /\ a \notin made
    /\ made' = made \cup {a} /\ current' = current \cup {a}
    /\ UNCHANGED reached

NegotiationMovesOn ==
    /\ current' = {}
    /\ UNCHANGED <<made, reached>>

Reach(a, stage) ==
    /\ reached' = reached \cup {<<a, stage>>}
    /\ UNCHANGED <<made, current>>

Prepare(a) == a \in current /\ Reach(a, "prepared")
Publish(a) == a \in current /\ <<a, "prepared">> \in reached /\ Reach(a, "observed")
Observe(a) == a \in made /\ <<a, "prepared">> \in reached /\ Reach(a, "observed")
Review(a) == a \in current /\ <<a, "observed">> \in reached /\ Reach(a, "reviewed")
Confirm(a) == a \in current /\ <<a, "reviewed">> \in reached /\ Reach(a, "confirmed")

Next ==
    \/ NegotiationMovesOn
    \/ \E a \in Agreement :
          Agree(a) \/ Prepare(a) \/ Publish(a) \/ Observe(a) \/ Review(a) \/ Confirm(a)

Spec == Init /\ [][Next]_vars
================================================================================
