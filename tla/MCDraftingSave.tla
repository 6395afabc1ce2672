---------------------------- MODULE MCDraftingSave -----------------------------
(* Small instances of DraftingSave for TLC.                                *)
EXTENDS DraftingSave, TLC

CONSTANTS a, b, d, e,          \* calls
          save, resave,        \* operation ids
          original, redline, redline2, redline3, typed   \* contents

\* An in-place save; the same operation tried again; a copy that reuses the id of
\* the first for another plan; and a save of another operation on top of the first.
Requests ==
    LET first == [op |-> save, source |-> original, candidate |-> redline,
                  dest |-> "source"]
    IN  a :> first
        @@ b :> first
        @@ d :> [first EXCEPT !.candidate = redline2, !.dest = "output"]
        @@ e :> [first EXCEPT !.op = resave, !.source = redline,
                              !.candidate = redline3]

RetriedSave == [c \in {a, b} |-> Requests[c]]
ReusedId    == [c \in {a, d} |-> Requests[c]]

\* Bounds: the first save meets one of the others at a time, and next to a call
\* with another plan there is one fault or one Word session.
OneOther ==
    /\ Cardinality({c \in {b, d, e} : pc[c] # "idle"}) <= 1
    /\ pc[d] # "idle" \/ pc[e] # "idle" => faults + session <= 1
================================================================================
