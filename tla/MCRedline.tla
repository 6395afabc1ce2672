------------------------------ MODULE MCRedline ------------------------------
EXTENDS Redline

MCDraft == <<"a", "b">>
MCWordTexts == {<<"x">>}

Pieces(text, longest) ==
  {SubSeq(text, i, j) : <<i, j>> \in {r \in (DOMAIN text) \X (DOMAIN text) : r[1] <= r[2] /\ r[2] < r[1] + longest}}

MCEdits(p) ==
  {[kind |-> "delete", old |-> old, new |-> new] : <<old, new>> \in Pieces(Reading(p), 2) \X {<<>>, <<"x">>}}
  \cup {[kind |-> "reinstate", new |-> new] :
          new \in UNION {Pieces(TextOf(p, r), 1) : r \in Revisions(p) \ Insertions(p)}}

MCEditBatches(p) ==
  {<<e>> : e \in MCEdits(p)} \cup {<<e, f>> : <<e, f>> \in MCEdits(p) \X MCEdits(p)}

MCDraftOps(p) ==
  {[kind |-> "replace_text", old |-> old, new |-> new] :
     <<old, new>> \in (Pieces(Reading(p), 2) \X {<<>>, <<"x">>})}

MCWholes(p) ==
  {[kind |-> kind, old |-> Reading(p), new |-> new] :
     <<kind, new>> \in {"whole", "minimal"} \X ({<<>>, <<"x">>, <<"a", "x", "b">>, <<"b", "a">>} \ {Reading(p)})}

MCDraftBatches(p) ==
  {<<op>> : op \in MCDraftOps(p) \cup MCWholes(p)}
  \cup {<<op, op2>> : <<op, op2>> \in MCDraftOps(p) \X MCDraftOps(p)}

MCDecisions(p) ==
  {[target |-> t, decision |-> d, counter |-> c] :
     <<t, d, c>> \in Targets(p) \X {"accept", "reject"} \X {"accept", "reject"}}

MCDecisionBatches(p) ==
  LET single == {op \in MCDecisions(p) : ~IsCounter(p, op.target) => op.counter = op.decision}
  IN {<<op>> : op \in single} \cup {<<op, op2>> : <<op, op2>> \in single \X single}
=============================================================================
