---------------------------- MODULE ToolCallsProofs ----------------------------
(***************************************************************************)
(* Proofs about ToolCalls, for any servers, documents and batches.         *)
(*                                                                         *)
(* CallInv is the inductive invariant.  Sound says of one call what its    *)
(* next step relies on, and of its result what TrueResult asks; it speaks  *)
(* of the folder only through held, which contains what the folder holds   *)
(* now and only grows, so that what Word and the other servers do leaves   *)
(* it true.  Ledger ties the calls to the journal by their numbers.        *)
(***************************************************************************)
EXTENDS ToolCalls, WellFoundedInduction, SequenceTheorems, TLAPS

Readers == {"extract_redlines", "inspect_document", "verify_quote", "preflight_edits"}
Phases == {"read", "list", "look", "prepare", "publish", "export", "record", "answer"}
Undecided == {"ok", "output_contract_error", "internal_error"}

Shaped(c) ==
  /\ c = [id |-> c.id, tool |-> c.tool, args |-> c.args, phase |-> c.phase,
          outcome |-> c.outcome, result |-> c.result, recorded |-> c.recorded,
          held |-> c.held, put |-> c.put]
  /\ c.held = [p \in Paths |-> c.held[p]]
  /\ c.phase \in Phases

AnchoredIn(batch, docs) ==
  /\ batch \in Seq({batch[i] : i \in DOMAIN batch})
  /\ \A i \in DOMAIN batch : batch[i].on \in docs

Reads(c, docs) ==
  c.phase = "read" =>
    /\ c.tool \in Readers /\ c.args.path \in Paths
    /\ c.tool = "preflight_edits" => AnchoredIn(c.args.edits, docs)

Lists(c) ==
  c.phase = "list" =>
    /\ c.tool = "list_rounds"
    /\ c.args = [paths |-> c.args.paths, facts |-> c.args.facts]
    /\ c.args.paths \subseteq Paths
    /\ \A p \in Paths \ c.args.paths : None \in c.held[p]
    /\ DOMAIN c.args.facts \subseteq c.args.paths
    /\ c.args.facts = [p \in DOMAIN c.args.facts |-> c.args.facts[p]]
    /\ \A p \in DOMAIN c.args.facts : c.args.facts[p] \in c.held[p]

Derived(s, c) ==
  /\ c.args.path \in Paths /\ c.result.source \in c.held[c.args.path]
  /\ c.result.made = Candidate(c.result.source, c.args.edits, Author(s))

Applies(s, c, given) ==
  c.phase \in {"look", "prepare", "publish"} =>
    /\ c.tool = "apply_edits"
    /\ c.args.path \in Paths /\ c.args.output \in Paths /\ c.args.proof \in given
    /\ c.phase = "publish" =>
         /\ Derived(s, c)
         /\ c.args.proof = Proof(c.result.source, c.args.edits, Author(s), Build(s))

\* What is left of TrueResult when the journal is left aside.
TrueOfFolder(c) ==
  /\ c.tool \in {"extract_redlines", "inspect_document"} => c.result.source \in c.held[c.args.path]
  /\ c.tool = "list_rounds" =>
       \A p \in Paths : IF p \in DOMAIN c.result THEN c.result[p] \in c.held[p] ELSE None \in c.held[p]
  /\ c.tool = "verify_quote" =>
       /\ c.args.anchor \in c.held[c.args.path]
       /\ (c.result.verdict # "not_found") = (c.args.quote.wording \in Reading(c.args.anchor, c.args.mode))
  /\ c.tool = "preflight_edits" =>
       LET edits == c.result.diagnosis.edits
       IN /\ c.result.source \in c.held[c.args.path]
          /\ \A i \in DOMAIN c.args.edits :
               edits[i] \in {"planned", "applicable"} => c.args.edits[i].on = c.result.source
          /\ (c.result.proof # {}) = (DOMAIN edits # {} /\ \A i \in DOMAIN edits : edits[i] = "applicable")
  /\ c.tool = "apply_edits" => c.result.source \in c.held[c.args.path] /\ c.result.made = c.put

\* The proof that a dry run gives.
Proving(s, c, docs) ==
  LET doc == c.result.source
      edits == c.args.edits
  IN /\ c.result.proof = IF doc # None /\ Fits(doc, edits, Author(s))
                         THEN {Proof(doc, edits, Author(s), Build(s))} ELSE {}
     /\ \A q \in c.result.proof : q.source \in docs

Told(s, c, docs) ==
  c.phase \in {"record", "answer"} /\ c.outcome = "ok" =>
    /\ c.tool \in {"list_rounds", "export_decision_record"} \/ c.args.path \in Paths
    /\ TrueOfFolder(c)
    /\ c.tool = "apply_edits" => Derived(s, c)
    /\ c.tool = "preflight_edits" => Proving(s, c, docs)
    /\ c.tool = "export_decision_record" => c.phase = "answer"

Sound(s, c, docs, given) ==
  \/ c = Idle
  \/ /\ Shaped(c)
     /\ Reads(c, docs) /\ Lists(c) /\ Applies(s, c, given) /\ Told(s, c, docs)
     /\ c.phase = "export" => c.tool = "export_decision_record"
     /\ c.put = None \/ (c.phase \in {"record", "answer"} /\ c.outcome \in Undecided)
     /\ c.recorded = "no" \/ c.phase = "answer"

Witness(c, f) == c # Idle => \A p \in Paths : f[p] \in c.held[p]

\* What a call says of its record when there may be one.
Left == {"written", "write_failed"}

Mine(c) == {i \in DOMAIN journal : journal[i].id = c.id}

Numbered ==
  /\ \A s \in Servers : call[s].phase # "idle" => call[s].id \in 1..Calls
  /\ \A s, t \in Servers :
       call[s].phase # "idle" /\ call[t].phase # "idle" /\ call[s].id = call[t].id => s = t
  /\ \A i \in DOMAIN journal : journal[i].id \in 1..Calls
  /\ \A i, j \in DOMAIN journal : journal[i].id = journal[j].id => i = j

Ledger ==
  /\ \A i \in DOMAIN journal :
       TrueRecord(journal[i])
  /\ \A s \in Servers :
       call[s].phase # "idle" =>
         /\ call[s].recorded = "written" => Mine(call[s]) # {}
         /\ Mine(call[s]) # {} => call[s].recorded \in Left
         /\ \A i \in Mine(call[s]) : journal[i].outcome = call[s].outcome

ExportHolds(c) ==
  c.phase = "answer" /\ c.outcome = "ok" /\ c.tool = "export_decision_record" =>
    \E n \in 0..Len(journal) :
      /\ c.result = Exportable(1..n)
      /\ \A i \in Mine(c) : i = n + 1

Counts == [preflights : Nat, applies : Nat, questions : Nat, saves : Nat, faults : Nat]

AllSound ==
  /\ folder = [p \in Paths |-> folder[p]]
  /\ call = [s \in Servers |-> call[s]]
  /\ \A s \in Servers : Sound(s, call[s], read, proofs) /\ Witness(call[s], folder)
  /\ \A q \in proofs : q.source \in read

JournalInv == journal \in Seq({journal[i] : i \in DOMAIN journal}) /\ Numbered /\ Ledger

CallInv ==
  /\ count \in Counts
  /\ AllSound /\ JournalInv
  /\ \A s \in Servers : ExportHolds(call[s])

--------------------------------------------------------------------------------
(* Numbers and diagnoses.                                                  *)

\* A set of numbers has a least one.
LEMMA LeastIsIn ==
    ASSUME NEW S \in SUBSET Nat, S # {}
    PROVE  Least(S) \in S /\ \A m \in S : Least(S) <= m
<1> DEFINE R == OpToRel(<, Nat)
<1>1. \A T : (T \subseteq Nat /\ T # {}) => \E x \in T : \A y \in T : <<y, x>> \notin R
  BY NatLessThanWellFounded, WFMin
<1>2. PICK x \in S : \A y \in S : <<y, x>> \notin R
  BY <1>1, Zenon
<1>3. \A y \in S : x <= y
  <2> SUFFICES ASSUME NEW y \in S, y < x PROVE FALSE
    OBVIOUS
  <2>1. <<y, x>> \in Nat \X Nat
    OBVIOUS
  <2>. QED
    BY <1>2, <2>1 DEF OpToRel
<1>. QED
  BY <1>2, <1>3 DEF Least

\* A batch that nothing refuses is not empty and anchored in the document.
LEMMA FittingBatches ==
    ASSUME NEW doc, NEW batch, NEW author,
           batch \in Seq({batch[i] : i \in DOMAIN batch}), Fits(doc, batch, author)
    PROVE  DOMAIN batch # {} /\ \A i \in DOMAIN batch : batch[i].on = doc
<1> DEFINE St == Stages(doc, batch, author)
<1>1. \A k \in 1..5 : St[k].stops = {}
  BY DEF Fits, Refusals
<1>2. St[1].stops = {} /\ St[3].stops = {}
  BY <1>1
<1>3. St[1].stops = (IF Len(batch) \in 1..MaxBatch THEN {} ELSE {None})
  BY DEF Stages
<1>4. St[3].stops = Unmatched(doc, batch, author)
  BY DEF Stages
<1>5. Len(batch) \in 1..MaxBatch
  BY <1>2, <1>3
<1>6. DOMAIN batch # {}
  BY <1>5, BatchAssumption
<1>7. \A i \in DOMAIN batch : batch[i].on = doc
  BY <1>2, <1>4 DEF Unmatched, Misanchored
<1>. QED
  BY <1>6, <1>7

\* What a diagnosis says of the edits of a batch.
LEMMA DiagnosisIsTrue ==
    ASSUME NEW doc, NEW batch, NEW author, batch \in Seq({batch[i] : i \in DOMAIN batch})
    PROVE  LET edits == Diagnosis(doc, batch, author).edits
           IN /\ DOMAIN edits = DOMAIN batch
              /\ \A i \in DOMAIN batch : edits[i] \in {"planned", "applicable"} => batch[i].on = doc
              /\ Fits(doc, batch, author) <=> (DOMAIN edits # {} /\ \A i \in DOMAIN edits : edits[i] = "applicable")
<1> DEFINE edits == Diagnosis(doc, batch, author).edits
           Rf == Refusals(doc, batch, author)
           St == Stages(doc, batch, author)
           k == Least(Rf)
           at == FirstOf(St[k].stops)
           matched == MatchedBefore(batch, St[k])
<1>1. CASE Fits(doc, batch, author)
  <2>1. edits = [i \in DOMAIN batch |-> "applicable"]
    BY <1>1 DEF Diagnosis
  <2>. QED
    BY <1>1, <2>1, FittingBatches
<1>2. CASE ~Fits(doc, batch, author)
  <2>1. edits = [i \in DOMAIN batch |-> IF i = at THEN "blocked"
                                        ELSE IF i \in matched THEN "planned" ELSE "not_evaluated"]
    BY <1>2 DEF Diagnosis, Status
  <2>3. DOMAIN edits = DOMAIN batch /\ \A i \in DOMAIN edits : edits[i] # "applicable"
    BY <2>1
  <2>4. k \in Rf /\ \A m \in Rf : k <= m
    <3>1. Rf \in SUBSET Nat /\ Rf # {}
      BY <1>2 DEF Fits, Refusals
    <3>. QED
      BY <3>1, LeastIsIn
  <2>5. k \in 1..5
    BY <2>4 DEF Refusals
  <2>6. \A m \in 1..5 : m < k => St[m].stops = {}
    <3> SUFFICES ASSUME NEW m \in 1..5, m < k, St[m].stops # {} PROVE FALSE
      OBVIOUS
    <3>1. m \in Rf
      BY DEF Refusals
    <3>. QED
      BY <3>1, <2>4, <2>5
  <2>7. St[3].stops = Unmatched(doc, batch, author)
    BY DEF Stages
  <2>8. ASSUME NEW i \in DOMAIN batch, i # at, i \in matched
        PROVE  batch[i].on = doc
    <3>1. CASE k < 3
      <4>1. k = 1 \/ k = 2
        BY <3>1, <2>5
      <4>2. St[k].phase = "validation"
        BY <4>1 DEF Stages
      <4>. QED
        BY <4>2, <2>8 DEF MatchedBefore
    <3>2. CASE k = 3
      <4>1. St[k].phase = "matching"
        BY <3>2 DEF Stages
      <4>2. i \in 1..(at - 1)
        BY <4>1, <2>8 DEF MatchedBefore
      <4>3. Unmatched(doc, batch, author) \in SUBSET (DOMAIN batch) /\ Unmatched(doc, batch, author) # {}
        BY <3>2, <2>4, <2>7 DEF Refusals, Unmatched
      <4>4. \A j \in Unmatched(doc, batch, author) : at <= j
        <5>1. CASE Unmatched(doc, batch, author) = {None}
          BY <5>1, <4>3, <3>2, <2>7 DEF FirstOf
        <5>2. CASE Unmatched(doc, batch, author) # {None}
          <6>1. at = Least(Unmatched(doc, batch, author))
            BY <5>2, <3>2, <2>7 DEF FirstOf
          <6>2. Unmatched(doc, batch, author) \in SUBSET Nat
            BY <4>3
          <6>. QED
            BY <6>1, <6>2, <4>3, LeastIsIn
        <5>. QED
          BY <5>1, <5>2
      <4>5. at \in Unmatched(doc, batch, author)
        <5>1. CASE Unmatched(doc, batch, author) = {None}
          BY <5>1, <4>3, <3>2, <2>7 DEF FirstOf
        <5>2. CASE Unmatched(doc, batch, author) # {None}
          <6>1. at = Least(Unmatched(doc, batch, author))
            BY <5>2, <3>2, <2>7 DEF FirstOf
          <6>2. Unmatched(doc, batch, author) \in SUBSET Nat
            BY <4>3
          <6>. QED
            BY <6>1, <6>2, <4>3, LeastIsIn
        <5>. QED
          BY <5>1, <5>2
      <4>6. at \in Nat
        BY <4>5, <4>3
      <4>7. i \notin Unmatched(doc, batch, author)
        BY <4>2, <4>4, <4>6
      <4>. QED
        BY <4>7 DEF Unmatched, Misanchored
    <3>3. CASE k > 3
      <4>1. Unmatched(doc, batch, author) = {}
        BY <3>3, <2>5, <2>6, <2>7
      <4>. QED
        BY <4>1 DEF Unmatched, Misanchored
    <3>. QED
      BY <3>1, <3>2, <3>3, <2>5
  <2>9. \A i \in DOMAIN batch : edits[i] \in {"planned", "applicable"} => batch[i].on = doc
    <3> SUFFICES ASSUME NEW i \in DOMAIN batch, edits[i] \in {"planned", "applicable"}
                 PROVE  batch[i].on = doc
      OBVIOUS
    <3>1. i # at /\ i \in matched
      BY <2>1
    <3>. QED
      BY <3>1, <2>8
  <2>. QED
    BY <1>2, <2>3, <2>9
<1>. QED
  BY <1>1, <1>2

--------------------------------------------------------------------------------
(* What keeps a call sound.                                                *)

\* A call is not idle, and has its fields.
LEMMA Fields ==
    ASSUME NEW c, Shaped(c), NEW phase, NEW outcome, NEW result, NEW held
    PROVE  /\ c # Idle /\ c.phase # "idle"
           /\ Ended(c, outcome, result) =
                [id |-> c.id, tool |-> c.tool, args |-> c.args, phase |-> "record",
                 outcome |-> outcome, result |-> result, recorded |-> c.recorded,
                 held |-> c.held, put |-> c.put]
           /\ [c EXCEPT !.phase = phase] =
                [id |-> c.id, tool |-> c.tool, args |-> c.args, phase |-> phase,
                 outcome |-> c.outcome, result |-> c.result, recorded |-> c.recorded,
                 held |-> c.held, put |-> c.put]
           /\ [c EXCEPT !.held = held] =
                [id |-> c.id, tool |-> c.tool, args |-> c.args, phase |-> c.phase,
                 outcome |-> c.outcome, result |-> c.result, recorded |-> c.recorded,
                 held |-> held, put |-> c.put]
<1>1. c.phase # "idle"
  BY DEF Shaped, Phases
<1>2. c # Idle
  BY <1>1 DEF Idle
<1>3. Ended(c, outcome, result) =
                [id |-> c.id, tool |-> c.tool, args |-> c.args, phase |-> "record",
                 outcome |-> outcome, result |-> result, recorded |-> c.recorded,
                 held |-> c.held, put |-> c.put]
  <2> DEFINE c1 == [c EXCEPT !.phase = "record"]
             c2 == [c1 EXCEPT !.outcome = outcome]
             c3 == [c2 EXCEPT !.result = result]
  <2>1. c1 = [id |-> c.id, tool |-> c.tool, args |-> c.args, phase |-> "record",
                 outcome |-> c.outcome, result |-> c.result, recorded |-> c.recorded,
                 held |-> c.held, put |-> c.put]
    BY DEF Shaped
  <2> HIDE DEF c1
  <2>2. c2 = [id |-> c.id, tool |-> c.tool, args |-> c.args, phase |-> "record",
                 outcome |-> outcome, result |-> c.result, recorded |-> c.recorded,
                 held |-> c.held, put |-> c.put]
    BY <2>1
  <2> HIDE DEF c2
  <2>3. c3 = [id |-> c.id, tool |-> c.tool, args |-> c.args, phase |-> "record",
                 outcome |-> outcome, result |-> result, recorded |-> c.recorded,
                 held |-> c.held, put |-> c.put]
    BY <2>2
  <2>4. Ended(c, outcome, result) = c3
    BY DEF Ended, c1, c2
  <2>. QED
    BY <2>3, <2>4
<1>4. [c EXCEPT !.phase = phase] =
                [id |-> c.id, tool |-> c.tool, args |-> c.args, phase |-> phase,
                 outcome |-> c.outcome, result |-> c.result, recorded |-> c.recorded,
                 held |-> c.held, put |-> c.put]
  BY DEF Shaped
<1>5. [c EXCEPT !.held = held] =
                [id |-> c.id, tool |-> c.tool, args |-> c.args, phase |-> c.phase,
                 outcome |-> c.outcome, result |-> c.result, recorded |-> c.recorded,
                 held |-> held, put |-> c.put]
  BY DEF Shaped
<1>. QED
  BY <1>1, <1>2, <1>3, <1>4, <1>5

\* What a call that ends its operation keeps.
LEMMA EndedFields ==
    ASSUME NEW c, Shaped(c), NEW outcome, NEW result
    PROVE  /\ Ended(c, outcome, result).tool = c.tool /\ Ended(c, outcome, result).args = c.args
           /\ Ended(c, outcome, result).held = c.held /\ Ended(c, outcome, result).put = c.put
           /\ Ended(c, outcome, result).id = c.id /\ Ended(c, outcome, result).recorded = c.recorded
           /\ Ended(c, outcome, result).result = result /\ Ended(c, outcome, result).outcome = outcome
           /\ Ended(c, outcome, result).phase = "record"
<1> DEFINE d == Ended(c, outcome, result)
<1>1. d = [id |-> c.id, tool |-> c.tool, args |-> c.args, phase |-> "record",
           outcome |-> outcome, result |-> result, recorded |-> c.recorded,
           held |-> c.held, put |-> c.put]
  BY Fields
<1> HIDE DEF d
<1>2. /\ d.tool = c.tool /\ d.args = c.args /\ d.held = c.held /\ d.put = c.put
      /\ d.id = c.id /\ d.recorded = c.recorded /\ d.result = result /\ d.outcome = outcome /\ d.phase = "record"
  BY <1>1
<1>. QED
  BY <1>2 DEF d

\* What was read and proved stays so.
LEMMA SoundLater ==
    ASSUME NEW s, NEW c, NEW R, NEW Q, NEW R2, NEW Q2,
           Sound(s, c, R, Q), R \subseteq R2, Q \subseteq Q2
    PROVE  Sound(s, c, R2, Q2)
<1>1. CASE c = Idle
  BY <1>1 DEF Sound
<1>2. CASE c # Idle
  <2>1. Reads(c, R) => Reads(c, R2)
    BY DEF Reads, AnchoredIn
  <2>2. Applies(s, c, Q) => Applies(s, c, Q2)
    BY DEF Applies
  <2>3. Told(s, c, R) => Told(s, c, R2)
    BY DEF Told, Proving
  <2>. QED
    BY <1>2, <2>1, <2>2, <2>3 DEF Sound
<1>. QED
  BY <1>1, <1>2

\* A call sees what the folder becomes.
Seeing(c, f) == IF c = Idle THEN Idle ELSE [c EXCEPT !.held = [p \in Paths |-> @[p] \cup {f[p]}]]

LEMMA SoundSeeing ==
    ASSUME NEW s, NEW c, NEW R, NEW Q, NEW f, Sound(s, c, R, Q)
    PROVE  Sound(s, Seeing(c, f), R, Q) /\ Witness(Seeing(c, f), f)
<1>1. CASE c = Idle
  BY <1>1 DEF Sound, Seeing, Witness
<1>2. CASE c # Idle
  <2> DEFINE h == [p \in Paths |-> c.held[p] \cup {f[p]}]
             d == Seeing(c, f)
  <2>1. Shaped(c)
    BY <1>2 DEF Sound
  <2>2. d = [id |-> c.id, tool |-> c.tool, args |-> c.args, phase |-> c.phase,
             outcome |-> c.outcome, result |-> c.result, recorded |-> c.recorded,
             held |-> h, put |-> c.put]
    BY <1>2, <2>1 DEF Shaped, Seeing
  <2>3. \A p \in Paths : c.held[p] \subseteq d.held[p] /\ f[p] \in d.held[p]
    BY <2>2
  <2> HIDE DEF h, d
  <2>4. Shaped(d)
    BY <2>1, <2>2 DEF Shaped, h
  <2>5. Reads(c, R) => Reads(d, R)
    BY <2>2 DEF Reads
  <2>6. Lists(c) => Lists(d)
    <3> SUFFICES ASSUME Lists(c), c.phase = "list" PROVE Lists(d)
      BY <2>2 DEF Lists
    <3>1. d.args = c.args /\ d.tool = c.tool
      BY <2>2
    <3>. QED
      BY <3>1, <2>3 DEF Lists
  <2>7. c.args.path \in Paths /\ Derived(s, c) => Derived(s, d)
    BY <2>2, <2>3 DEF Derived
  <2>8. Applies(s, c, Q) => Applies(s, d, Q)
    <3> SUFFICES ASSUME Applies(s, c, Q), c.phase \in {"look", "prepare", "publish"}
                 PROVE  Applies(s, d, Q)
      BY <2>2 DEF Applies
    <3>1. d.args = c.args /\ d.tool = c.tool /\ d.phase = c.phase /\ d.result = c.result
      BY <2>2
    <3>. QED
      BY <3>1, <2>7 DEF Applies
  <2>9. Told(s, c, R) => Told(s, d, R)
    <3> SUFFICES ASSUME Told(s, c, R), c.phase \in {"record", "answer"}, c.outcome = "ok"
                 PROVE  Told(s, d, R)
      BY <2>2 DEF Told
    <3>1. d.args = c.args /\ d.tool = c.tool /\ d.phase = c.phase /\ d.result = c.result /\ d.put = c.put
      BY <2>2
    <3>2. TrueOfFolder(c) => TrueOfFolder(d)
      <4> SUFFICES ASSUME TrueOfFolder(c) PROVE TrueOfFolder(d)
        OBVIOUS
      <4>0. c.tool \in {"list_rounds", "export_decision_record"} \/ c.args.path \in Paths
        BY DEF Told
      <4>1. d.tool \in {"extract_redlines", "inspect_document"} => d.result.source \in d.held[d.args.path]
        BY <3>1, <2>3, <4>0 DEF TrueOfFolder
      <4>2. d.tool = "list_rounds" =>
              \A p \in Paths : IF p \in DOMAIN d.result THEN d.result[p] \in d.held[p] ELSE None \in d.held[p]
        BY <3>1, <2>3 DEF TrueOfFolder
      <4>3. d.tool = "verify_quote" => d.args.anchor \in d.held[d.args.path]
        BY <3>1, <2>3, <4>0 DEF TrueOfFolder
      <4>4. d.tool \in {"preflight_edits", "apply_edits"} => d.result.source \in d.held[d.args.path]
        BY <3>1, <2>3, <4>0 DEF TrueOfFolder
      <4>. QED
        BY <3>1, <4>1, <4>2, <4>3, <4>4 DEF TrueOfFolder
    <3>. QED
      BY <3>1, <3>2, <2>7 DEF Told, Proving, Derived
  <2>10. d.phase = c.phase /\ d.tool = c.tool /\ d.put = c.put /\ d.outcome = c.outcome /\ d.recorded = c.recorded
    BY <2>2
  <2>11. Sound(s, d, R, Q)
    BY <1>2, <2>4, <2>5, <2>6, <2>8, <2>9, <2>10 DEF Sound
  <2>12. Witness(d, f)
    BY <2>3 DEF Witness
  <2>. QED
    BY <2>11, <2>12 DEF d
<1>. QED
  BY <1>1, <1>2

\* A call that ends its operation.
LEMMA SoundEnding ==
    ASSUME NEW s, NEW c, NEW R, NEW Q, NEW outcome, NEW result,
           Shaped(c), c.recorded = "no", c.put = None \/ outcome \in Undecided,
           outcome = "ok" => /\ c.tool \in {"list_rounds"} \/ c.args.path \in Paths
                             /\ TrueOfFolder(Ended(c, outcome, result))
                             /\ c.tool = "apply_edits" => Derived(s, Ended(c, outcome, result))
                             /\ c.tool = "preflight_edits" => Proving(s, Ended(c, outcome, result), R)
                             /\ c.tool # "export_decision_record"
    PROVE  Sound(s, Ended(c, outcome, result), R, Q)
<1> DEFINE d == Ended(c, outcome, result)
<1>1. d = [id |-> c.id, tool |-> c.tool, args |-> c.args, phase |-> "record",
           outcome |-> outcome, result |-> result, recorded |-> c.recorded,
           held |-> c.held, put |-> c.put]
  BY Fields
<1> HIDE DEF d
<1>2. Shaped(d)
  BY <1>1 DEF Shaped, Phases
<1>3. Reads(d, R) /\ Lists(d) /\ Applies(s, d, Q)
  BY <1>1 DEF Reads, Lists, Applies
<1>4. Told(s, d, R)
  <2>1. d.args = c.args /\ d.tool = c.tool /\ d.phase = "record" /\ d.result = result /\ d.outcome = outcome
    BY <1>1
  <2>. QED
    BY <2>1 DEF Told, d
<1>5. Sound(s, d, R, Q)
  BY <1>1, <1>2, <1>3, <1>4 DEF Sound
<1>. QED
  BY <1>5 DEF d

--------------------------------------------------------------------------------
(* The frame: what one server does leaves the calls of the others sound.   *)

\* Every step counts, and only a new call adds to the calls.
LEMMA Counting ==
    ASSUME count \in Counts
    PROVE  /\ Calls \in Nat
           /\ \A tool : Counted(tool) => count' \in Counts /\ Calls' = Calls + 1
           /\ Fault => count' \in Counts /\ Calls' = Calls
           /\ UNCHANGED count => count' \in Counts /\ Calls' = Calls
           /\ count' = [count EXCEPT !.saves = @ + 1] => count' \in Counts /\ Calls' = Calls
<1>1. Calls \in Nat
  BY DEF Calls, Counts
<1>2. ASSUME NEW tool, Counted(tool) PROVE count' \in Counts /\ Calls' = Calls + 1
  <2>1. \/ count' = [count EXCEPT !["preflights"] = @ + 1]
        \/ count' = [count EXCEPT !["applies"] = @ + 1]
        \/ count' = [count EXCEPT !["questions"] = @ + 1]
    BY <1>2 DEF Counted
  <2>. QED
    BY <2>1 DEF Calls, Counts
<1>3. Fault => count' \in Counts /\ Calls' = Calls
  BY DEF Fault, Calls, Counts
<1>4. UNCHANGED count => count' \in Counts /\ Calls' = Calls
  BY DEF Calls, Counts
<1>5. count' = [count EXCEPT !.saves = @ + 1] => count' \in Counts /\ Calls' = Calls
  BY DEF Calls, Counts
<1>. QED
  BY <1>1, <1>2, <1>3, <1>4, <1>5

\* One server's call changes, and nothing in the folder.
LEMMA OneChanges ==
    ASSUME AllSound, NEW s \in Servers, NEW d,
           call' = [call EXCEPT ![s] = d], folder' = folder,
           read \subseteq read', proofs \subseteq proofs', \A q \in proofs' : q.source \in read',
           Sound(s, d, read', proofs'), Witness(d, folder)
    PROVE  AllSound'
<1>1. folder' = [p \in Paths |-> folder'[p]]
  BY DEF AllSound
<1>2. call' = [t \in Servers |-> call'[t]]
  BY DEF AllSound
<1>3. ASSUME NEW t \in Servers
      PROVE  Sound(t, call'[t], read', proofs') /\ Witness(call'[t], folder')
  <2>1. CASE t = s
    <3>1. call'[t] = d
      BY <2>1 DEF AllSound
    <3>. QED
      BY <2>1, <3>1
  <2>2. CASE t # s
    <3>1. call'[t] = call[t]
      BY <2>2 DEF AllSound
    <3>2. Sound(t, call[t], read, proofs) /\ Witness(call[t], folder)
      BY DEF AllSound
    <3>3. Sound(t, call[t], read', proofs')
      BY <3>2, SoundLater
    <3>. QED
      BY <3>1, <3>2, <3>3
  <2>. QED
    BY <2>1, <2>2
<1>. QED
  BY <1>1, <1>2, <1>3 DEF AllSound

\* The folder changes, and every call sees it.
LEMMA AllSee ==
    ASSUME AllSound, NEW C, \A t \in Servers : Sound(t, C[t], read, proofs),
           folder' = [p \in Paths |-> folder'[p]], call' = Witnessed(C, folder'),
           read' = read, proofs' = proofs
    PROVE  AllSound'
<1>1. \A t \in Servers : call'[t] = Seeing(C[t], folder')
  BY DEF Witnessed, Seeing
<1>2. call' = [t \in Servers |-> call'[t]]
  BY DEF Witnessed
<1>3. \A t \in Servers : Sound(t, call'[t], read, proofs) /\ Witness(call'[t], folder')
  BY <1>1, SoundSeeing
<1>. QED
  BY <1>2, <1>3 DEF AllSound

--------------------------------------------------------------------------------
(* The journal: what one server does leaves the records of the others.     *)

Follows(c, d) ==
  d.phase # "idle" =>
    /\ c.phase # "idle" /\ d.id = c.id
    /\ d.recorded = "written" => c.recorded = "written"
    /\ c.recorded \in Left => d.recorded = c.recorded /\ d.outcome = c.outcome

\* Steps without a record leave the numbers and the ledger as they are.
LEMMA JournalKept ==
    ASSUME JournalInv, journal' = journal, Calls \in Nat, Calls' \in Nat, Calls <= Calls',
           \A s \in Servers : Follows(call[s], call'[s])
    PROVE  JournalInv'
<1>1. \A s \in Servers : call'[s].phase # "idle" => call'[s].id \in 1..Calls'
  BY DEF JournalInv, Numbered, Follows
<1>2. \A s, t \in Servers :
        call'[s].phase # "idle" /\ call'[t].phase # "idle" /\ call'[s].id = call'[t].id => s = t
  BY DEF JournalInv, Numbered, Follows
<1>3. \A i \in DOMAIN journal : journal[i].id \in 1..Calls'
  BY DEF JournalInv, Numbered
<1>4. Numbered'
  BY <1>1, <1>2, <1>3 DEF JournalInv, Numbered
<1>5. ASSUME NEW s \in Servers, call'[s].phase # "idle"
      PROVE  /\ call'[s].recorded = "written" => Mine(call[s])' # {}
             /\ Mine(call[s])' # {} => call'[s].recorded \in Left
             /\ \A i \in Mine(call[s])' : journal[i].outcome = call'[s].outcome
  <2>1. Mine(call[s])' = Mine(call[s])
    BY <1>5 DEF Mine, Follows
  <2>. QED
    BY <1>5, <2>1 DEF JournalInv, Ledger, Follows, Mine
<1>6. Ledger'
  BY <1>5 DEF JournalInv, Ledger
<1>. QED
  BY <1>4, <1>6 DEF JournalInv

\* A new call has the next number.
LEMMA JournalOpens ==
    ASSUME JournalInv, journal' = journal, Calls \in Nat, Calls' = Calls + 1,
           NEW s \in Servers, NEW d, call = [t \in Servers |-> call[t]],
           call' = [call EXCEPT ![s] = d], d.id = Calls + 1, d.recorded = "no"
    PROVE  JournalInv'
<1>1. \A t \in Servers : call'[t] = IF t = s THEN d ELSE call[t]
  OBVIOUS
<1>2. \A t \in Servers : t # s /\ call[t].phase # "idle" => call[t].id \in 1..Calls
  BY DEF JournalInv, Numbered
<1>3. \A i \in DOMAIN journal : journal[i].id \in 1..Calls
  BY DEF JournalInv, Numbered
<1>4. Numbered'
  <2>1. \A t \in Servers : call'[t].phase # "idle" => call'[t].id \in 1..Calls'
    BY <1>1, <1>2
  <2>2. \A t, u \in Servers :
          call'[t].phase # "idle" /\ call'[u].phase # "idle" /\ call'[t].id = call'[u].id => t = u
    BY <1>1, <1>2 DEF JournalInv, Numbered
  <2>3. \A i \in DOMAIN journal : journal[i].id \in 1..Calls'
    BY <1>3
  <2>. QED
    BY <2>1, <2>2, <2>3 DEF JournalInv, Numbered
<1>5. Ledger'
  <2>1. Mine(call[s])' = {}
    BY <1>1, <1>3 DEF Mine
  <2>2. \A t \in Servers : t # s => Mine(call[t])' = Mine(call[t])
    BY <1>1 DEF Mine
  <2>3. ASSUME NEW t \in Servers, call'[t].phase # "idle"
        PROVE  /\ call'[t].recorded = "written" => Mine(call[t])' # {}
               /\ Mine(call[t])' # {} => call'[t].recorded \in Left
               /\ \A i \in Mine(call[t])' : journal[i].outcome = call'[t].outcome
    <3>1. CASE t = s
      BY <3>1, <2>1, <1>1
    <3>2. CASE t # s
      BY <3>2, <2>2, <2>3, <1>1 DEF JournalInv, Ledger
    <3>. QED
      BY <3>1, <3>2
  <2>. QED
    BY <2>3 DEF JournalInv, Ledger
<1>. QED
  BY <1>4, <1>5 DEF JournalInv

\* The journal with one more record.
LEMMA Longer ==
    ASSUME journal \in Seq({journal[i] : i \in DOMAIN journal}), NEW r, journal' = Append(journal, r)
    PROVE  /\ Len(journal) \in Nat /\ DOMAIN journal = 1..Len(journal)
           /\ DOMAIN journal' = 1..(Len(journal) + 1) /\ Len(journal') = Len(journal) + 1
           /\ \A i \in 1..Len(journal) : journal'[i] = journal[i]
           /\ journal'[Len(journal) + 1] = r
           /\ journal' \in Seq({journal'[i] : i \in DOMAIN journal'})
<1> DEFINE S == {journal[i] : i \in DOMAIN journal} \cup {r}
<1>1. journal \in Seq(S) /\ r \in S
  <2>1. Seq({journal[i] : i \in DOMAIN journal}) \subseteq Seq(S)
    OBVIOUS
  <2>. QED
    BY <2>1
<1> HIDE DEF S
<1>2. /\ Append(journal, r) \in Seq(S)
      /\ Len(Append(journal, r)) = Len(journal) + 1
      /\ \A i \in 1..Len(journal) : Append(journal, r)[i] = journal[i]
      /\ Append(journal, r)[Len(journal) + 1] = r
  BY <1>1, AppendProperties
<1>3. Len(journal) \in Nat /\ DOMAIN journal = 1..Len(journal)
  BY <1>1, LenProperties
<1>4. DOMAIN journal' = 1..(Len(journal) + 1)
  BY <1>2, LenProperties
<1>5. journal' \in Seq({journal'[i] : i \in DOMAIN journal'})
  BY <1>2, <1>3, <1>4
<1>. QED
  BY <1>2, <1>3, <1>4, <1>5

\* A call that has no record gets one, with its outcome.
LEMMA JournalGrows ==
    ASSUME JournalInv, Calls \in Nat, Calls' = Calls, call = [t \in Servers |-> call[t]],
           NEW s \in Servers, NEW d, NEW r, journal' = Append(journal, r),
           call' = [call EXCEPT ![s] = d],
           call[s].phase # "idle", call[s].recorded \notin Left,
           d.id = call[s].id, d.recorded \in Left, d.phase # "idle",
           r.id = d.id, r.outcome = d.outcome,
           TrueRecord(r)
    PROVE  JournalInv' /\ Mine(call[s])' = {Len(journal) + 1}
<1> DEFINE n == Len(journal) + 1
<1>1. /\ Len(journal) \in Nat /\ DOMAIN journal = 1..Len(journal)
      /\ DOMAIN journal' = 1..n
      /\ \A i \in 1..Len(journal) : journal'[i] = journal[i]
      /\ journal'[n] = r
      /\ journal' \in Seq({journal'[i] : i \in DOMAIN journal'})
  BY Longer DEF JournalInv
<1>2. \A t \in Servers : call'[t] = IF t = s THEN d ELSE call[t]
  OBVIOUS
<1>3. Mine(call[s]) = {}
  BY DEF JournalInv, Ledger
<1>4. \A i \in 1..Len(journal) : journal[i].id # r.id
  BY <1>1, <1>3 DEF Mine
<1>5. n \in Nat /\ n \notin 1..Len(journal) /\ 1..n = 1..Len(journal) \cup {n}
  BY <1>1
<1> HIDE DEF n
<1>6. Mine(call[s])' = {n}
  BY <1>1, <1>2, <1>4, <1>5 DEF Mine
<1>7. ASSUME NEW t \in Servers, t # s, call[t].phase # "idle"
      PROVE  Mine(call[t])' = Mine(call[t])
  <2>1. call[t].id # r.id
    BY <1>7 DEF JournalInv, Numbered
  <2>2. call'[t] = call[t]
    BY <1>2, <1>7
  <2>. QED
    BY <2>1, <2>2, <1>1, <1>5 DEF Mine
<1>8. Numbered'
  <2>1. \A t \in Servers : call'[t].phase # "idle" => call'[t].id \in 1..Calls'
    BY <1>2 DEF JournalInv, Numbered
  <2>2. \A t, u \in Servers :
          call'[t].phase # "idle" /\ call'[u].phase # "idle" /\ call'[t].id = call'[u].id => t = u
    BY <1>2 DEF JournalInv, Numbered
  <2>3. \A i \in DOMAIN journal' : journal'[i].id \in 1..Calls'
    BY <1>1, <1>5 DEF JournalInv, Numbered
  <2>4. \A i, j \in DOMAIN journal' : journal'[i].id = journal'[j].id => i = j
    BY <1>1, <1>4, <1>5 DEF JournalInv, Numbered
  <2>. QED
    BY <2>1, <2>2, <2>3, <2>4 DEF Numbered
<1>9. Ledger'
  <2>1. ASSUME NEW i \in DOMAIN journal'
        PROVE  TrueRecord(journal'[i])
    BY <1>1, <1>5 DEF JournalInv, Ledger
  <2>2. ASSUME NEW t \in Servers, call'[t].phase # "idle"
        PROVE  /\ call'[t].recorded = "written" => Mine(call[t])' # {}
               /\ Mine(call[t])' # {} => call'[t].recorded \in Left
               /\ \A i \in Mine(call[t])' : journal'[i].outcome = call'[t].outcome
    <3>1. CASE t = s
      BY <3>1, <1>1, <1>2, <1>6
    <3>2. CASE t # s
      <4>1. call'[t] = call[t] /\ Mine(call[t])' = Mine(call[t])
        BY <3>2, <2>2, <1>2, <1>7
      <4>2. \A i \in Mine(call[t]) : journal'[i] = journal[i]
        BY <1>1 DEF Mine
      <4>3. /\ call[t].recorded = "written" => Mine(call[t]) # {}
            /\ Mine(call[t]) # {} => call[t].recorded \in Left
            /\ \A i \in Mine(call[t]) : journal[i].outcome = call[t].outcome
        BY <2>2, <4>1 DEF JournalInv, Ledger
      <4>. QED
        BY <4>1, <4>2, <4>3
    <3>. QED
      BY <3>1, <3>2
  <2>. QED
    BY <2>1, <2>2 DEF Ledger
<1>. QED
  BY <1>1, <1>6, <1>8, <1>9 DEF JournalInv, n

\* What was exported stays what was recorded before it.
LEMMA ExportKept ==
    ASSUME JournalInv, NEW t \in Servers, call[t].phase # "idle", ExportHolds(call[t]),
           call'[t].phase = "answer" /\ call'[t].outcome = "ok" /\ call'[t].tool = "export_decision_record" =>
             /\ call[t].phase = "answer" /\ call[t].outcome = "ok" /\ call[t].tool = "export_decision_record"
             /\ call'[t].result = call[t].result /\ call'[t].id = call[t].id,
           \/ journal' = journal
           \/ \E r : journal' = Append(journal, r) /\ r.id # call[t].id
    PROVE  ExportHolds(call[t])'
<1> SUFFICES ASSUME call'[t].phase = "answer", call'[t].outcome = "ok", call'[t].tool = "export_decision_record"
             PROVE  \E n \in 0..Len(journal') : /\ call'[t].result = Exportable(1..n)'
                                               /\ \A i \in Mine(call[t])' : i = n + 1
  BY DEF ExportHolds
<1>1. PICK n \in 0..Len(journal) : call[t].result = Exportable(1..n) /\ \A i \in Mine(call[t]) : i = n + 1
  BY DEF ExportHolds
<1>2. CASE journal' = journal
  BY <1>1, <1>2 DEF Exportable, Mine
<1>3. CASE \E r : journal' = Append(journal, r) /\ r.id # call[t].id
  <2>1. PICK r : journal' = Append(journal, r) /\ r.id # call[t].id
    BY <1>3
  <2>2. /\ Len(journal) \in Nat /\ DOMAIN journal = 1..Len(journal)
        /\ DOMAIN journal' = 1..(Len(journal) + 1) /\ Len(journal') = Len(journal) + 1
        /\ \A i \in 1..Len(journal) : journal'[i] = journal[i]
        /\ journal'[Len(journal) + 1] = r
    BY <2>1, Longer DEF JournalInv
  <2>3. n \in 0..Len(journal') /\ 1..n \subseteq 1..Len(journal)
    BY <2>2
  <2>4. Exportable(1..n)' = Exportable(1..n)
    BY <2>2, <2>3 DEF Exportable
  <2>5. Mine(call[t])' \subseteq Mine(call[t])
    <3> SUFFICES ASSUME NEW i \in DOMAIN journal', journal'[i].id = call[t].id
                 PROVE  i \in DOMAIN journal /\ journal[i].id = call[t].id
      BY DEF Mine
    <3>1. i # Len(journal) + 1
      BY <2>1, <2>2
    <3>. QED
      BY <2>2, <3>1
  <2>. QED
    BY <1>1, <2>3, <2>4, <2>5
<1>. QED
  BY <1>2, <1>3

--------------------------------------------------------------------------------
(* The steps.                                                              *)

\* A step of one call that writes no record.
LEMMA QuietStep ==
    ASSUME CallInv, NEW s \in Servers, NEW d, call[s].phase # "idle",
           call' = [call EXCEPT ![s] = d], folder' = folder, journal' = journal,
           read \subseteq read', proofs \subseteq proofs', \A q \in proofs' : q.source \in read',
           count' \in Counts, Calls' = Calls,
           Sound(s, d, read', proofs'), Witness(d, folder), Follows(call[s], d),
           ExportHolds(call[s])'
    PROVE  CallInv'
<1>1. AllSound'
  BY OneChanges DEF CallInv
<1>2. \A t \in Servers : call'[t] = IF t = s THEN d ELSE call[t]
  BY DEF CallInv, AllSound
<1>3. JournalInv'
  <2>1. \A t \in Servers : Follows(call[t], call'[t])
    BY <1>2 DEF Follows
  <2>2. Calls \in Nat
    BY Counting DEF CallInv
  <2>. QED
    BY <2>1, <2>2, JournalKept DEF CallInv
<1>4. \A t \in Servers : t # s => ExportHolds(call[t])'
  <2> SUFFICES ASSUME NEW t \in Servers, t # s PROVE ExportHolds(call[t])'
    OBVIOUS
  <2>1. call'[t] = call[t]
    BY <1>2
  <2>2. CASE call[t].phase # "idle"
    BY <2>1, <2>2, ExportKept DEF CallInv
  <2>3. CASE call[t].phase = "idle"
    BY <2>1, <2>3 DEF ExportHolds
  <2>. QED
    BY <2>2, <2>3
<1>. QED
  BY <1>1, <1>3, <1>4 DEF CallInv

\* The beginning of a call.
LEMMA OpeningStep ==
    ASSUME CallInv, NEW s \in Servers, NEW d, call[s] = Idle,
           call' = [call EXCEPT ![s] = d], UNCHANGED <<folder, journal, read, proofs>>,
           count' \in Counts, Calls' = Calls + 1,
           Sound(s, d, read, proofs), Witness(d, folder), d.id = Calls + 1, d.recorded = "no",
           d.phase = "answer" => d.outcome # "ok"
    PROVE  CallInv'
<1>1. AllSound'
  <2>1. \A q \in proofs' : q.source \in read'
    BY DEF CallInv, AllSound
  <2>. QED
    BY <2>1, OneChanges DEF CallInv
<1>2. \A t \in Servers : call'[t] = IF t = s THEN d ELSE call[t]
  BY DEF CallInv, AllSound
<1>3. JournalInv'
  BY JournalOpens, Counting DEF CallInv, AllSound
<1>4. \A t \in Servers : ExportHolds(call[t])'
  <2> SUFFICES ASSUME NEW t \in Servers PROVE ExportHolds(call[t])'
    OBVIOUS
  <2>1. CASE t = s
    BY <2>1, <1>2 DEF ExportHolds
  <2>2. CASE t # s /\ call[t].phase # "idle"
    BY <2>2, <1>2, ExportKept DEF CallInv
  <2>3. CASE t # s /\ call[t].phase = "idle"
    BY <2>3, <1>2 DEF ExportHolds
  <2>. QED
    BY <2>1, <2>2, <2>3
<1>. QED
  BY <1>1, <1>3, <1>4 DEF CallInv

\* A call that changes neither its number nor its record, and is not over.
LEMMA Following ==
    ASSUME NEW c, NEW d, c.phase # "idle", d.id = c.id, c.recorded = "no", d.recorded # "written"
    PROVE  Follows(c, d)
BY DEF Follows, Left

\* What every step of an open call starts from.
LEMMA OpenCall ==
    ASSUME CallInv, NEW s \in Servers, call[s].phase \in Phases
    PROVE  /\ Shaped(call[s]) /\ call[s].phase # "idle" /\ call[s] # Idle
           /\ Sound(s, call[s], read, proofs) /\ Witness(call[s], folder)
           /\ \A p \in Paths : folder[p] \in call[s].held[p]
           /\ \A q \in proofs : q.source \in read
<1>1. call[s].phase # "idle"
  BY DEF Phases
<1>2. call[s] # Idle
  BY <1>1 DEF Idle
<1>. QED
  BY <1>1, <1>2 DEF CallInv, AllSound, Sound, Witness

\* An open call that ends its operation.
LEMMA EndingStep ==
    ASSUME CallInv, NEW s \in Servers, NEW outcome, NEW result,
           call[s].phase \in Phases, call[s].recorded = "no",
           Ends(s, outcome, result), UNCHANGED <<folder, journal, read, proofs>>,
           count' \in Counts, Calls' = Calls,
           Sound(s, Ended(call[s], outcome, result), read, proofs)
    PROVE  CallInv'
<1> DEFINE c == call[s]
           d == Ended(c, outcome, result)
<1>1. Shaped(c) /\ c.phase # "idle" /\ \A p \in Paths : folder[p] \in c.held[p]
  BY OpenCall
<1>2. d = [id |-> c.id, tool |-> c.tool, args |-> c.args, phase |-> "record",
           outcome |-> outcome, result |-> result, recorded |-> c.recorded,
           held |-> c.held, put |-> c.put]
  BY <1>1, Fields
<1>3. call' = [call EXCEPT ![s] = d]
  BY DEF Ends, CallInv, AllSound
<1>4. call'[s] = d
  BY <1>3 DEF CallInv, AllSound
<1>5. Sound(s, d, read', proofs')
  OBVIOUS
<1> HIDE DEF d
<1>6. Witness(d, folder)
  BY <1>1, <1>2 DEF Witness
<1>7. Follows(c, d)
  BY <1>1, <1>2, Following
<1>8. ExportHolds(call[s])'
  BY <1>4, <1>2 DEF ExportHolds
<1>9. \A q \in proofs' : q.source \in read'
  BY DEF CallInv, AllSound
<1>. QED
  BY <1>1, <1>3, <1>5, <1>6, <1>7, <1>8, <1>9, QuietStep

\* A call that begins relies on its arguments alone.
LEMMA BeginStep ==
    ASSUME CallInv, NEW s \in Servers, NEW tool, NEW args, NEW phase \in {"read", "list", "look", "export"},
           Begin(s, tool, args, phase),
           phase = "read" => /\ tool \in Readers /\ args.path \in Paths
                             /\ tool = "preflight_edits" => AnchoredIn(args.edits, read),
           phase = "list" => /\ tool = "list_rounds"
                             /\ args = [paths |-> {p \in Paths : folder[p] # None},
                                        facts |-> [p \in {} |-> None]],
           phase = "look" => /\ tool = "apply_edits"
                             /\ args.path \in Paths /\ args.output \in Paths /\ args.proof \in proofs,
           phase = "export" => tool = "export_decision_record"
    PROVE  CallInv'
<1> DEFINE d == Started(tool, args, phase)
<1>1. d = [id |-> Calls + 1, tool |-> tool, args |-> args, phase |-> phase,
           outcome |-> None, result |-> None, recorded |-> "no",
           held |-> [p \in Paths |-> {folder[p]}], put |-> None]
  BY DEF Started
<1>2. call' = [call EXCEPT ![s] = d] /\ call[s] = Idle /\ UNCHANGED <<folder, journal, read, proofs>>
  BY DEF Begin
<1>3. count' \in Counts /\ Calls' = Calls + 1
  BY Counting DEF Begin, CallInv
<1> HIDE DEF d
<1>4. /\ d.tool = tool /\ d.args = args /\ d.phase = phase /\ d.put = None /\ d.recorded = "no"
      /\ d.id = Calls + 1 /\ \A p \in Paths : d.held[p] = {folder[p]}
  BY <1>1
<1>5. Shaped(d)
  BY <1>1 DEF Shaped, Phases
<1>6. Reads(d, read) /\ Applies(s, d, proofs) /\ Told(s, d, read)
  BY <1>4 DEF Reads, Applies, Told
<1>7. Lists(d)
  <2> SUFFICES ASSUME phase = "list" PROVE Lists(d)
    BY <1>4 DEF Lists
  <2> DEFINE facts == [p \in {} |-> None]
             paths == {p \in Paths : folder[p] # None}
  <2>1. args = [paths |-> paths, facts |-> facts]
    OBVIOUS
  <2>2. DOMAIN facts = {} /\ facts = [p \in DOMAIN facts |-> facts[p]]
    OBVIOUS
  <2>3. paths \subseteq Paths /\ \A p \in Paths \ paths : folder[p] = None
    OBVIOUS
  <2> HIDE DEF facts, paths
  <2>4. args.paths = paths /\ args.facts = facts
    BY <2>1
  <2>. QED
    BY <1>4, <2>1, <2>2, <2>3, <2>4 DEF Lists
<1>8. Sound(s, d, read, proofs) /\ Witness(d, folder)
  BY <1>4, <1>5, <1>6, <1>7 DEF Sound, Witness
<1>9. d.phase # "answer"
  BY <1>4
<1>. QED
  BY <1>2, <1>3, <1>4, <1>8, <1>9, OpeningStep

\* The edits a client sends quote documents it has been given anchors of.
LEMMA AnchoredEdits ==
    ASSUME NEW change \in Changes, NEW docs, NEW anchors \in [DOMAIN change -> docs]
    PROVE  AnchoredIn(Anchored(change, anchors), docs)
<1> DEFINE batch == Anchored(change, anchors)
<1>1. change \in Seq([old : Wordings \cup {None}, new : Wordings \cup {None}])
  BY CallsAssumption
<1>2. DOMAIN change = 1..Len(change) /\ Len(change) \in Nat
  BY <1>1
<1>3. batch = [i \in 1..Len(change) |-> Edit(anchors[i], change[i].old, change[i].new)]
  BY <1>2 DEF Anchored
<1>4. batch \in Seq({batch[i] : i \in DOMAIN batch})
  BY <1>2, <1>3
<1>5. \A i \in DOMAIN batch : batch[i].on \in docs
  BY <1>2, <1>3 DEF Edit
<1>. QED
  BY <1>4, <1>5 DEF AnchoredIn

\* A call begins.
LEMMA RequestsStep == ASSUME CallInv, NEW s \in Servers, Requests(s) PROVE CallInv'
<1>1. ASSUME NEW path \in Paths, ExtractRedlines(s, path) PROVE CallInv'
  <2> DEFINE args == [path |-> path, ref |-> None]
  <2>1. args.path = path /\ Begin(s, "extract_redlines", args, "read")
    BY <1>1 DEF ExtractRedlines
  <2> HIDE DEF args
  <2>. QED
    BY <2>1, BeginStep DEF Readers
<1>2. ASSUME NEW path \in Paths, NEW ref \in read, InspectDocument(s, path, ref) PROVE CallInv'
  <2> DEFINE args == [path |-> path, ref |-> ref]
  <2>1. args.path = path /\ Begin(s, "inspect_document", args, "read")
    BY <1>2 DEF InspectDocument
  <2> HIDE DEF args
  <2>. QED
    BY <2>1, BeginStep DEF Readers
<1>3. ASSUME NEW path \in Paths, NEW anchor \in read, NEW mode, NEW quote \in Quotes,
             VerifyQuote(s, path, anchor, mode, quote)
      PROVE  CallInv'
  <2> DEFINE args == [path |-> path, anchor |-> anchor, mode |-> mode, quote |-> quote]
  <2>1. args.path = path /\ Begin(s, "verify_quote", args, "read")
    BY <1>3 DEF VerifyQuote
  <2> HIDE DEF args
  <2>. QED
    BY <2>1, BeginStep DEF Readers
<1>4. ASSUME NEW path \in Paths, NEW change \in Changes, NEW anchors \in [DOMAIN change -> read],
             PreflightEdits(s, path, Anchored(change, anchors))
      PROVE  CallInv'
  <2> DEFINE args == [path |-> path, edits |-> Anchored(change, anchors)]
  <2>1. args.path = path /\ args.edits = Anchored(change, anchors)
        /\ Begin(s, "preflight_edits", args, "read")
    BY <1>4 DEF PreflightEdits
  <2>2. AnchoredIn(args.edits, read)
    BY <2>1, AnchoredEdits
  <2> HIDE DEF args
  <2>. QED
    BY <2>1, <2>2, BeginStep DEF Readers
<1>5. ASSUME NEW path \in Paths, NEW output \in Paths, NEW proof \in proofs, NEW edits,
             ApplyEdits(s, path, output, edits, proof)
      PROVE  CallInv'
  <2> DEFINE args == [path |-> path, output |-> output, edits |-> edits, proof |-> proof]
  <2>1. args.path = path /\ args.output = output /\ args.proof = proof
        /\ Begin(s, "apply_edits", args, "look")
    BY <1>5 DEF ApplyEdits
  <2> HIDE DEF args
  <2>. QED
    BY <2>1, BeginStep
<1>6. ASSUME ListRounds(s) PROVE CallInv'
  BY <1>6, BeginStep DEF ListRounds
<1>7. ASSUME ExportDecisionRecord(s) PROVE CallInv'
  BY <1>7, BeginStep DEF ExportDecisionRecord
<1>8. ASSUME NEW code \in {"invalid_arguments", "workspace_refused"}, RefuseCall(s, code) PROVE CallInv'
  <2> DEFINE c == Started("tool", None, "answer")
             d == [c EXCEPT !.outcome = code]
  <2>1. c = [id |-> Calls + 1, tool |-> "tool", args |-> None, phase |-> "answer",
             outcome |-> None, result |-> None, recorded |-> "no",
             held |-> [p \in Paths |-> {folder[p]}], put |-> None]
    BY DEF Started
  <2>2. call' = [call EXCEPT ![s] = d] /\ call[s] = Idle /\ UNCHANGED <<folder, journal, read, proofs>>
    BY <1>8 DEF RefuseCall
  <2>3. count' \in Counts /\ Calls' = Calls + 1
    BY <1>8, Counting DEF RefuseCall, CallInv
  <2> HIDE DEF c
  <2>4. d = [id |-> Calls + 1, tool |-> "tool", args |-> None, phase |-> "answer",
             outcome |-> code, result |-> None, recorded |-> "no",
             held |-> [p \in Paths |-> {folder[p]}], put |-> None]
    BY <2>1
  <2> HIDE DEF d
  <2>5. /\ d.tool = "tool" /\ d.phase = "answer" /\ d.put = None /\ d.recorded = "no" /\ d.outcome = code
        /\ d.id = Calls + 1 /\ \A p \in Paths : d.held[p] = {folder[p]}
    BY <2>4
  <2>6. code # "ok"
    OBVIOUS
  <2>7. Shaped(d) /\ Told(s, d, read) /\ Reads(d, read) /\ Lists(d) /\ Applies(s, d, proofs)
    <3>1. Shaped(d)
      BY <2>4 DEF Shaped, Phases
    <3>. QED
      BY <2>5, <2>6, <3>1 DEF Told, Reads, Lists, Applies
  <2>8. Sound(s, d, read, proofs) /\ Witness(d, folder)
    BY <2>5, <2>7 DEF Sound, Witness
  <2>. QED
    BY <2>2, <2>3, <2>5, <2>6, <2>8, OpeningStep
<1>. QED
  BY <1>1, <1>2, <1>3, <1>4, <1>5, <1>6, <1>7, <1>8 DEF Requests

\* Before its operation ends, a call has put nothing and recorded nothing.
LEMMA AtWork ==
    ASSUME CallInv, NEW s \in Servers, call[s].phase \in {"read", "list", "look", "prepare", "publish", "export"}
    PROVE  /\ call[s].phase \in Phases /\ Shaped(call[s])
           /\ call[s].put = None /\ call[s].recorded = "no"
           /\ Reads(call[s], read) /\ Lists(call[s]) /\ Applies(s, call[s], proofs)
           /\ \A p \in Paths : folder[p] \in call[s].held[p]
<1>1. call[s].phase \in Phases
  BY DEF Phases
<1>. QED
  BY <1>1, OpenCall DEF Sound

\* A dry run tells of its edits what the diagnosis of its bytes is.
LEMMA PreflightIsTrue ==
    ASSUME NEW s, NEW c, NEW doc, NEW docs, Shaped(c), c.tool = "preflight_edits",
           doc \in c.held[c.args.path], AnchoredIn(c.args.edits, docs)
    PROVE  LET r == PreflightOf(s, c, doc).result
           IN /\ PreflightOf(s, c, doc) = Ended(c, "ok", r)
              /\ TrueOfFolder(Ended(c, "ok", r))
              /\ Proving(s, Ended(c, "ok", r), docs)
<1> DEFINE edits == c.args.edits
           diagnosis == IF doc = None THEN Unread(edits) ELSE Diagnosis(doc, edits, Author(s))
           proof == IF doc # None /\ Fits(doc, edits, Author(s))
                    THEN {Proof(doc, edits, Author(s), Build(s))} ELSE {}
           r == [source |-> doc, diagnosis |-> diagnosis, proof |-> proof]
           d == Ended(c, "ok", r)
<1>1. PreflightOf(s, c, doc) = d
  BY DEF PreflightOf
<1>2. edits \in Seq({edits[i] : i \in DOMAIN edits}) /\ \A i \in DOMAIN edits : edits[i].on \in docs
  BY DEF AnchoredIn
<1>3. /\ \A i \in DOMAIN edits : diagnosis.edits[i] \in {"planned", "applicable"} => edits[i].on = doc
      /\ (proof # {}) <=> (DOMAIN diagnosis.edits # {} /\ \A i \in DOMAIN diagnosis.edits :
                                                           diagnosis.edits[i] = "applicable")
  <2>1. CASE doc = None
    <3>1. diagnosis.edits = [i \in DOMAIN edits |-> "not_evaluated"] /\ proof = {}
      BY <2>1 DEF Unread, NotEvaluated
    <3>. QED
      BY <3>1
  <2>2. CASE doc # None
    <3>1. diagnosis = Diagnosis(doc, edits, Author(s))
      BY <2>2
    <3>2. (proof # {}) <=> Fits(doc, edits, Author(s))
      BY <2>2
    <3> HIDE DEF diagnosis, proof, edits
    <3>. QED
      BY <3>1, <3>2, <1>2, DiagnosisIsTrue
  <2>. QED
    BY <2>1, <2>2
<1>4. \A q \in proof : q.source \in docs
  <2> SUFFICES ASSUME doc # None, Fits(doc, edits, Author(s)) PROVE doc \in docs
    BY DEF Proof
  <2> HIDE DEF edits
  <2>1. DOMAIN edits # {} /\ \A i \in DOMAIN edits : edits[i].on = doc
    BY <1>2, FittingBatches
  <2>. QED
    BY <2>1, <1>2
<1>9. proof = IF doc # None /\ Fits(doc, edits, Author(s))
              THEN {Proof(doc, edits, Author(s), Build(s))} ELSE {}
  OBVIOUS
<1> HIDE DEF diagnosis, proof
<1>5. r.source = doc /\ r.diagnosis = diagnosis /\ r.proof = proof
  OBVIOUS
<1> HIDE DEF r
<1>6. d.tool = c.tool /\ d.args = c.args /\ d.held = c.held /\ d.result = r
  BY EndedFields
<1> HIDE DEF d
<1>7. TrueOfFolder(d)
  BY <1>3, <1>5, <1>6 DEF TrueOfFolder
<1>8. d.result = r /\ PreflightOf(s, c, doc).result = r
  BY <1>1, <1>6
<1>10. Proving(s, d, docs)
  BY <1>4, <1>5, <1>6, <1>9 DEF Proving
<1>. QED
  BY <1>1, <1>7, <1>8, <1>10 DEF d

\* A tool reads its document, once, and decides what it answers.
LEMMA ReadStep == ASSUME CallInv, NEW s \in Servers, ReadDocument(s) PROVE CallInv'
<1> DEFINE c == call[s]
           doc == folder[c.args.path]
<1>1. c.phase = "read"
  BY DEF ReadDocument, In
<1>2. /\ c.phase \in Phases /\ Shaped(c) /\ c.put = None /\ c.recorded = "no"
      /\ Reads(c, read) /\ \A p \in Paths : folder[p] \in c.held[p]
  BY <1>1, AtWork
<1>3. /\ c.tool \in Readers /\ c.args.path \in Paths /\ doc \in c.held[c.args.path]
      /\ c.tool = "preflight_edits" => AnchoredIn(c.args.edits, read)
  BY <1>1, <1>2 DEF Reads
<1>4. /\ UNCHANGED <<folder, journal, read, proofs>> /\ count' \in Counts /\ Calls' = Calls
  BY Counting DEF ReadDocument, CallInv
<1>5. call' = [call EXCEPT ![s] =
          IF c.tool = "preflight_edits" THEN PreflightOf(s, c, doc)
          ELSE IF doc = None THEN Ended(c, "file_unreadable", None)
          ELSE IF c.tool = "verify_quote" THEN VerdictOf(c, doc)
          ELSE ReadingOf(c, doc)]
  BY DEF ReadDocument
<1>6. ASSUME NEW outcome, NEW result, call' = [call EXCEPT ![s] = Ended(c, outcome, result)],
             Sound(s, Ended(c, outcome, result), read, proofs)
      PROVE  CallInv'
  <2>1. Ends(s, outcome, result)
    BY <1>6 DEF Ends, CallInv, AllSound
  <2>. QED
    BY <1>2, <1>4, <1>6, <2>1, EndingStep
<1>7. \A outcome, result : Ended(c, outcome, result).tool = c.tool
        /\ Ended(c, outcome, result).args = c.args /\ Ended(c, outcome, result).held = c.held
        /\ Ended(c, outcome, result).result = result
  BY <1>2, EndedFields
<1>8. ASSUME NEW code, code # "ok" PROVE Sound(s, Ended(c, code, None), read, proofs)
  BY <1>2, <1>8, SoundEnding
<1>9. CASE c.tool = "preflight_edits"
  <2> DEFINE r == PreflightOf(s, c, doc).result
  <2>1. /\ PreflightOf(s, c, doc) = Ended(c, "ok", r) /\ TrueOfFolder(Ended(c, "ok", r))
        /\ Proving(s, Ended(c, "ok", r), read)
    BY <1>2, <1>3, <1>9, PreflightIsTrue
  <2> HIDE DEF r, doc
  <2>2. Sound(s, Ended(c, "ok", r), read, proofs)
    BY <1>2, <1>3, <1>9, <2>1, SoundEnding
  <2>3. call' = [call EXCEPT ![s] = Ended(c, "ok", r)]
    BY <1>5, <1>9, <2>1
  <2>. QED
    BY <2>2, <2>3, <1>6
<1>10. CASE c.tool # "preflight_edits" /\ doc = None
  <2>1. call' = [call EXCEPT ![s] = Ended(c, "file_unreadable", None)]
    BY <1>5, <1>10
  <2>. QED
    BY <2>1, <1>6, <1>8
<1>11. CASE c.tool = "verify_quote" /\ doc # None
  <2>0. call' = [call EXCEPT ![s] = VerdictOf(c, doc)]
    BY <1>5, <1>11
  <2>1. CASE c.args.anchor # doc
    <3>1. VerdictOf(c, doc) = Ended(c, "file_sha256_mismatch", None)
      BY <2>1 DEF VerdictOf
    <3>. QED
      BY <2>0, <3>1, <1>6, <1>8
  <2>2. CASE c.args.anchor = doc
    <3> DEFINE v == Verdict(doc, c.args.mode, c.args.quote)
               r == [source |-> doc, verdict |-> v]
    <3>1. VerdictOf(c, doc) = Ended(c, "ok", r)
      BY <2>2 DEF VerdictOf
    <3>2. (v # "not_found") <=> (c.args.quote.wording \in Reading(doc, c.args.mode))
      BY DEF Verdict
    <3> HIDE DEF v
    <3>3. r.source = doc /\ r.verdict = v
      OBVIOUS
    <3> HIDE DEF r
    <3>4. TrueOfFolder(Ended(c, "ok", r))
      BY <3>2, <3>3, <2>2, <1>3, <1>7, <1>11 DEF TrueOfFolder
    <3>5. Sound(s, Ended(c, "ok", r), read, proofs)
      BY <1>2, <1>3, <1>11, <3>4, SoundEnding
    <3>. QED
      BY <2>0, <3>1, <3>5, <1>6
  <2>. QED
    BY <2>1, <2>2
<1>12. CASE c.tool \notin {"preflight_edits", "verify_quote"} /\ doc # None
  <2>0. call' = [call EXCEPT ![s] = ReadingOf(c, doc)] /\ c.tool \in {"extract_redlines", "inspect_document"}
    BY <1>3, <1>5, <1>12 DEF Readers
  <2>1. CASE c.args.ref \notin {None, doc}
    <3>1. ReadingOf(c, doc) = Ended(c, "file_sha256_mismatch", None)
      BY <2>1 DEF ReadingOf
    <3>. QED
      BY <2>0, <3>1, <1>6, <1>8
  <2>2. CASE c.args.ref \in {None, doc}
    <3> DEFINE r == [source |-> doc]
    <3>1. ReadingOf(c, doc) = Ended(c, "ok", r)
      BY <2>2 DEF ReadingOf
    <3>3. r.source = doc
      OBVIOUS
    <3> HIDE DEF r
    <3>4. TrueOfFolder(Ended(c, "ok", r))
      BY <2>0, <3>3, <1>3, <1>7 DEF TrueOfFolder
    <3>5. Sound(s, Ended(c, "ok", r), read, proofs)
      BY <2>0, <1>2, <1>3, <3>4, SoundEnding
    <3>. QED
      BY <2>0, <3>1, <3>5, <1>6
  <2>. QED
    BY <2>1, <2>2
<1>. QED
  BY <1>9, <1>10, <1>11, <1>12

\* One document more is listed, or the list is complete.
LEMMA ListStep == ASSUME CallInv, NEW s \in Servers, ListDocument(s) PROVE CallInv'
<1> DEFINE c == call[s]
           unread == c.args.paths \ DOMAIN c.args.facts
           path == Listing[Least({i \in DOMAIN Listing : Listing[i] \in unread})]
<1>1. c.phase = "list"
  BY DEF ListDocument, In
<1>2. /\ c.phase \in Phases /\ Shaped(c) /\ c.put = None /\ c.recorded = "no"
      /\ Lists(c) /\ \A p \in Paths : folder[p] \in c.held[p]
  BY <1>1, AtWork
<1>3. /\ UNCHANGED <<folder, journal, read, proofs>> /\ count' \in Counts /\ Calls' = Calls
  BY Counting DEF ListDocument, CallInv
<1>4. /\ c.tool = "list_rounds" /\ c.args = [paths |-> c.args.paths, facts |-> c.args.facts]
      /\ c.args.paths \subseteq Paths
      /\ \A p \in Paths \ c.args.paths : None \in c.held[p]
      /\ DOMAIN c.args.facts \subseteq c.args.paths
      /\ c.args.facts = [p \in DOMAIN c.args.facts |-> c.args.facts[p]]
      /\ \A p \in DOMAIN c.args.facts : c.args.facts[p] \in c.held[p]
  BY <1>1, <1>2 DEF Lists
<1>5. CASE unread = {}
  <2>1. Ends(s, "ok", c.args.facts)
    BY <1>5 DEF ListDocument
  <2>2. \A p \in Paths : p \notin DOMAIN c.args.facts => None \in c.held[p]
    BY <1>4, <1>5
  <2>3. TrueOfFolder(Ended(c, "ok", c.args.facts))
    <3> DEFINE d == Ended(c, "ok", c.args.facts)
    <3>1. d.tool = "list_rounds" /\ d.held = c.held /\ d.result = c.args.facts
      BY <1>2, <1>4, EndedFields
    <3> HIDE DEF d
    <3>2. \A p \in Paths : IF p \in DOMAIN d.result THEN d.result[p] \in d.held[p] ELSE None \in d.held[p]
      BY <1>4, <2>2, <3>1
    <3>3. TrueOfFolder(d)
      BY <3>1, <3>2 DEF TrueOfFolder
    <3>. QED
      BY <3>3 DEF d
  <2>4. Sound(s, Ended(c, "ok", c.args.facts), read, proofs)
    BY <1>2, <1>4, <2>3, SoundEnding
  <2>. QED
    BY <1>2, <1>3, <2>1, <2>4, EndingStep
<1>6. CASE unread # {}
  <2> DEFINE facts == [p \in DOMAIN c.args.facts \cup {path} |-> IF p = path THEN folder[p] ELSE c.args.facts[p]]
             args == [c.args EXCEPT !.facts = facts]
             d == [c EXCEPT !.args = args]
  <2>1. path \in unread /\ path \in Paths
    <3> DEFINE S == {i \in DOMAIN Listing : Listing[i] \in unread}
    <3>1. S \in SUBSET Nat
      BY CallsAssumption
    <3>2. S # {}
      BY <1>4, <1>6 DEF Paths, ToSet
    <3>3. Least(S) \in S
      BY <3>1, <3>2, LeastIsIn
    <3>. QED
      BY <3>3, <1>4
  <2>2. call' = [call EXCEPT ![s].args.facts = [p \in DOMAIN @ \cup {path} |-> IF p = path THEN folder[p] ELSE @[p]]]
    BY <1>6 DEF ListDocument
  <2>3. call' = [call EXCEPT ![s] = d]
    BY <2>2
  <2> HIDE DEF path
  <2>4. /\ facts = [p \in DOMAIN facts |-> facts[p]] /\ DOMAIN facts \subseteq c.args.paths
        /\ \A p \in DOMAIN facts : facts[p] \in c.held[p]
    BY <1>2, <1>4, <2>1
  <2> HIDE DEF facts
  <2>5. args = [paths |-> c.args.paths, facts |-> facts]
    BY <1>4
  <2> HIDE DEF args
  <2>6. d = [id |-> c.id, tool |-> c.tool, args |-> args, phase |-> c.phase,
             outcome |-> c.outcome, result |-> c.result, recorded |-> c.recorded,
             held |-> c.held, put |-> c.put]
    BY <1>2 DEF Shaped
  <2> HIDE DEF d
  <2>7. /\ d.id = c.id /\ d.tool = c.tool /\ d.args = args /\ d.phase = "list"
        /\ d.recorded = "no" /\ d.held = c.held /\ d.put = None
    BY <1>1, <1>2, <2>6
  <2>8. Shaped(d)
    BY <1>2, <2>6 DEF Shaped
  <2>9. Lists(d)
    BY <1>4, <2>4, <2>5, <2>7 DEF Lists
  <2>10. Sound(s, d, read, proofs)
    BY <2>7, <2>8, <2>9 DEF Sound, Reads, Applies, Told
  <2>11. Witness(d, folder)
    BY <1>2, <2>7 DEF Witness
  <2>12. call[s].phase # "idle" /\ Follows(c, d)
    BY <1>1, <1>2, <2>7 DEF Follows, Left
  <2>13. ExportHolds(call[s])'
    BY <2>3, <2>7 DEF ExportHolds, CallInv, AllSound
  <2>14. \A q \in proofs' : q.source \in read'
    BY <1>3 DEF CallInv, AllSound
  <2>. QED
    BY <1>3, <2>3, <2>10, <2>11, <2>12, <2>13, <2>14, QuietStep
<1>. QED
  BY <1>5, <1>6

\* An open call that goes on, without a record.
LEMMA GoingStep ==
    ASSUME CallInv, NEW s \in Servers, NEW d, call' = [call EXCEPT ![s] = d],
           call[s].phase \in {"read", "list", "look", "prepare", "publish", "export"},
           UNCHANGED <<folder, journal, read, proofs>>, count' \in Counts, Calls' = Calls,
           d.id = call[s].id, d.held = call[s].held, d.recorded # "written", Sound(s, d, read, proofs),
           d.phase = "answer" => d.outcome # "ok"
    PROVE  CallInv'
<1>1. call[s].phase # "idle" /\ call[s].recorded = "no" /\ \A p \in Paths : folder[p] \in call[s].held[p]
  BY AtWork
<1>2. Follows(call[s], d) /\ Witness(d, folder)
  BY <1>1 DEF Follows, Left, Witness
<1>3. ExportHolds(call[s])'
  BY DEF ExportHolds, CallInv, AllSound
<1>4. \A q \in proofs' : q.source \in read'
  BY DEF CallInv, AllSound
<1>. QED
  BY <1>1, <1>2, <1>3, <1>4, QuietStep

\* The output is looked for before anything is read.
LEMMA LookStep == ASSUME CallInv, NEW s \in Servers, LookForOutput(s) PROVE CallInv'
<1> DEFINE c == call[s]
           d == [c EXCEPT !.phase = "prepare"]
<1>1. c.phase = "look"
  BY DEF LookForOutput, In
<1>2. /\ c.phase \in Phases /\ Shaped(c) /\ c.put = None /\ c.recorded = "no" /\ Applies(s, c, proofs)
  BY <1>1, AtWork
<1>3. /\ UNCHANGED <<folder, journal, read, proofs>> /\ count' \in Counts /\ Calls' = Calls
  BY Counting DEF LookForOutput, CallInv
<1>4. CASE Ends(s, "output_exists", None)
  <2>1. Sound(s, Ended(c, "output_exists", None), read, proofs)
    BY <1>2, SoundEnding
  <2>. QED
    BY <1>2, <1>3, <1>4, <2>1, EndingStep
<1>5. CASE call' = [call EXCEPT ![s].phase = "prepare"]
  <2>1. call' = [call EXCEPT ![s] = d]
    BY <1>5
  <2>2. d = [id |-> c.id, tool |-> c.tool, args |-> c.args, phase |-> "prepare",
             outcome |-> c.outcome, result |-> c.result, recorded |-> c.recorded,
             held |-> c.held, put |-> c.put]
    BY <1>2, Fields
  <2> HIDE DEF d
  <2>3. /\ d.id = c.id /\ d.tool = c.tool /\ d.args = c.args /\ d.phase = "prepare"
        /\ d.recorded = "no" /\ d.held = c.held /\ d.put = None
    BY <1>2, <2>2
  <2>4. Shaped(d)
    BY <1>2, <2>2 DEF Shaped, Phases
  <2>5. Applies(s, d, proofs)
    BY <1>1, <1>2, <2>3 DEF Applies
  <2>6. Sound(s, d, read, proofs)
    BY <2>3, <2>4, <2>5 DEF Sound, Reads, Lists, Told
  <2>. QED
    BY <1>1, <1>3, <2>1, <2>3, <2>6, GoingStep
<1>. QED
  BY <1>4, <1>5 DEF LookForOutput

\* A candidate is made, and compared with what was previewed.
LEMMA PrepareStep == ASSUME CallInv, NEW s \in Servers, PrepareCandidate(s) PROVE CallInv'
<1> DEFINE c == call[s]
           doc == folder[c.args.path]
           made == Candidate(doc, c.args.edits, Author(s))
           result == [source |-> doc, made |-> made]
<1>1. c.phase = "prepare"
  BY DEF PrepareCandidate, In
<1>2. /\ c.phase \in Phases /\ Shaped(c) /\ c.put = None /\ c.recorded = "no" /\ Applies(s, c, proofs)
      /\ \A p \in Paths : folder[p] \in c.held[p]
  BY <1>1, AtWork
<1>3. /\ UNCHANGED <<folder, journal, read, proofs>> /\ count' \in Counts /\ Calls' = Calls
  BY Counting DEF PrepareCandidate, CallInv
<1>4. c.tool = "apply_edits" /\ c.args.path \in Paths /\ c.args.output \in Paths /\ c.args.proof \in proofs
  BY <1>1, <1>2 DEF Applies
<1>5. \/ \E code \in {"file_unreadable", "batch_refused", "preflight_binding_mismatch"} : Ends(s, code, None)
      \/ /\ c.args.proof = Proof(doc, c.args.edits, Author(s), Build(s))
         /\ call' = [call EXCEPT ![s].phase = "publish", ![s].result = result]
  BY DEF PrepareCandidate
<1>6. ASSUME NEW code \in {"file_unreadable", "batch_refused", "preflight_binding_mismatch"}, Ends(s, code, None)
      PROVE  CallInv'
  <2>1. Sound(s, Ended(c, code, None), read, proofs)
    BY <1>2, SoundEnding
  <2>. QED
    BY <1>2, <1>3, <1>6, <2>1, EndingStep
<1>7. CASE /\ c.args.proof = Proof(doc, c.args.edits, Author(s), Build(s))
           /\ call' = [call EXCEPT ![s].phase = "publish", ![s].result = result]
  <2> DEFINE b == [c EXCEPT !.phase = "publish"]
             d == [b EXCEPT !.result = result]
  <2>1. call' = [call EXCEPT ![s] = d]
    BY <1>7
  <2>2. b = [id |-> c.id, tool |-> c.tool, args |-> c.args, phase |-> "publish",
             outcome |-> c.outcome, result |-> c.result, recorded |-> c.recorded,
             held |-> c.held, put |-> c.put]
    BY <1>2, Fields
  <2>3. result.source = doc /\ result.made = made
    OBVIOUS
  <2> HIDE DEF b, result
  <2>4. d = [id |-> c.id, tool |-> c.tool, args |-> c.args, phase |-> "publish",
             outcome |-> c.outcome, result |-> result, recorded |-> c.recorded,
             held |-> c.held, put |-> c.put]
    BY <2>2
  <2> HIDE DEF d
  <2>5. /\ d.id = c.id /\ d.tool = c.tool /\ d.args = c.args /\ d.phase = "publish"
        /\ d.recorded = "no" /\ d.held = c.held /\ d.put = None /\ d.result = result
    BY <1>2, <2>4
  <2>6. Shaped(d)
    BY <1>2, <2>4 DEF Shaped, Phases
  <2>7. Derived(s, d)
    BY <1>2, <1>4, <2>3, <2>5 DEF Derived
  <2>8. Applies(s, d, proofs)
    BY <1>4, <1>7, <2>3, <2>5, <2>7 DEF Applies
  <2>9. Sound(s, d, read, proofs)
    BY <2>5, <2>6, <2>8 DEF Sound, Reads, Lists, Told
  <2>. QED
    BY <1>1, <1>3, <2>1, <2>5, <2>9, GoingStep
<1>. QED
  BY <1>5, <1>6, <1>7

\* The folder changes, and no call changes but in what it has seen, or ends
\* its operation with what it put there.
LEMMA FolderStep ==
    ASSUME CallInv, NEW C, C = [t \in Servers |-> C[t]],
           \A t \in Servers : Sound(t, C[t], read, proofs) /\ Follows(call[t], C[t]) /\ Follows(C[t], call[t]),
           \A t \in Servers : C[t] = call[t] \/ C[t].phase # "answer",
           folder' = [p \in Paths |-> folder'[p]], call' = Witnessed(C, folder'),
           UNCHANGED <<journal, read, proofs>>, count' \in Counts, Calls' = Calls
    PROVE  CallInv'
<1>1. AllSound'
  BY AllSee DEF CallInv
<1>2. \A t \in Servers : call'[t] = Seeing(C[t], folder')
  BY DEF Witnessed, Seeing
<1>3. ASSUME NEW t \in Servers
      PROVE  /\ C[t] = Idle => call'[t] = Idle
             /\ C[t] # Idle => /\ call'[t].id = C[t].id /\ call'[t].phase = C[t].phase
                               /\ call'[t].recorded = C[t].recorded /\ call'[t].outcome = C[t].outcome
                               /\ call'[t].tool = C[t].tool /\ call'[t].result = C[t].result
  <2>1. CASE C[t] = Idle
    BY <1>2, <2>1 DEF Seeing
  <2>2. CASE C[t] # Idle
    <3> DEFINE c == C[t]
               h == [p \in Paths |-> c.held[p] \cup {folder'[p]}]
               d == [c EXCEPT !.held = h]
    <3>1. call'[t] = d
      BY <1>2, <2>2 DEF Seeing
    <3>2. Shaped(c)
      BY <2>2 DEF Sound
    <3> HIDE DEF c, h
    <3>3. d = [id |-> c.id, tool |-> c.tool, args |-> c.args, phase |-> c.phase,
               outcome |-> c.outcome, result |-> c.result, recorded |-> c.recorded,
               held |-> h, put |-> c.put]
      BY <3>2, Fields
    <3> HIDE DEF d
    <3>. QED
      BY <2>2, <3>1, <3>3 DEF c
  <2>. QED
    BY <2>1, <2>2
<1>4. \A t \in Servers : Follows(call[t], call'[t])
  BY <1>3 DEF Follows, Idle
<1>5. JournalInv'
  <2>1. Calls \in Nat
    BY Counting DEF CallInv
  <2>. QED
    BY <1>4, <2>1, JournalKept DEF CallInv
<1>6. ASSUME NEW t \in Servers PROVE ExportHolds(call[t])'
  <2>1. CASE C[t] = Idle
    BY <1>3, <2>1 DEF ExportHolds, Idle
  <2>2. CASE C[t] # Idle /\ C[t].phase # "answer"
    BY <1>3, <2>2 DEF ExportHolds
  <2>3. CASE C[t] # Idle /\ C[t] = call[t] /\ C[t].phase = "answer"
    BY <1>3, <2>3, ExportKept DEF CallInv
  <2>. QED
    BY <2>1, <2>2, <2>3
<1>. QED
  BY <1>1, <1>5, <1>6 DEF CallInv

\* The candidate is linked to its name, and every call sees it.
LEMMA PublishStep == ASSUME CallInv, NEW s \in Servers, PublishOutput(s) PROVE CallInv'
<1> DEFINE c == call[s]
<1>1. c.phase = "publish"
  BY DEF PublishOutput, In
<1>2. /\ c.phase \in Phases /\ Shaped(c) /\ c.put = None /\ c.recorded = "no" /\ Applies(s, c, proofs)
      /\ \A p \in Paths : folder[p] \in c.held[p]
  BY <1>1, AtWork
<1>3. /\ UNCHANGED <<journal, read, proofs>> /\ count' \in Counts /\ Calls' = Calls
  BY Counting DEF PublishOutput, CallInv
<1>4. c.tool = "apply_edits" /\ c.args.path \in Paths /\ c.args.output \in Paths /\ Derived(s, c)
  BY <1>1, <1>2 DEF Applies
<1>5. CASE folder[c.args.output] # None
  <2>1. Ends(s, "output_exists", None) /\ UNCHANGED folder
    BY <1>5 DEF PublishOutput
  <2>2. Sound(s, Ended(c, "output_exists", None), read, proofs)
    BY <1>2, SoundEnding
  <2>. QED
    BY <1>2, <1>3, <2>1, <2>2, EndingStep
<1>6. CASE folder[c.args.output] = None
  <2> DEFINE made == c.result.made
             b == Ended(c, "ok", c.result)
             d == [b EXCEPT !.put = made]
             C == [call EXCEPT ![s] = d]
  <2>1. folder' = [folder EXCEPT ![c.args.output] = made] /\ call' = Witnessed(C, folder')
    BY <1>6 DEF PublishOutput
  <2>2. b = [id |-> c.id, tool |-> c.tool, args |-> c.args, phase |-> "record",
             outcome |-> "ok", result |-> c.result, recorded |-> c.recorded,
             held |-> c.held, put |-> c.put]
    BY <1>2, Fields
  <2> HIDE DEF b, made
  <2>3. d = [id |-> c.id, tool |-> c.tool, args |-> c.args, phase |-> "record",
             outcome |-> "ok", result |-> c.result, recorded |-> c.recorded,
             held |-> c.held, put |-> made]
    BY <2>2
  <2> HIDE DEF d
  <2>4. /\ d.id = c.id /\ d.tool = c.tool /\ d.args = c.args /\ d.phase = "record" /\ d.outcome = "ok"
        /\ d.recorded = "no" /\ d.held = c.held /\ d.put = made /\ d.result = c.result
    BY <1>2, <2>3
  <2>5. Shaped(d)
    BY <1>2, <2>3 DEF Shaped, Phases
  <2>6. Derived(s, d)
    BY <1>4, <2>4 DEF Derived
  <2>7. TrueOfFolder(d)
    BY <1>4, <2>4, <2>6 DEF TrueOfFolder, Derived, made
  <2>8. Told(s, d, read)
    BY <1>4, <2>4, <2>6, <2>7 DEF Told
  <2>9. Sound(s, d, read, proofs)
    BY <2>4, <2>5, <2>8 DEF Sound, Reads, Lists, Applies, Undecided
  <2>10. /\ C = [t \in Servers |-> C[t]] /\ C[s] = d /\ \A t \in Servers : t # s => C[t] = call[t]
    BY DEF CallInv, AllSound
  <2> HIDE DEF C
  <2>11. \A t \in Servers : Sound(t, C[t], read, proofs) /\ Follows(call[t], C[t]) /\ Follows(C[t], call[t])
    BY <1>1, <1>2, <2>4, <2>9, <2>10 DEF Follows, Left, CallInv, AllSound
  <2>12. \A t \in Servers : C[t] = call[t] \/ C[t].phase # "answer"
    BY <2>4, <2>10
  <2>13. folder' = [p \in Paths |-> folder'[p]]
    BY <2>1 DEF CallInv, AllSound
  <2>. QED
    BY <1>3, <2>1, <2>10, <2>11, <2>12, <2>13, FolderStep
<1>. QED
  BY <1>5, <1>6

\* Word or a user changes the folder, and every call sees it.
LEMMA ChangeStep ==
    ASSUME CallInv, NEW path \in Paths, NEW doc, ChangeFolder(path, doc) PROVE CallInv'
<1>1. /\ folder' = [folder EXCEPT ![path] = doc] /\ call' = Witnessed(call, folder')
      /\ UNCHANGED <<journal, read, proofs>> /\ count' = [count EXCEPT !.saves = @ + 1]
  BY DEF ChangeFolder
<1>2. count' \in Counts /\ Calls' = Calls
  BY <1>1, Counting DEF CallInv
<1>3. folder' = [p \in Paths |-> folder'[p]] /\ call = [t \in Servers |-> call[t]]
  BY <1>1 DEF CallInv, AllSound
<1>4. \A t \in Servers : Sound(t, call[t], read, proofs) /\ Follows(call[t], call[t])
  BY DEF CallInv, AllSound, Follows
<1>. QED
  BY <1>1, <1>2, <1>3, <1>4, FolderStep

\* A call that is answered, with a record of it or without.
LEMMA RecordStep ==
    ASSUME CallInv, NEW s \in Servers, NEW d, NEW r, call' = [call EXCEPT ![s] = d],
           call[s].phase \in {"record", "export"},
           UNCHANGED <<folder, read, proofs>>, count' \in Counts, Calls' = Calls,
           Sound(s, d, read, proofs), d.id = call[s].id, d.held = call[s].held, d.phase = "answer",
           \/ /\ journal' = Append(journal, r) /\ d.recorded \in Left
              /\ r.id = d.id /\ r.outcome = d.outcome
              /\ TrueRecord(r)
           \/ journal' = journal /\ d.recorded # "written",
           d.tool = "export_decision_record" /\ d.outcome = "ok" => d.result = Exportable(DOMAIN journal)
    PROVE  CallInv'
<1> DEFINE c == call[s]
<1>1. c.phase \in Phases /\ c.phase # "answer"
  BY DEF Phases
<1>2. /\ Shaped(c) /\ c.phase # "idle" /\ Sound(s, c, read, proofs) /\ c # Idle
      /\ \A p \in Paths : folder[p] \in c.held[p]
  BY <1>1, OpenCall
<1>3. c.recorded = "no"
  BY <1>1, <1>2 DEF Sound
<1>4. \A q \in proofs' : q.source \in read'
  BY DEF CallInv, AllSound
<1>5. Witness(d, folder)
  BY <1>2 DEF Witness
<1>6. AllSound'
  BY <1>4, <1>5, OneChanges DEF CallInv
<1>7. call = [t \in Servers |-> call[t]] /\ \A t \in Servers : call'[t] = IF t = s THEN d ELSE call[t]
  BY DEF CallInv, AllSound
<1>8. Calls \in Nat
  BY Counting DEF CallInv
<1>9. journal \in Seq({journal[i] : i \in DOMAIN journal})
  BY DEF CallInv, JournalInv
<1>10. Len(journal) \in Nat /\ DOMAIN journal = 1..Len(journal)
  BY <1>9
<1>11. CASE /\ journal' = Append(journal, r) /\ d.recorded \in Left
            /\ r.id = d.id /\ r.outcome = d.outcome
            /\ TrueRecord(r)
  <2>1. JournalInv' /\ Mine(call[s])' = {Len(journal) + 1}
    BY <1>2, <1>3, <1>7, <1>8, <1>11, JournalGrows DEF CallInv, Left
  <2>2. ASSUME NEW t \in Servers, t # s PROVE ExportHolds(call[t])'
    <3>1. call'[t] = call[t]
      BY <1>7, <2>2
    <3>2. CASE call[t].phase # "idle"
      <4>1. r.id # call[t].id
        BY <1>2, <1>11, <2>2, <3>2 DEF CallInv, JournalInv, Numbered
      <4>. QED
        BY <1>11, <3>1, <3>2, <4>1, ExportKept DEF CallInv
    <3>3. CASE call[t].phase = "idle"
      BY <3>1, <3>3 DEF ExportHolds
    <3>. QED
      BY <3>2, <3>3
  <2>3. ExportHolds(call[s])'
    <3> SUFFICES ASSUME d.outcome = "ok", d.tool = "export_decision_record"
                 PROVE  \E n \in 0..Len(journal') : /\ d.result = Exportable(1..n)'
                                                   /\ \A i \in Mine(call[s])' : i = n + 1
      BY <1>7 DEF ExportHolds
    <3>1. Len(journal') = Len(journal) + 1 /\ \A i \in 1..Len(journal) : journal'[i] = journal[i]
      BY <1>9, <1>11, Longer
    <3>2. PICK n \in Nat : n = Len(journal)
      BY <1>10
    <3>3. Exportable(1..n)' = Exportable(1..n)
      BY <3>1, <3>2 DEF Exportable
    <3>4. n \in 0..Len(journal') /\ DOMAIN journal = 1..n /\ Mine(call[s])' = {n + 1}
      BY <1>10, <2>1, <3>1, <3>2
    <3>. QED
      BY <3>3, <3>4
  <2>. QED
    BY <1>6, <2>1, <2>2, <2>3 DEF CallInv
<1>12. CASE journal' = journal /\ d.recorded # "written"
  <2>1. Follows(c, d)
    BY <1>2, <1>3, <1>12 DEF Follows, Left
  <2>2. JournalInv'
    <3>1. \A t \in Servers : Follows(call[t], call'[t])
      BY <1>7, <2>1 DEF Follows
    <3>. QED
      BY <1>8, <1>12, <3>1, JournalKept DEF CallInv
  <2>3. ExportHolds(call[s])'
    <3> SUFFICES ASSUME d.outcome = "ok", d.tool = "export_decision_record"
                 PROVE  \E n \in 0..Len(journal) : /\ d.result = Exportable(1..n)
                                                  /\ \A i \in Mine(call[s])' : i = n + 1
      BY <1>7, <1>12 DEF ExportHolds, Exportable
    <3>1. Mine(call[s])' = {}
      BY <1>2, <1>3, <1>7, <1>12 DEF Mine, CallInv, JournalInv, Ledger, Left
    <3>. QED
      BY <1>10, <3>1
  <2>. QED
    BY <1>2, <1>5, <1>4, <1>12, <2>1, <2>3, QuietStep
<1>. QED
  BY <1>11, <1>12

\* The record of what is told is true.
LEMMA TrueOnceTold ==
    ASSUME NEW s, NEW c, NEW docs, c.phase = "record", Told(s, c, docs)
    PROVE  LET r == RecordOf(s, c) IN r.id = c.id /\ r.outcome = c.outcome /\ TrueRecord(r)
<1> DEFINE f == IF c.outcome = "ok" THEN Provenance(s, c) ELSE None
           r == [id |-> c.id, tool |-> c.tool, outcome |-> c.outcome, facts |-> f]
<1>1. RecordOf(s, c) = r
  BY DEF RecordOf
<1>2. c.outcome = "ok" /\ c.tool = "verify_quote" =>
        (f.verdict # "not_found") = (f.quote.wording \in Reading(f.source, f.mode))
  <2> SUFFICES ASSUME c.outcome = "ok", c.tool = "verify_quote"
               PROVE  (f.verdict # "not_found") = (f.quote.wording \in Reading(f.source, f.mode))
    OBVIOUS
  <2>1. f = VerifyProvenance(c)
    BY DEF Provenance
  <2> HIDE DEF f
  <2>2. f.verdict = c.result.verdict /\ f.quote = c.args.quote /\ f.source = c.args.anchor /\ f.mode = c.args.mode
    BY <2>1 DEF VerifyProvenance
  <2>. QED
    BY <2>2 DEF Told, TrueOfFolder
<1>3. c.outcome = "ok" /\ c.tool = "preflight_edits" =>
        /\ f.applicable = (f.source # None /\ Fits(f.source, f.edits, f.author))
        /\ f.made = IF f.applicable THEN {Candidate(f.source, f.edits, f.author)} ELSE {}
  <2> SUFFICES ASSUME c.outcome = "ok", c.tool = "preflight_edits"
               PROVE  /\ f.applicable = (f.source # None /\ Fits(f.source, f.edits, f.author))
                      /\ f.made = IF f.applicable THEN {Candidate(f.source, f.edits, f.author)} ELSE {}
    OBVIOUS
  <2>1. f = PreflightProvenance(s, c)
    BY DEF Provenance
  <2> HIDE DEF f
  <2> DEFINE doc == c.result.source
             proof == Proof(doc, c.args.edits, Author(s), Build(s))
  <2>2. /\ f.source = doc /\ f.edits = c.args.edits /\ f.author = Author(s)
        /\ f.applicable = (c.result.proof # {}) /\ f.made = {q.candidate : q \in c.result.proof}
    BY <2>1 DEF PreflightProvenance
  <2>3. c.result.proof = IF doc # None /\ Fits(doc, c.args.edits, Author(s)) THEN {proof} ELSE {}
    BY DEF Told, Proving
  <2>4. proof.candidate = Candidate(doc, c.args.edits, Author(s))
    BY DEF Proof
  <2> HIDE DEF doc, proof
  <2>. QED
    BY <2>2, <2>3, <2>4
<1>4. c.outcome = "ok" /\ c.tool = "apply_edits" => f.made = Candidate(f.source, f.edits, f.author)
  <2> SUFFICES ASSUME c.outcome = "ok", c.tool = "apply_edits"
               PROVE  f.made = Candidate(f.source, f.edits, f.author)
    OBVIOUS
  <2>1. f = ApplyProvenance(s, c)
    BY DEF Provenance
  <2> HIDE DEF f
  <2>2. f.made = c.result.made /\ f.source = c.result.source /\ f.edits = c.args.edits /\ f.author = Author(s)
    BY <2>1 DEF ApplyProvenance
  <2>. QED
    BY <2>2 DEF Told, Derived
<1> HIDE DEF f
<1>. QED
  BY <1>1, <1>2, <1>3, <1>4 DEF TrueRecord

\* The record of a call is written, fails or is not wanted.
LEMMA WriteStep == ASSUME CallInv, NEW s \in Servers, WriteRecord(s) PROVE CallInv'
<1> DEFINE c == call[s]
           r == RecordOf(s, c)
           Answered(status) == [c EXCEPT !.phase = "answer", !.recorded = status]
<1>1. c.phase = "record" /\ c.phase \in Phases
  BY DEF WriteRecord, In, Phases
<1>2. Shaped(c) /\ Sound(s, c, read, proofs) /\ c # Idle
  BY <1>1, OpenCall
<1>3. UNCHANGED <<folder, read, proofs>> /\ count' \in Counts /\ Calls' = Calls
  BY Counting DEF WriteRecord, Recorded, CallInv
<1>4. \/ \E status \in Left : journal' = Append(journal, r) /\ call' = [call EXCEPT ![s] = Answered(status)]
      \/ \E status \in {"write_failed", "disabled"} :
           journal' = journal /\ call' = [call EXCEPT ![s] = Answered(status)]
  BY DEF WriteRecord, Recorded, AnswersWith, Left
<1>5. r.id = c.id /\ r.outcome = c.outcome /\ TrueRecord(r)
  BY <1>1, <1>2, TrueOnceTold DEF Sound
<1> HIDE DEF r
<1>6. ASSUME NEW status
      PROVE  LET d == Answered(status)
             IN /\ Sound(s, d, read, proofs) /\ d.id = c.id /\ d.held = c.held /\ d.phase = "answer"
                /\ d.recorded = status /\ d.outcome = c.outcome
                /\ ~(d.tool = "export_decision_record" /\ d.outcome = "ok")
  <2> DEFINE d == Answered(status)
  <2>1. d = [id |-> c.id, tool |-> c.tool, args |-> c.args, phase |-> "answer",
             outcome |-> c.outcome, result |-> c.result, recorded |-> status,
             held |-> c.held, put |-> c.put]
    <3> DEFINE a == [c EXCEPT !.phase = "answer"]
    <3>1. d = [a EXCEPT !.recorded = status]
      OBVIOUS
    <3>2. a = [id |-> c.id, tool |-> c.tool, args |-> c.args, phase |-> "answer",
               outcome |-> c.outcome, result |-> c.result, recorded |-> c.recorded,
               held |-> c.held, put |-> c.put]
      BY <1>2, Fields
    <3> HIDE DEF a, d
    <3>. QED
      BY <3>1, <3>2
  <2> HIDE DEF d
  <2>2. /\ d.id = c.id /\ d.tool = c.tool /\ d.args = c.args /\ d.phase = "answer" /\ d.outcome = c.outcome
        /\ d.recorded = status /\ d.held = c.held /\ d.put = c.put /\ d.result = c.result
    BY <2>1
  <2>3. Shaped(d)
    BY <1>2, <2>1 DEF Sound, Shaped, Phases
  <2>4. TrueOfFolder(c) => TrueOfFolder(d)
    BY <2>2 DEF TrueOfFolder
  <2>5. Derived(s, c) => Derived(s, d)
    BY <2>2 DEF Derived
  <2>6. Told(s, c, read) /\ (c.put = None \/ c.outcome \in Undecided)
    BY <1>1, <1>2 DEF Sound
  <2>11. Proving(s, c, read) => Proving(s, d, read)
    BY <2>2 DEF Proving
  <2>7. Told(s, d, read)
    BY <1>1, <2>2, <2>4, <2>5, <2>6, <2>11 DEF Told
  <2>8. Sound(s, d, read, proofs)
    BY <2>2, <2>3, <2>6, <2>7 DEF Sound, Reads, Lists, Applies
  <2>9. ~(c.tool = "export_decision_record" /\ c.outcome = "ok")
    BY <1>1, <2>6 DEF Told
  <2>10. /\ Sound(s, d, read, proofs) /\ d.id = c.id /\ d.held = c.held /\ d.phase = "answer"
         /\ d.recorded = status /\ d.outcome = c.outcome
         /\ ~(d.tool = "export_decision_record" /\ d.outcome = "ok")
    BY <2>2, <2>8, <2>9
  <2>. QED
    BY <2>10 DEF d
<1> HIDE DEF Answered
<1>7. c.phase \in {"record", "export"}
  BY <1>1
<1>8. ASSUME NEW status \in Left,
             journal' = Append(journal, r), call' = [call EXCEPT ![s] = Answered(status)]
      PROVE  CallInv'
  <2> DEFINE d == Answered(status)
  <2>1. /\ Sound(s, d, read, proofs) /\ d.id = c.id /\ d.held = c.held /\ d.phase = "answer"
        /\ d.recorded = status /\ d.outcome = c.outcome
        /\ ~(d.tool = "export_decision_record" /\ d.outcome = "ok")
    BY <1>6
  <2>2. call' = [call EXCEPT ![s] = d]
    BY <1>8
  <2> HIDE DEF d
  <2>. QED
    BY <1>3, <1>5, <1>7, <1>8, <2>1, <2>2, RecordStep
<1>9. ASSUME NEW status \in {"write_failed", "disabled"},
             journal' = journal, call' = [call EXCEPT ![s] = Answered(status)]
      PROVE  CallInv'
  BY <1>3, <1>6, <1>7, <1>9, RecordStep
<1>. QED
  BY <1>4, <1>8, <1>9

\* An export takes its records and adds its own event in one step.
LEMMA ExportStep == ASSUME CallInv, NEW s \in Servers, ExportRecords(s) PROVE CallInv'
<1> DEFINE c == call[s]
           e == Ended(c, "ok", None)
           r == RecordOf(s, e)
           exported == Exportable(DOMAIN journal)
           b == Ended(c, "ok", exported)
           Answered(status) == [b EXCEPT !.phase = "answer", !.recorded = status]
<1>1. c.phase = "export" /\ c.phase \in {"record", "export"}
  BY DEF ExportRecords, In
<1>2. Shaped(c) /\ c.put = None
  BY <1>1, AtWork
<1>3. c.tool = "export_decision_record"
  BY <1>1 DEF CallInv, AllSound, Sound, Idle
<1>4. UNCHANGED <<folder, read, proofs>> /\ count' \in Counts /\ Calls' = Calls
  BY Counting DEF ExportRecords, Recorded, CallInv
<1>5. \/ \E status \in Left : journal' = Append(journal, r) /\ call' = [call EXCEPT ![s] = Answered(status)]
      \/ \E status \in {"write_failed", "disabled"} :
           journal' = journal /\ call' = [call EXCEPT ![s] = Answered(status)]
  BY DEF ExportRecords, Recorded, AnswersWith, Left
<1>6. r.id = c.id /\ r.outcome = "ok" /\ TrueRecord(r)
  <2>1. e.id = c.id /\ e.outcome = "ok" /\ e.tool = c.tool
    BY <1>2, EndedFields
  <2> HIDE DEF e
  <2>. QED
    BY <1>3, <2>1 DEF RecordOf, TrueRecord
<1> HIDE DEF e, r, exported
<1>7. ASSUME NEW status
      PROVE  LET d == Answered(status)
             IN /\ Sound(s, d, read, proofs) /\ d.id = c.id /\ d.held = c.held /\ d.phase = "answer"
                /\ d.recorded = status /\ d.outcome = "ok" /\ d.result = exported
  <2> DEFINE a == [b EXCEPT !.phase = "answer"]
             d == [a EXCEPT !.recorded = status]
  <2>1. b = [id |-> c.id, tool |-> c.tool, args |-> c.args, phase |-> "record",
             outcome |-> "ok", result |-> exported, recorded |-> c.recorded,
             held |-> c.held, put |-> c.put]
    BY <1>2, Fields
  <2>2. d = Answered(status)
    OBVIOUS
  <2> HIDE DEF b, Answered
  <2>3. a = [id |-> c.id, tool |-> c.tool, args |-> c.args, phase |-> "answer",
             outcome |-> "ok", result |-> exported, recorded |-> c.recorded,
             held |-> c.held, put |-> c.put]
    BY <2>1
  <2> HIDE DEF a
  <2>4. d = [id |-> c.id, tool |-> c.tool, args |-> c.args, phase |-> "answer",
             outcome |-> "ok", result |-> exported, recorded |-> status,
             held |-> c.held, put |-> c.put]
    BY <2>3
  <2> HIDE DEF d
  <2>5. /\ d.id = c.id /\ d.tool = c.tool /\ d.args = c.args /\ d.phase = "answer" /\ d.outcome = "ok"
        /\ d.recorded = status /\ d.held = c.held /\ d.put = None /\ d.result = exported
    BY <1>2, <2>4
  <2>6. Shaped(d)
    BY <1>2, <2>4 DEF Shaped, Phases
  <2>7. Told(s, d, read)
    BY <1>3, <2>5 DEF Told, TrueOfFolder
  <2>8. Sound(s, d, read, proofs)
    BY <2>5, <2>6, <2>7 DEF Sound, Reads, Lists, Applies
  <2>. QED
    BY <2>2, <2>5, <2>8
<1> HIDE DEF Answered
<1>8. ASSUME NEW status \in Left,
             journal' = Append(journal, r), call' = [call EXCEPT ![s] = Answered(status)]
      PROVE  CallInv'
  <2> DEFINE d == Answered(status)
  <2>1. /\ Sound(s, d, read, proofs) /\ d.id = c.id /\ d.held = c.held /\ d.phase = "answer"
        /\ d.recorded = status /\ d.outcome = "ok" /\ d.result = exported
    BY <1>7
  <2>2. call' = [call EXCEPT ![s] = d]
    BY <1>8
  <2> HIDE DEF d
  <2>. QED
    BY <1>1, <1>4, <1>6, <1>8, <2>1, <2>2, RecordStep DEF exported
<1>9. ASSUME NEW status \in {"write_failed", "disabled"},
             journal' = journal, call' = [call EXCEPT ![s] = Answered(status)]
      PROVE  CallInv'
  BY <1>1, <1>4, <1>7, <1>9, RecordStep DEF exported
<1>. QED
  BY <1>5, <1>8, <1>9

\* A call that is over.
LEMMA OverStep ==
    ASSUME CallInv, NEW s \in Servers, call[s].phase # "idle", call' = [call EXCEPT ![s] = Idle],
           UNCHANGED <<folder, journal>>, read \subseteq read', proofs \subseteq proofs',
           \A q \in proofs' : q.source \in read', count' \in Counts, Calls' = Calls
    PROVE  CallInv'
<1>1. Sound(s, Idle, read', proofs') /\ Witness(Idle, folder) /\ Follows(call[s], Idle)
  BY DEF Sound, Witness, Follows, Idle
<1>2. call'[s] = Idle
  BY DEF CallInv, AllSound
<1>3. ExportHolds(call[s])'
  BY <1>2 DEF ExportHolds, Idle
<1>. QED
  BY <1>1, <1>3, QuietStep

\* An answer gives the client anchors and proofs.
LEMMA AnswerStep == ASSUME CallInv, NEW s \in Servers, Answer(s) PROVE CallInv'
<1> DEFINE c == call[s]
<1>1. c.phase = "answer" /\ c.phase \in Phases
  BY DEF Answer, In, Phases
<1>2. Sound(s, c, read, proofs) /\ c # Idle /\ \A q \in proofs : q.source \in read
  BY <1>1, OpenCall
<1>3. Told(s, c, read)
  BY <1>2 DEF Sound
<1>4. /\ UNCHANGED <<folder, journal>> /\ call' = [call EXCEPT ![s] = Idle]
      /\ count' \in Counts /\ Calls' = Calls
  BY Counting DEF Answer, CallInv
<1>5. read \subseteq read' /\ proofs \subseteq proofs'
  BY DEF Answer
<1>6. \A q \in proofs' : q.source \in read'
  <2>1. proofs' = proofs \/ (c.outcome = "ok" /\ c.tool = "preflight_edits" /\ proofs' = proofs \cup c.result.proof)
    BY DEF Answer
  <2>2. c.outcome = "ok" /\ c.tool = "preflight_edits" => \A q \in c.result.proof : q.source \in read
    BY <1>1, <1>3 DEF Told, Proving
  <2>. QED
    BY <1>2, <1>5, <2>1, <2>2
<1>7. c.phase # "idle"
  BY <1>1
<1>. QED
  BY <1>4, <1>5, <1>6, <1>7, OverStep

\* What fails ends the operation or the call.
LEMMA FailuresStep == ASSUME CallInv, NEW s \in Servers, Failures(s) PROVE CallInv'
<1> DEFINE c == call[s]
<1>1. ASSUME NEW code, c.phase \in {"read", "list", "look", "prepare", "publish", "export", "record"},
             Ends(s, code, None), UNCHANGED <<folder, journal, read, proofs>>, Fault,
             code # "ok", code \in Undecided \/ c.phase = "publish"
      PROVE  CallInv'
  <2>1. c.phase \in Phases /\ c.phase # "answer"
    BY <1>1 DEF Phases
  <2>2. Shaped(c) /\ Sound(s, c, read, proofs) /\ c # Idle
    BY <2>1, OpenCall
  <2>3. c.recorded = "no" /\ (c.put = None \/ code \in Undecided)
    BY <1>1, <2>1, <2>2 DEF Sound
  <2>4. Sound(s, Ended(c, code, None), read, proofs)
    BY <1>1, <2>2, <2>3, SoundEnding
  <2>5. count' \in Counts /\ Calls' = Calls
    BY <1>1, Counting DEF CallInv
  <2>. QED
    BY <1>1, <2>1, <2>3, <2>4, <2>5, EndingStep
<1>2. CASE FailContract(s)
  BY <1>1, <1>2 DEF FailContract, In, Undecided
<1>3. CASE FailUnexpectedly(s)
  BY <1>1, <1>3 DEF FailUnexpectedly, Undecided
<1>4. CASE PublicationFails(s)
  BY <1>1, <1>4 DEF PublicationFails, In
<1>5. CASE RefuseExport(s)
  <2>1. PICK code \in {"output_contract_error", "records_refused"} :
          call' = [call EXCEPT ![s].phase = "answer", ![s].outcome = code]
    BY <1>5 DEF RefuseExport
  <2>2. c.phase = "export" /\ Fault /\ UNCHANGED <<folder, journal, read, proofs>>
    BY <1>5 DEF RefuseExport, In
  <2> DEFINE b == [c EXCEPT !.phase = "answer"]
             d == [b EXCEPT !.outcome = code]
  <2>3. call' = [call EXCEPT ![s] = d]
    BY <2>1
  <2>4. Shaped(c) /\ c.put = None /\ c.recorded = "no"
    BY <2>2, AtWork
  <2>5. b = [id |-> c.id, tool |-> c.tool, args |-> c.args, phase |-> "answer",
             outcome |-> c.outcome, result |-> c.result, recorded |-> c.recorded,
             held |-> c.held, put |-> c.put]
    BY <2>4, Fields
  <2> HIDE DEF b
  <2>6. d = [id |-> c.id, tool |-> c.tool, args |-> c.args, phase |-> "answer",
             outcome |-> code, result |-> c.result, recorded |-> c.recorded,
             held |-> c.held, put |-> c.put]
    BY <2>5
  <2> HIDE DEF d
  <2>7. /\ d.id = c.id /\ d.phase = "answer" /\ d.outcome = code /\ d.outcome # "ok"
        /\ d.recorded = "no" /\ d.held = c.held /\ d.put = None
    BY <2>4, <2>6
  <2>8. Shaped(d)
    BY <2>4, <2>6 DEF Shaped, Phases
  <2>9. Sound(s, d, read, proofs)
    BY <2>7, <2>8 DEF Sound, Reads, Lists, Applies, Told
  <2>10. count' \in Counts /\ Calls' = Calls
    BY <2>2, Counting DEF CallInv
  <2>. QED
    BY <2>2, <2>3, <2>7, <2>9, <2>10, GoingStep
<1>6. CASE KillServer(s)
  <2>1. c.phase # "idle"
    BY <1>6 DEF KillServer, CallInv, AllSound, Sound, Shaped, Phases
  <2>2. count' \in Counts /\ Calls' = Calls
    BY <1>6, Counting DEF KillServer, CallInv
  <2>3. \A q \in proofs' : q.source \in read'
    BY <1>6 DEF KillServer, CallInv, AllSound
  <2>. QED
    BY <1>6, <2>1, <2>2, <2>3, OverStep DEF KillServer
<1>. QED
  BY <1>2, <1>3, <1>4, <1>5, <1>6 DEF Failures

--------------------------------------------------------------------------------
(* The theorems.                                                           *)

\* CallInv holds at the start.
LEMMA CallInit == Init => CallInv
<1> SUFFICES ASSUME Init PROVE CallInv
  OBVIOUS
<1>1. /\ folder = [p \in Paths |-> First(p)] /\ journal = <<>> /\ proofs = {}
      /\ call = [s \in Servers |-> Idle]
      /\ count = [preflights |-> 0, applies |-> 0, questions |-> 0, saves |-> 0, faults |-> 0]
  BY DEF Init
<1>2. count \in Counts
  BY <1>1 DEF Counts
<1>3. AllSound
  BY <1>1 DEF AllSound, Sound, Witness
<1>4. \A s \in Servers : call[s].phase = "idle"
  BY <1>1 DEF Idle
<1>5. DOMAIN journal = {} /\ journal \in Seq({journal[i] : i \in DOMAIN journal})
  BY <1>1
<1>6. JournalInv
  BY <1>4, <1>5 DEF JournalInv, Numbered, Ledger
<1>7. \A s \in Servers : ExportHolds(call[s])
  BY <1>4 DEF ExportHolds
<1>. QED
  BY <1>2, <1>3, <1>6, <1>7 DEF CallInv

\* A step of an open call.
LEMMA StepsStep == ASSUME CallInv, NEW s \in Servers, Steps(s) PROVE CallInv'
BY ReadStep, ListStep, LookStep, PrepareStep, PublishStep, WriteStep, ExportStep, AnswerStep DEF Steps

\* Every step keeps CallInv.
LEMMA CallNext == CallInv /\ [Next]_vars => CallInv'
<1> SUFFICES ASSUME CallInv, [Next]_vars PROVE CallInv'
  OBVIOUS
<1>1. CASE UNCHANGED vars
  <2>1. Calls \in Nat /\ Calls' = Calls
    BY <1>1, Counting DEF vars, CallInv, Calls
  <2>2. \A s \in Servers : Follows(call[s], call'[s])
    BY <1>1 DEF vars, Follows
  <2>3. JournalInv'
    BY <1>1, <2>1, <2>2, JournalKept DEF vars, CallInv
  <2>. QED
    BY <1>1, <2>3 DEF vars, CallInv, AllSound, ExportHolds, Exportable, Mine
<1>2. ASSUME NEW s \in Servers, Requests(s) \/ Steps(s) \/ Failures(s) PROVE CallInv'
  BY <1>2, RequestsStep, StepsStep, FailuresStep
<1>3. ASSUME NEW path \in Paths, WordSaves(path) \/ UserRemoves(path) PROVE CallInv'
  BY <1>3, ChangeStep DEF WordSaves, UserRemoves
<1>. QED
  BY <1>1, <1>2, <1>3 DEF Next

\* The invariant of the calls holds in every state of every behaviour.
THEOREM CallsStaySound == Spec => []CallInv
BY CallInit, CallNext, PTL DEF Spec

\* No answer says what was not so, whatever the folder became while the call
\* read, planned, published and recorded, and whichever of it failed.
THEOREM AnswersAreTrue == Spec => []AnswersTellTheTruth
<1>1. CallInv => AnswersTellTheTruth
  <2> SUFFICES ASSUME CallInv, NEW s \in Servers, call[s].phase = "answer"
               PROVE  /\ call[s].outcome = "ok" => TrueResult(call[s])
                      /\ call[s].outcome \notin {"ok", "output_contract_error", "internal_error"} =>
                           call[s].put = None
    BY DEF AnswersTellTheTruth
  <2>1. Sound(s, call[s], read, proofs) /\ call[s] # Idle
    BY OpenCall DEF Phases
  <2>2. ASSUME call[s].outcome = "ok" PROVE TrueResult(call[s])
    <3>1. TrueOfFolder(call[s])
      BY <2>1, <2>2 DEF Sound, Told
    <3>2. call[s].tool = "export_decision_record" =>
            \E n \in 0..Len(journal) :
              /\ call[s].result = Exportable(1..n)
              /\ \A i \in DOMAIN journal : journal[i].id = call[s].id => i = n + 1
      BY <2>2 DEF CallInv, ExportHolds, Mine
    <3>. QED
      BY <3>1, <3>2 DEF TrueResult, TrueOfFolder
  <2>3. call[s].outcome \notin {"ok", "output_contract_error", "internal_error"} => call[s].put = None
    BY <2>1 DEF Sound, Undecided
  <2>. QED
    BY <2>2, <2>3
<1>. QED
  BY <1>1, CallsStaySound, PTL

\* One call, at most one record, with the outcome that was answered.
THEOREM RecordsAreTrue == Spec => []RecordsTellTheTruth
<1>1. CallInv => RecordsTellTheTruth
  BY DEF CallInv, JournalInv, Numbered, Ledger, Mine, RecordsTellTheTruth, Left
<1>. QED
  BY <1>1, CallsStaySound, PTL

\* Only what a preflight proved to a client comes into the folder, and only
\* where nothing is.
THEOREM OutputsArePreviewed == Spec => OutputsAreWhatWasPreviewed
<1> DEFINE Previewed ==
      count'.saves = count.saves =>
       \A p \in {q \in Paths : folder'[q] # folder[q]} :
         /\ folder[p] = None
         /\ \E proof \in proofs, s \in Servers :
              /\ folder'[p] = Candidate(proof.source, proof.edits, Author(s))
              /\ proof = Proof(proof.source, proof.edits, Author(s), Build(s))
              /\ proof.source \in read
<1>1. CallInv /\ [Next]_vars => Previewed
  <2> SUFFICES ASSUME CallInv, [Next]_vars, count'.saves = count.saves,
                      NEW p \in Paths, folder'[p] # folder[p]
               PROVE  /\ folder[p] = None
                      /\ \E proof \in proofs, s \in Servers :
                           /\ folder'[p] = Candidate(proof.source, proof.edits, Author(s))
                           /\ proof = Proof(proof.source, proof.edits, Author(s), Build(s))
                           /\ proof.source \in read
    OBVIOUS
  <2>1. ~\E path \in Paths : WordSaves(path) \/ UserRemoves(path)
    <3> SUFFICES ASSUME count' = [count EXCEPT !.saves = @ + 1] PROVE FALSE
      BY DEF WordSaves, UserRemoves, ChangeFolder
    <3>1. count.saves \in Nat /\ count'.saves = count.saves + 1
      BY DEF CallInv, Counts
    <3>. QED
      BY <3>1
  <2>2. PICK s \in Servers : PublishOutput(s)
    <3>1. ASSUME NEW s \in Servers, Requests(s) PROVE UNCHANGED folder
      BY <3>1 DEF Requests, Begin, ExtractRedlines, InspectDocument, VerifyQuote, PreflightEdits, ApplyEdits,
           ListRounds, ExportDecisionRecord, RefuseCall
    <3>2. ASSUME NEW s \in Servers, Steps(s) PROVE UNCHANGED folder \/ PublishOutput(s)
      BY <3>2 DEF Steps, ReadDocument, ListDocument, LookForOutput, PrepareCandidate, WriteRecord, ExportRecords, Answer
    <3>3. ASSUME NEW s \in Servers, Failures(s) PROVE UNCHANGED folder
      BY <3>3 DEF Failures, FailContract, RefuseExport, FailUnexpectedly, PublicationFails, KillServer
    <3>4. ~UNCHANGED folder
      OBVIOUS
    <3>. QED
      BY <2>1, <3>1, <3>2, <3>3, <3>4 DEF Next, vars
  <2> DEFINE c == call[s]
             q == c.args.proof
  <2>3. c.phase = "publish"
    BY <2>2 DEF PublishOutput, In
  <2>4. /\ c.args.output \in Paths /\ q \in proofs /\ Derived(s, c)
        /\ q = Proof(c.result.source, c.args.edits, Author(s), Build(s))
    BY <2>3, AtWork DEF Applies
  <2>5. q.source = c.result.source /\ q.edits = c.args.edits
    BY <2>4 DEF Proof
  <2>6. q.source \in read
    BY <2>4 DEF CallInv, AllSound
  <2>7. folder[c.args.output] = None /\ folder' = [folder EXCEPT ![c.args.output] = c.result.made]
    BY <2>2 DEF PublishOutput
  <2>8. p = c.args.output /\ folder'[p] = c.result.made
    BY <2>7 DEF CallInv, AllSound
  <2>9. c.result.made = Candidate(q.source, q.edits, Author(s))
    BY <2>4, <2>5 DEF Derived
  <2> HIDE DEF c, q
  <2>. QED
    BY <2>4, <2>5, <2>6, <2>7, <2>8, <2>9
<1>. QED
  BY <1>1, CallsStaySound, PTL DEF Spec, OutputsAreWhatWasPreviewed

=============================================================================
