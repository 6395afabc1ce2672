-------------------------- MODULE ParagraphHistory --------------------------
(***************************************************************************)
(* What trace_paragraph_history makes of a trace: _history_io.py from the   *)
(* captured bytes to the page that is answered, with the refusals on the    *)
(* way, and the record of it that records.py lets into the journal, as      *)
(* operators without state.  Texts are counted, not spelled: an observation *)
(* weighs what it quotes.                                                   *)
(***************************************************************************)
EXTENDS RoundEvidence

CONSTANTS
    MaxParagraphs,     \* indexed_paragraphs_per_folder of HISTORY_LIMITS
    MaxUnits,          \* selected_change_units_per_result
    ObservationWeight, \* returned_verbatim_chars_per_observation
    PageWeight,        \* returned_verbatim_chars_per_page
    SampleSize         \* COMPACT_SAMPLE_LIMIT of records.py

ASSUME HistoryAssumption ==
    /\ {MaxParagraphs, MaxUnits, ObservationWeight, PageWeight, SampleSize} \subseteq Nat
    /\ ObservationWeight <= PageWeight
    /\ \A d \in Documents : /\ {Content[d].readable, Content[d].extractable} \subseteq BOOLEAN
                            /\ Content[d].units \in Seq(Nat)
                            /\ \A i \in DOMAIN Content[d].paras :
                                 Content[d].paras[i].text # Unavailable

Sum(numbers) == FoldLeft(LAMBDA total, n : total + n, 0, numbers)

\* The first fault of a sequence of steps; faults[i] is "none" where there is none.
FirstFault(faults) ==
    LET at == {i \in DOMAIN faults : faults[i] # "none"}
    IN  IF at = {} THEN "none" ELSE faults[CHOOSE i \in at : \A j \in at : i <= j]

(* _parse_candidates: one document after the other, with what they have in  *)
(* common counted up.                                                        *)
Indexed(files, k) == Sum([i \in 1 .. k |-> Len(Content[files[i].document].paras)])
ParseFault(files) ==
    FirstFault([k \in DOMAIN files |->
                  IF ~Content[files[k].document].readable THEN "invalid_docx"
                  ELSE IF Indexed(files, k) > MaxParagraphs THEN "resource_limit_exceeded"
                  ELSE "none"])

-----------------------------------------------------------------------------
(* The observations.                                                         *)

(* _relationship: why q, one document below, continues p.                    *)
Relationship(type, q, p) == [type |-> type, lower |-> q, higher |-> p]
CurrentRelationships(d, p) ==
    {Relationship("exact_content_equality", q, p) : q \in ByCurrent(d, p)}
RejectedRelationships(d, p) ==
    {Relationship("rejected_projection_equality", q, p) : q \in ByRejected(d, p)}
Support(d, higher) ==
    UNION {CurrentRelationships(d, p) \cup RejectedRelationships(d, p) : p \in higher.selected}

(* The change units of the paragraph among those that extraction finds.      *)
ChangeUnits(p) == SelectSeq(Content[p[1]].units, LAMBDA paragraph : paragraph = p[2])

SelectedParagraph(p, support) ==
    [paragraph |-> p, text |-> Text(p), rejected |-> Rejected(p),
     support |-> {r \in support : r.lower = p}, units |-> ChangeUnits(p)]

Observation(files, trace, k) ==
    LET file == files[Len(files) + 1 - k]
        support == IF k = 1 THEN {} ELSE Support(file.document, trace[k - 1])
    IN  [name |-> file.name, document |-> file.document, position |-> Len(files) - k,
         role |-> IF k = 1 THEN "seed" ELSE "trace_step",
         step |-> trace[k], support |-> support,
         selected |-> {SelectedParagraph(p, support) : p \in trace[k].selected}]

HistoryItems(files, seed) ==
    LET trace == Trace(files, seed)
    IN  [k \in 1 .. Len(files) |-> Observation(files, trace, k)]

(* An observation quotes its names and, of a selected paragraph, both texts  *)
(* and the change units.                                                     *)
Weight(item) ==
    1 + Cardinality(item.selected)
      + Cardinality({s \in item.selected : s.rejected # Unavailable})
      + Sum([i \in 1 .. Cardinality(item.selected) |->
               Len((CHOOSE s \in item.selected : TRUE).units)])

SelectedUnits(items, k) ==
    Sum([i \in 1 .. k |-> IF items[i].selected = {} THEN 0
                          ELSE Len((CHOOSE s \in items[i].selected : TRUE).units)])

(* _candidate_result: one candidate, one reason.                             *)
OneReasonEach(item) ==
    \A r, s \in item.support : r.lower = s.lower => r = s

(* _materialize_observations: each document with a selected paragraph is     *)
(* extracted anew.                                                           *)
MaterializeFault(items) ==
    FirstFault([k \in DOMAIN items |->
                  IF ~OneReasonEach(items[k]) THEN "output_contract_error"
                  ELSE IF items[k].selected # {} /\ ~Content[items[k].document].extractable
                  THEN "file_unextractable"
                  ELSE IF SelectedUnits(items, k) > MaxUnits \/ Weight(items[k]) > ObservationWeight
                  THEN "resource_limit_exceeded"
                  ELSE "none"])

(* _page: as many observations as the caller asked for, fewer when the next  *)
(* one would take the page over its limit of quoted characters.              *)
HistoryPage(items, offset, size) ==
    LET used(k) == Sum([i \in 1 .. k |-> Weight(items[offset + i])])
        fits == {k \in 1 .. size : /\ offset + k <= Len(items)
                                   /\ (k = 1 \/ used(k) <= PageWeight)}
    IN  SubSeq(items, offset + 1, offset + CHOOSE k \in fits : \A j \in fits : j <= k)

-----------------------------------------------------------------------------
(* The answer.                                                               *)

Blocked == {"blocked_by_higher_ambiguity", "blocked_by_higher_unresolved"}

(* _coverage: what is counted is the complete result, whatever page it is.   *)
Coverage(items, offset, page) ==
    LET resolved(state) == Cardinality({k \in DOMAIN items : items[k].step.state = state})
        related(type) ==
          Sum([k \in DOMAIN items |->
                 Cardinality({r \in items[k].support : r.type = type})])
    IN  [ documents |-> Len(items),
          returned |-> Len(page),
          offset |-> offset,
          truncated |-> offset + Len(page) < Len(items),
          selected |-> Cardinality({k \in DOMAIN items : items[k].selected # {}}),
          resolutions |-> [state \in {"exact_unique", "ambiguous", "unresolved"} |-> resolved(state)],
          blocked |-> Cardinality({k \in DOMAIN items : items[k].step.reason \in Blocked}),
          relationships |-> [type \in {"exact_content_equality", "rejected_projection_equality"} |->
                               related(type)],
          unavailable |-> Cardinality({k \in DOMAIN items :
                                         \E s \in items[k].selected : s.rejected = Unavailable}),
          unchanged |-> Cardinality({k \in DOMAIN items :
                                       \E s \in items[k].selected : s.rejected = s.text}),
          navigation |-> Sum([k \in DOMAIN items |-> Cardinality(items[k].step.navigation)]) ]

(* _validate_result, before anything is answered.                            *)
ResultIsConsistent(items, result) ==
    LET coverage == result.coverage
        end == coverage.offset + Len(result.items)
    IN  /\ coverage.returned = Len(result.items)
        /\ coverage.documents = Len(items)
        /\ end <= Len(items)
        /\ result.items = SubSeq(items, coverage.offset + 1, end)
        /\ coverage.truncated <=> result.more
        /\ \A k \in DOMAIN items : items[k].position = Len(items) - k
        /\ Cardinality({k \in DOMAIN items : items[k].role = "seed"}) = 1

-----------------------------------------------------------------------------
(* The record.                                                               *)

(* build_paragraph_history_record_projection: the counts in full, of the     *)
(* page the first observations in brief.                                     *)
Brief(item) ==
    [observation |-> <<item.name, item.document>>, position |-> item.position,
     role |-> item.role, state |-> item.step.state, reason |-> item.step.reason]

HistoryRecord(result, seed) ==
    LET count == Len(result.items)
        shown == IF count <= SampleSize THEN count ELSE SampleSize
    IN  [ tool |-> "history", seed |-> seed, coverage |-> result.coverage, more |-> result.more,
          count |-> count, sample |-> [i \in 1 .. shown |-> Brief(result.items[i])],
          truncated |-> count > shown ]

(* _paragraph_history_record_schemas: which reasons a state may have.        *)
ReasonsOf(state) ==
    CASE state = "seed" -> {"seed"}
      [] state = "exact_unique" -> {"exact_current_unique", "rejected_projection_unique"}
      [] state = "ambiguous" -> {"multiple_exact_candidates"}
      [] state = "unresolved" ->
           {"rejected_projection_unavailable", "navigation_only", "no_match_in_declared_scope"}
             \cup Blocked
      [] OTHER -> {}

BriefIsValid(brief) ==
    /\ brief.reason \in ReasonsOf(brief.state)
    /\ brief.role = "seed" <=> brief.state = "seed"

(* _paragraph_history_record_shape_is_valid: demanded before the record is   *)
(* written and of every such record whenever the journal is read.            *)
RecordIsValid(record) ==
    LET coverage == record.coverage
        end == coverage.offset + record.count
    IN  /\ record.count >= 1
        /\ Len(record.sample) = IF record.count <= SampleSize THEN record.count ELSE SampleSize
        /\ record.truncated <=> record.count > Len(record.sample)
        /\ \A i \in DOMAIN record.sample :
             LET brief == record.sample[i]
                 index == coverage.offset + i - 1
             IN  /\ BriefIsValid(brief)
                 /\ brief.position = coverage.documents - index - 1
                 /\ brief.role = IF index = 0 THEN "seed" ELSE "trace_step"
                 /\ index = 0 => brief.observation = record.seed
        /\ coverage.returned = record.count
        /\ coverage.offset < coverage.documents /\ end <= coverage.documents
        /\ coverage.truncated <=> end < coverage.documents
        /\ record.more <=> end < coverage.documents
=============================================================================
