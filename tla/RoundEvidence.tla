--------------------------- MODULE RoundEvidence ---------------------------
(***************************************************************************)
(* What map_rounds and trace_paragraph_history compute from the bytes they  *)
(* captured: round_map.py, _history_resolution.py and the item part of      *)
(* _history_io.py, as operators without state.                              *)
(*                                                                         *)
(* A document is named by its bytes (document_id is the SHA-256 of the      *)
(* file), so two files with equal bytes are one document.  A paragraph and  *)
(* a section are a pair of their document and their place in it, a digest   *)
(* is the value it was taken of, and the order of items by derived id is    *)
(* one fixed order of each set (SetToSeq).                                  *)
(***************************************************************************)
EXTENDS Naturals, Sequences, FiniteSets, SequencesExt

CONSTANTS
    Content,      \* [document -> [paras, sections, complete, readable]]
    Blank,        \* the texts without a character that is not a whitespace
    Unavailable,  \* a rejected projection the code refuses to build
    None,         \* an absent label, title or digest
    MaxNodes      \* document_nodes of ROUND_MAP_LIMITS

Documents == DOMAIN Content

ASSUME ContentAssumption ==
    /\ IsFiniteSet(Documents)
    /\ \A d \in Documents : /\ Content[d].paras \in Seq(ToSet(Content[d].paras))
                            /\ Content[d].sections \in Seq(ToSet(Content[d].sections))

Text(p) == Content[p[1]].paras[p[2]].text
Rejected(p) == Content[p[1]].paras[p[2]].rejected
ParagraphsOf(d) == {<<d, i>> : i \in DOMAIN Content[d].paras}
SectionsOf(d) == {<<d, s>> : s \in DOMAIN Content[d].sections}
Heading(s) == Content[s[1]].sections[s[2]]

(* _sections: the innermost open section is the last heading met so far.     *)
SectionOf(p) ==
    LET open == {s \in SectionsOf(p[1]) : Heading(s).at <= p[2]}
    IN  {s \in open : \A t \in open : t[2] <= s[2]}

(* The navigation signals two headings share: an equal label, an equal title. *)
Signals(s, t) ==
    {part \in {"label", "title"} :
       Heading(s)[part] # None /\ Heading(s)[part] = Heading(t)[part]}

-----------------------------------------------------------------------------
(* The journal's apply records.                                              *)

(* A record tells how its result was checked and whether the facts written   *)
(* when it was planned are there, and the same as the result's.              *)
ApplyRecord(r) ==
    r.tool = "apply_edits" =>
        /\ r.check \in {"legacy", "current", "failed"}
        /\ r.strength \in {"none", "partial", "matching", "differing"}

(* _classify_apply_record: the tests in their order; the first that fails    *)
(* names the conflict.                                                       *)
Tests(r) ==
    << <<r.status = "ok", "result_status_invalid">>,
       <<r.source # None, "missing_source_sha256">>,
       <<r.output # None /\ r.resultOutput # None, "missing_output_sha256">>,
       <<r.output = r.resultOutput, "result_output_sha256_mismatch">>,
       <<r.check # "failed", "round_trip_failed">>,
       <<(r.check = "legacy") <=> (r.resultSource = None),
         "unsupported_legacy_profile">>,
       <<r.check = "legacy" \/ r.resultSource = r.source,
         "result_source_sha256_mismatch">>,
       <<r.strength = "none" \/ (r.check = "current" /\ r.strength # "partial"),
         "unsupported_legacy_profile">>,
       <<r.strength # "differing", "strengthened_fact_mismatch">> >>

Reason(r) ==
    LET failed == {i \in 1 .. 9 : ~Tests(r)[i][1]}
    IN  IF failed = {} THEN "none" ELSE Tests(r)[Min(failed)][2]

Excluded(r) == r.tool # "apply_edits" \/ r.status = "error"
Valid(r) == ~Excluded(r) /\ Reason(r) = "none"
Conflict(r) == ~Excluded(r) /\ Reason(r) # "none"

Profile(r) ==
    IF r.check = "legacy" THEN "frozen_legacy_v1"
    ELSE IF r.strength = "none" THEN "published_v0.1.2_preflightless"
    ELSE "current_v0.3"

(* _record_endpoints                                                         *)
Endpoints(r) ==
    {r.source, r.resultSource, r.output, r.resultOutput} \ {None}

-----------------------------------------------------------------------------
(* _journal_facts: the documents connected to the current ones through valid *)
(* records, in either direction.  The queue visits every document it adds,   *)
(* so a round of the function adds the neighbours of all that are included.  *)
Neighbours(journal, d) ==
    {journal[k].output : k \in {k \in DOMAIN journal :
                           Valid(journal[k]) /\ journal[k].source = d}} \cup
    {journal[k].source : k \in {k \in DOMAIN journal :
                           Valid(journal[k]) /\ journal[k].output = d}}

WithNeighbours(journal, docs) == docs \cup UNION {Neighbours(journal, d) : d \in docs}

Rounds(current, journal) ==
    LET round[n \in Nat] ==
          IF n = 0 THEN current ELSE WithNeighbours(journal, round[n - 1])
    IN  round

Included(current, journal) == Rounds(current, journal)[Cardinality(Documents)]

TooManyNodes(current, journal) ==
    LET nodes == Included(current, journal)
    IN  nodes # current /\ Cardinality(nodes) > MaxNodes

Supporting(nodes, journal) ==
    {k \in DOMAIN journal :
       Valid(journal[k]) /\ {journal[k].source, journal[k].output} \cap nodes # {}}
Conflicting(nodes, journal) ==
    {k \in DOMAIN journal :
       Conflict(journal[k]) /\ Endpoints(journal[k]) \cap nodes # {}}

(* _cycle_members: a depth-first pass that notes when each document is       *)
(* finished, then a pass over the reversed edges from the last finished back.*)
Steps(op(_), start, n) == FoldLeft(LAMBDA st, i : op(st), start, [i \in 1 .. n |-> i])

(* A document is finished when it is met, not when all below it are.         *)
MutantPreorder(edges, st) ==
    IF st.stack = <<>> THEN st
    ELSE LET d == Last(st.stack)[1]
             next == {x[2] : x \in {x \in edges : x[1] = d}} \ (st.visited \cup {d})
         IN  IF d \in st.visited THEN [st EXCEPT !.stack = Front(st.stack)]
             ELSE [st EXCEPT !.visited = @ \cup {d},
                             !.finish = <<d>> \o @,
                             !.stack = Front(@) \o SetToSeq({<<x, FALSE>> : x \in next})]

Expand(edges, st) ==
    IF st.stack = <<>> THEN st
    ELSE LET top == Last(st.stack)
             rest == Front(st.stack)
             next == {e[2] : e \in {e \in edges : e[1] = top[1]}} \ st.visited
         IN  IF top[2] THEN [st EXCEPT !.stack = rest, !.finish = Append(@, top[1])]
             ELSE IF top[1] \in st.visited THEN [st EXCEPT !.stack = rest]
             ELSE [st EXCEPT !.visited = @ \cup {top[1]},
                             !.stack = Append(rest, <<top[1], TRUE>>) \o
                                       SetToSeq({<<d, FALSE>> : d \in next \ {top[1]}})]

Finish(nodes, edges) ==
    LET bound == 2 * (Cardinality(nodes) + Cardinality(edges)) + 1
        visit(st, d) ==
          IF d \in st.visited THEN st
          ELSE Steps(LAMBDA s : Expand(edges, s),
                     [st EXCEPT !.stack = <<<<d, FALSE>>>>], bound)
    IN  FoldLeft(visit, [stack |-> <<>>, visited |-> {}, finish |-> <<>>],
                 SetToSeq(nodes)).finish

CycleMembers(nodes, allEdges) ==
    LET edges == {e \in allEdges : e[1] # e[2]}
        grow(assigned, part) ==
          part \cup {e[1] : e \in {e \in edges : e[2] \in part /\ e[1] \notin assigned}}
        collect(st, d) ==
          IF d \in st.assigned THEN st
          ELSE LET part == Steps(LAMBDA c : grow(st.assigned, c), {d}, Cardinality(nodes))
               IN  [assigned |-> st.assigned \cup part,
                    members |-> st.members \cup
                                IF Cardinality(part) > 1 THEN part ELSE {}]
    IN  FoldLeft(collect, [assigned |-> {}, members |-> {}],
                 Reverse(Finish(nodes, edges))).members

-----------------------------------------------------------------------------
(* _derive_source_evidence: the one authority a map is projected from.       *)
(* `files' is the sequence of [name, document] in their declared order.      *)
MapEvidence(kind, files, seed, journal) ==
    LET current == {files[i].document : i \in DOMAIN files}
        nodes == Included(current, journal)
        support == Supporting(nodes, journal)
        edge(k) == <<journal[k].source, journal[k].output>>
        section == SectionOf(seed)
        headings == UNION {SectionsOf(d) : d \in current}
    IN  [ kind |-> kind,
          files |-> files,
          seed |-> seed,
          nodes |-> nodes,
          derivations |-> {[edge |-> e, records |-> {k \in support : edge(k) = e},
                            profiles |-> {Profile(journal[k]) :
                                            k \in {k \in support : edge(k) = e}}]
                             : e \in {edge(k) : k \in support}},
          exact |-> {p \in UNION {ParagraphsOf(d) : d \in current} :
                       Text(p) = Text(seed)} \ {seed},
          section |-> section,
          headings |-> {t \in headings \ section :
                          \E s \in section : Signals(s, t) # {}},
          conflicts |-> {[record |-> k, reason |-> Reason(journal[k]),
                          affected |-> Endpoints(journal[k]) \cap nodes]
                           : k \in Conflicting(nodes, journal)} ]

(* _project_resolution                                                       *)
Resolution(ev, d) ==
    LET observed == \E i \in DOMAIN ev.files : ev.files[i].document = d
        exact == {p \in ev.exact : p[1] = d}
        headings == {s \in ev.headings : s[1] = d}
        answer(state, reason) ==
          [document |-> d, state |-> state, reason |-> reason,
           exact |-> exact, headings |-> headings]
    IN  IF \E c \in ev.conflicts : d \in c.affected
        THEN answer("ambiguous", "recorded_fact_conflict")
        ELSE IF Cardinality(exact) > 1 THEN answer("ambiguous", "multiple_exact_candidates")
        ELSE IF exact # {} THEN answer("exact_unique", "one_exact_candidate")
        ELSE IF ~observed THEN answer("unresolved", "record_only_document")
        ELSE IF ~Content[d].complete THEN answer("unresolved", "declared_scope_incomplete")
        ELSE IF headings # {} THEN answer("unresolved", "navigation_only")
        ELSE answer("unresolved", "no_match_in_declared_scope")

(* The document node of _iter_projected_items with its topology flags.       *)
Node(ev, cycles, d) ==
    LET edges == {r.edge : r \in ev.derivations}
        parents == {e \in edges : e[2] = d}
        children == {e \in edges : e[1] = d}
    IN  [ document |-> d,
          state |-> IF \A i \in DOMAIN ev.files : ev.files[i].document # d
                    THEN "record_only"
                    ELSE IF parents \cup children = {} THEN "current"
                    ELSE "current_and_recorded",
          incoming |-> Cardinality(parents),
          outgoing |-> Cardinality(children),
          cycleMember |-> d \in cycles,
          selfLoop |-> <<d, d>> \in edges ]

Relationships(ev) ==
    {[type |-> "recorded_derivation", from |-> <<r.edge[1], 0>>, to |-> <<r.edge[2], 0>>,
      basis |-> r.profiles] : r \in ev.derivations} \cup
    {[type |-> "exact_content_equality", from |-> ev.seed, to |-> p, basis |-> {}]
       : p \in ev.exact} \cup
    {[type |-> "navigation_candidate", from |-> s, to |-> t, basis |-> Signals(s, t)]
       : s \in ev.section, t \in ev.headings}

(* _iter_projected_items: the complete map in the order of its item types.   *)
Typed(type, items) == [i \in DOMAIN items |-> <<type, items[i]>>]
MapItems(ev) ==
    LET cycles == CycleMembers(ev.nodes, {r.edge : r \in ev.derivations})
    IN  Typed("document_node", SetToSeq({Node(ev, cycles, d) : d \in ev.nodes})) \o
        Typed("document_observation", ev.files) \o
        Typed("paragraph_node", SetToSeq(ev.exact \cup {ev.seed})) \o
        Typed("section_node", SetToSeq(ev.headings \cup ev.section)) \o
        Typed("relationship", SetToSeq(Relationships(ev))) \o
        Typed("resolution", SetToSeq({Resolution(ev, d) : d \in ev.nodes})) \o
        Typed("conflict", SetToSeq(ev.conflicts))

(* _authority_relevant_record_sha256s                                        *)
RelevantRecords(ev) ==
    UNION {r.records : r \in ev.derivations} \cup {c.record : c \in ev.conflicts}

-----------------------------------------------------------------------------
(* The paragraph history.                                                    *)

(* match_eligible of _projection_result                                      *)
RejectedEligible(p) ==
    Rejected(p) \notin Blank \cup {Unavailable, Text(p)}

(* _exact_candidates: the paragraphs of the lower document that read like    *)
(* the selected one now, or like it read before its pending revisions.       *)
ByCurrent(d, p) == {q \in ParagraphsOf(d) : Text(q) \notin Blank /\ Text(q) = Text(p)}
ByRejected(d, p) ==
    {q \in ParagraphsOf(d) :
       Text(q) \notin Blank /\ RejectedEligible(p) /\ Text(q) = Rejected(p)}
Candidates(d, p) == ByCurrent(d, p) \cup ByRejected(d, p)

(* _navigation_candidates                                                    *)
Navigation(d, seed) ==
    {t \in SectionsOf(d) : \E s \in SectionOf(seed) : Signals(s, t) # {}}

(* One step of resolve_paragraph_history; `selected' is a set of at most one *)
(* paragraph and `higher' the step above.                                    *)
TraceStep(d, seed, higher) ==
    LET navigation == Navigation(d, seed)
        step(found, chosen, state, reason) ==
          [document |-> d, selected |-> chosen, candidates |-> found,
           state |-> state, reason |-> reason, navigation |-> navigation]
    IN  IF higher.selected = {}
        THEN step({}, {}, "unresolved", IF higher.state = "ambiguous"
                                        THEN "blocked_by_higher_ambiguity"
                                        ELSE "blocked_by_higher_unresolved")
        ELSE LET p == CHOOSE q \in higher.selected : TRUE
                 found == Candidates(d, p)
             IN  IF Cardinality(found) >= 2
                 THEN step(found, {}, "ambiguous", "multiple_exact_candidates")
                 ELSE IF Rejected(p) = Unavailable
                 THEN step(found, {}, "unresolved", "rejected_projection_unavailable")
                 ELSE IF found # {}
                 THEN step(found, found, "exact_unique",
                           IF ByCurrent(d, p) # {} THEN "exact_current_unique"
                           ELSE "rejected_projection_unique")
                 ELSE step({}, {}, "unresolved",
                           IF navigation # {} THEN "navigation_only"
                           ELSE "no_match_in_declared_scope")

(* resolve_paragraph_history: the seed's position first, then downwards.     *)
Trace(files, seed) ==
    LET n == Len(files)
        at[k \in Nat] ==
          IF k = 0
          THEN [document |-> seed[1], selected |-> {seed}, candidates |-> {},
                state |-> "seed", reason |-> "seed", navigation |-> {}]
          ELSE TraceStep(files[n - k].document, seed, at[k - 1])
    IN  [k \in 1 .. n |-> at[k - 1]]
=============================================================================
