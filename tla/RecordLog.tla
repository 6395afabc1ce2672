------------------------------- MODULE RecordLog -------------------------------
(***************************************************************************)
(* What the decision-record journal of a workspace promises to the tools   *)
(* that write and read it.  Every journal file is a log: a call adds at    *)
(* most one record to one log, with an id above all ids of that log, and   *)
(* nothing that entered a log ever leaves it.  A call answered "written"   *)
(* has its record in a log; one answered "write_failed" may have it there  *)
(* or not.  A read returns a log as it is at that moment, or nothing when  *)
(* the workspace has no journal; an export that was recorded returns what  *)
(* stood before its own access event.                                      *)
(*                                                                         *)
(* There are no locks, no partial lines and no rollback here.              *)
(***************************************************************************)
EXTENDS Sequences, Naturals

CONSTANTS Caller

VARIABLES logs,     \* [journal file -> sequence of records]
          existing, \* the journal files there have been
          current,  \* the one the workspace shows, 0 for none
          answer    \* what each call was told

logVars == <<logs, existing, current, answer>>

Unanswered == [status |-> "none", seen |-> <<>>]

HighestId(log) == IF log = <<>> THEN 0 ELSE log[Len(log)].id

\* What a caller asks of a log: the substance of the journal without its
\* access events, or only the applied edits a round map is built from.
View(kind, log) ==
    SelectSeq(log, LAMBDA r : IF kind = "map" THEN r.tool = "apply_edits"
                                              ELSE r.tool # "export")

LogInit ==
    /\ current \in existing \cup {0}
    /\ answer = [p \in Caller |-> Unanswered]

OnRecord(p) == \E f \in DOMAIN logs : \E i \in DOMAIN logs[f] : logs[f][i].by = p

\* The call's one record enters a log, now or before.
Adds(p) ==
    /\ ~OnRecord(p)
    /\ \E f \in existing, tool \in {"apply_edits", "map_rounds", "export"} :
          logs' = [logs EXCEPT ![f] =
                     Append(@, [id |-> HighestId(@) + 1, by |-> p, tool |-> tool])]
MayAdd(p) == UNCHANGED logs \/ Adds(p)

Answers(p, statuses) ==
    /\ answer[p] = Unanswered
    /\ answer'[p].status \in statuses
    /\ answer' = [answer EXCEPT ![p] = answer'[p]]

AddRecord(p) ==
    /\ answer[p] = Unanswered /\ Adds(p)
    /\ UNCHANGED <<existing, current, answer>>

AnswerWritten(p) ==
    /\ Answers(p, {"written"}) /\ MayAdd(p)
    /\ \E f \in existing : \E i \in DOMAIN logs'[f] :
          /\ logs'[f][i].by = p
          /\ answer'[p].seen = IF logs'[f][i].tool = "export"
                               THEN View("export", SubSeq(logs'[f], 1, i - 1))
                               ELSE <<>>
    /\ UNCHANGED <<existing, current>>

AnswerFailed(p) ==
    /\ Answers(p, {"write_failed"}) /\ MayAdd(p)
    /\ \/ answer'[p].seen = <<>>
       \/ \E f \in existing : \E i \in 0 .. Len(logs[f]) :
             answer'[p].seen = View("export", SubSeq(logs[f], 1, i))
    /\ current' \in {current, 0}
    /\ UNCHANGED existing

AnswerNothing(p) ==
    /\ Answers(p, {"refused", "disabled"}) /\ answer'[p].seen = <<>>
    /\ UNCHANGED <<logs, existing, current>>

AnswerRead(p) ==
    /\ Answers(p, {"read"})
    /\ \/ current = 0 /\ answer'[p].seen = <<>>
       \/ \E f \in existing, kind \in {"map", "read"} :
             answer'[p].seen = View(kind, logs[f])
    /\ UNCHANGED <<logs, existing, current>>

\* A new log takes the journal's place, or the journal is moved away.
Rename ==
    /\ current' \in {0} \cup (existing' \ existing)
    /\ existing \subseteq existing'
    /\ UNCHANGED <<logs, answer>>

LogNext ==
    \/ Rename
    \/ \E p \in Caller : \/ AddRecord(p) \/ AnswerWritten(p) \/ AnswerFailed(p)
                         \/ AnswerNothing(p) \/ AnswerRead(p)

LogSpec == LogInit /\ [][LogNext]_logVars
================================================================================
