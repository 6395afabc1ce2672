---------------------------- MODULE PositionHistory ----------------------------
(***************************************************************************)
(* The history of a matter's positions, as positions.py keeps it: what     *)
(* _change appends for a batch of operations, what _validate_store accepts *)
(* when the store is read again, and what _position_status says of a link  *)
(* that another store has recorded.                                        *)
(*                                                                         *)
(* The current positions are the last ones of the history, and the         *)
(* revision is a hash of both, so a revision is the history itself.        *)
(***************************************************************************)
EXTENDS Naturals, SequencesExt

CONSTANTS
    Position,     \* position ids
    MaxPositions, \* positions of a store
    MaxHistory    \* events of a history

ASSUME PositionLimits == MaxPositions \in Nat /\ MaxHistory \in Nat

\* A position: its version, the version the user has confirmed (0: none),
\* whether it still stands, and the positions its content refers to.
State == [version : Nat, confirmed : Nat, lifecycle : {"active", "withdrawn"},
          related : SUBSET Position]
Event == [operation : {"create", "update", "confirm", "withdraw"},
          position : Position, state : State]
Unknown == [version |-> 0, confirmed |-> 0, lifecycle |-> "unknown", related |-> {}]

\* What a caller asks of one position.
Change == [op : {"create", "update", "confirm", "withdraw"}, position : Position,
           expected : Nat, related : SUBSET Position]

Events(h, p) == {i \in DOMAIN h : h[i].position = p}
Known(h) == {h[i].position : i \in DOMAIN h}
Latest(h, p) == IF Events(h, p) = {} THEN Unknown ELSE h[Max(Events(h, p))].state

--------------------------------------------------------------------------------

\* The refusals of one operation on a position.
Accepted(h, c) ==
    LET old == Latest(h, c.position)
    IN IF c.op = "create" THEN old = Unknown
       ELSE /\ old.version = c.expected
            /\ old.lifecycle = "active"
            /\ c.op = "confirm" => old.confirmed = 0

\* The position after it.  A new version is nobody's confirmed one.
Result(old, c) ==
    CASE c.op = "create" ->
            [version |-> 1, confirmed |-> 0, lifecycle |-> "active", related |-> c.related]
      [] c.op = "update" ->
            [old EXCEPT !.version = @ + 1, !.confirmed = 0, !.related = c.related]
      [] c.op = "confirm" -> [old EXCEPT !.confirmed = old.version]
      [] OTHER -> [old EXCEPT !.lifecycle = "withdrawn"]

\* A batch touches a position once, so each operation meets the old state.
Extended(h, batch) ==
    h \o [i \in DOMAIN batch |-> [operation |-> batch[i].op, position |-> batch[i].position,
                                  state |-> Result(Latest(h, batch[i].position), batch[i])]]

Applies(h, batch) ==
    /\ \A i, j \in DOMAIN batch : batch[i].position = batch[j].position => i = j
    /\ \A i \in DOMAIN batch : Accepted(h, batch[i])
    /\ Cardinality(Known(Extended(h, batch))) <= MaxPositions
    /\ Len(Extended(h, batch)) <= MaxHistory
    /\ \A p \in Known(Extended(h, batch)) :
          Latest(Extended(h, batch), p).related \subseteq Known(Extended(h, batch))

\* _validate_store: every event follows from the one before it on its position.
EventFollows(h, e) ==
    LET old == Latest(h, e.position)
        new == e.state
    IN \/ /\ e.operation = "create" /\ old = Unknown
          /\ new.version = 1 /\ new.confirmed = 0 /\ new.lifecycle = "active"
       \/ /\ e.operation = "update" /\ old.lifecycle = "active"
          /\ new.version = old.version + 1 /\ new.confirmed = 0 /\ new.lifecycle = "active"
       \/ /\ e.operation = "confirm" /\ old.lifecycle = "active" /\ old.confirmed = 0
          /\ new = [old EXCEPT !.confirmed = old.version]
       \/ /\ e.operation = "withdraw" /\ old.lifecycle = "active"
          /\ new = [old EXCEPT !.lifecycle = "withdrawn"]

HistoryValid(h) ==
    /\ \A i \in DOMAIN h : EventFollows(SubSeq(h, 1, i - 1), h[i])
    /\ \A i \in DOMAIN h : h[i].state.related \subseteq Known(h)

--------------------------------------------------------------------------------

\* A link to a position as it was at a revision.
Link == [revision : Seq(Event), position : Position, version : Nat]

LinkTo(h, p) == [revision |-> h, position |-> p, version |-> Latest(h, p).version]

\* _position_status: whether the linked revision is the present one, an
\* earlier one, or cannot be found in the history.
LinkStatus(link, h) ==
    IF /\ IsPrefix(link.revision, h)
       /\ Latest(link.revision, link.position).version = link.version
    THEN IF link.revision = h THEN "current" ELSE "historical_available"
    ELSE "unavailable"

CurrentPosition(link, h) ==
    LinkStatus(link, h) = "current" /\ Latest(h, link.position).lifecycle = "active"
================================================================================
