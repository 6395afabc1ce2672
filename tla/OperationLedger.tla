---------------------------- MODULE OperationLedger ----------------------------
(***************************************************************************)
(* What the operation journal promises about every operation id, whatever  *)
(* processes die, power losses or failing calls lie in between: the        *)
(* request is on durable record before the document is touched, an id      *)
(* publishes at most once, and a durable outcome is true when written and  *)
(* never becomes false or changes afterwards.                              *)
(*                                                                         *)
(* Only what would be found on the disk after a power loss counts, so no   *)
(* transition here is ever undone.  Operations are independent, and one    *)
(* event (a power loss that flushes several directories) may advance       *)
(* several of them at once.                                                *)
(***************************************************************************)
CONSTANT Op

VARIABLES phase,    \* how far each operation has durably got
          verdict   \* the durable outcome on record for it

ledgerVars == <<phase, verdict>>

LedgerTypeOK ==
    /\ phase \in [Op -> {"unused", "prepared", "published"}]
    /\ verdict \in [Op -> {"none", "published", "not_published"}]

LedgerInit ==
    /\ phase = [o \in Op |-> "unused"]
    /\ verdict = [o \in Op |-> "none"]

Stay(o) ==
    /\ phase'[o] = phase[o]
    /\ verdict'[o] = verdict[o]

Prepare(o) ==
    /\ phase[o] = "unused"
    /\ phase'[o] = "prepared"
    /\ verdict'[o] = verdict[o]

Publish(o) ==
    /\ phase[o] = "prepared"
    /\ verdict[o] = "none"
    /\ phase'[o] = "published"
    /\ verdict'[o] = "none"

Conclude(o) ==
    /\ verdict[o] = "none"
    /\ \/ phase[o] = "published" /\ verdict'[o] = "published"
       \/ phase[o] = "prepared" /\ verdict'[o] = "not_published"
    /\ phase'[o] = phase[o]

LedgerNext ==
    \A o \in Op : Stay(o) \/ Prepare(o) \/ Publish(o) \/ Conclude(o)

LedgerSpec == LedgerInit /\ [][LedgerNext]_ledgerVars
================================================================================
