---------------------------- MODULE MCRecordJournal ----------------------------
EXTENDS RecordJournal, TLC

CONSTANTS p1, p2, p3, earlier

Calls == {p1, p2, p3}
AnyLeftover == Leftover
CallsSymmetric == Permutations(Calls)
================================================================================
