---------------------------- MODULE ScoreLedger ----------------------------
(***************************************************************************)
(* The handlers of ScoreFlow implement Ledger: however their statements    *)
(* interleave, the score column is what Ledger says it is.                 *)
(***************************************************************************)
EXTENDS ScoreFlow

\* Some handler has its recalculation before it, or was stopped there.
SomeoneOwes == lapsed \/ \E h \in Handlers : Owes(h)

Promise == INSTANCE Ledger
             WITH total <- CurrentTotals, score <- score, owed <- SomeoneOwes

\* Every statement of every handler, failures included, is a Change or a
\* Recompute of Ledger, or changes nothing it speaks of.
KeepsLedger == Promise!Safe

\* While no handler is stopped, the scores also come to agree with the tables
\* again after every change that affects them.
ImplementsLedger == Promise!Spec

=============================================================================
