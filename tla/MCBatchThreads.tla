--------------------------- MODULE MCBatchThreads ---------------------------
(***************************************************************************)
(* Small instances of BatchThreads for TLC.                                *)
(***************************************************************************)
EXTENDS BatchThreads, TLC, SequencesExt

(* Every file of at most four commands.                                    *)
AllJobs == BoundedSeq(Commands, 4)

HelpJobs == {<<[op |-> "help"], [op |-> "run"]>>}
=============================================================================
