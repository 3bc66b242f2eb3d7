--------------------------- MODULE StageProgress ---------------------------
(***************************************************************************)
(* What the workflow engine promises about the stages of a job, without    *)
(* tasks, attempts, repairs or crashes: stages finish in order, what is    *)
(* finished stays finished, and a job completes when all of them are.      *)
(***************************************************************************)
EXTENDS Naturals

CONSTANT NStages

VARIABLES done, completed

Seqs == 0 .. (NStages - 1)

Init == done = {} /\ completed = FALSE

Finish(s) ==
    /\ s \notin done
    /\ 0 .. (s - 1) \subseteq done
    /\ done' = done \cup {s}
    /\ UNCHANGED completed

Complete ==
    /\ done = Seqs
    /\ completed' = TRUE
    /\ UNCHANGED done

\* A completed job may be run again.
Reopen ==
    /\ completed
    /\ completed' = FALSE
    /\ UNCHANGED done

Next == (\E s \in Seqs : Finish(s)) \/ Complete \/ Reopen

Spec == Init /\ [][Next]_<<done, completed>>
=============================================================================
