----------------------------- MODULE CreateOnce -----------------------------
(***************************************************************************)
(* What an idempotency key promises to the clients that send it: one job   *)
(* per key, and every answer names that job.                               *)
(***************************************************************************)
CONSTANTS Keys, Jobs, NoJob

VARIABLES
    made,   \* made[k]: the job created for key k, NoJob if there is none
    told    \* the answers given: pairs of a key and a job

vars == <<made, told>>

Init == made = [k \in Keys |-> NoJob] /\ told = {}

Create(k, j) ==
    /\ made[k] = NoJob
    /\ made' = [made EXCEPT ![k] = j]
    /\ told' = told \cup {<<k, j>>}

Answer(k) ==
    /\ made[k] # NoJob
    /\ told' = told \cup {<<k, made[k]>>}
    /\ UNCHANGED made

Next == \E k \in Keys : Answer(k) \/ \E j \in Jobs : Create(k, j)

Spec == Init /\ [][Next]_vars
=============================================================================
