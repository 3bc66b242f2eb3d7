----------------------------- MODULE MCWebhooks -----------------------------
(* One hook that asked for completed jobs only.                            *)
EXTENDS Webhooks, TLC
CONSTANTS h1
CompletedOnly == h1 :> {"job.completed"}
=============================================================================
