----------------------------- MODULE MCServices -----------------------------
(***************************************************************************)
(* The services around the job queue share no state with one another: each *)
(* behaviour explores one of them.                                         *)
(***************************************************************************)
EXTENDS Projects, Accounts, RateLimiter, Migrations, TLC

VARIABLE focus

services == <<vars, accounts, limiter, migrations, focus>>

MCInit ==
    /\ focus \in {"projects", "accounts", "limiter", "migrations"}
    /\ Init /\ AccountsInit /\ LimiterInit /\ MigrationsInit
    /\ focus # "projects" => mix = CHOOSE m \in Mixes : TRUE

ProjectsStep   == focus = "projects" /\ Next /\ UNCHANGED <<accounts, limiter, migrations, focus>>
AccountsStep   == focus = "accounts" /\ AccountsNext /\ UNCHANGED <<vars, limiter, migrations, focus>>
LimiterStep    == focus = "limiter" /\ LimiterNext /\ UNCHANGED <<vars, accounts, migrations, focus>>
MigrationsStep == focus = "migrations" /\ MigrationsNext /\ UNCHANGED <<vars, accounts, limiter, focus>>

MCNext == ProjectsStep \/ AccountsStep \/ LimiterStep \/ MigrationsStep

\* Nothing tells two projects or two requests apart.
Symmetry == Permutations(ProjectIds) \cup Permutations(Requests)

MCSpec == MCInit /\ [][MCNext]_services
=============================================================================
