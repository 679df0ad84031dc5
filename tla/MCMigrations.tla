---------------------------- MODULE MCMigrations -----------------------------
EXTENDS Migrations, TLC

CONSTANTS t1, t2, t3, server, cli

OneProcess == [t \in Threads |-> server]
TwoProcesses == t1 :> server @@ t2 :> server @@ t3 :> cli

=============================================================================
