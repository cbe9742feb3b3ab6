---------------------------- MODULE MCDashboards ----------------------------
(* Two tasks, one of them silent, and a client that comes twice.           *)
EXTENDS Dashboards

CONSTANTS t1, t2, c1

MCTasks == {t1, t2}
MCSilent == {t2}
MCClients == {c1}
MCRows == {4, 5}

=============================================================================
