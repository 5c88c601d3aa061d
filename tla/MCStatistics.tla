---------------------------- MODULE MCStatistics ----------------------------
(* An instance of Statistics: two sessions that follow each other on the same *)
(* axes with a command that disturbs the accounts, and one session with the   *)
(* commands of listeners and publishers.                                      *)
EXTENDS Statistics

CONSTANTS x1, x2

Accounts == [sessions |-> {x1, x2}, bytes |-> 1, cmds |-> 1,
             commands |-> {"ENABLE", "DISABLE", "MAPHOSTNAME", "FORCE_DISCONNECT"}]
Listeners == [sessions |-> {x1}, bytes |-> 1, cmds |-> 3,
              commands |-> {"LISTEN", "SEND", "STOP SEND", "HELP"}]
TheBounds == {Accounts, Listeners}

=============================================================================
