--------------------------- MODULE MC_Pop3Session ---------------------------
(* One command of each sort the decoder tells apart.                         *)
EXTENDS Pop3Session

Cmd(code, mail) == [code |-> code, mail |-> mail]
MCCommands == {Cmd("PASS", 0), Cmd("STAT", 0), Cmd("TOP", 1), Cmd("LIST", 1),
               Cmd("QUIT", 0), Cmd("UNKNOWN", 0)}
=============================================================================
