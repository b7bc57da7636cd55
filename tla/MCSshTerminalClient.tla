------------------------ MODULE MCSshTerminalClient ------------------------
EXTENDS SshTerminalClient
(* Two sessions, each with or without its own jump host.                   *)
CONSTANTS c1, c2, j1, j2, tunnel
MCConn == {c1, c2, j1, j2}
MCConnection == <<c1, c2>>
MCJump == <<j1, j2>>
MCForwardOf == [c \in MCConn |-> IF c \in {j1, j2} THEN {tunnel} ELSE {}]
MCReverseOf == [c \in MCConn |-> {}]
None == {}
=============================================================================
