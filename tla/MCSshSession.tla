---------------------------- MODULE MCSshSession ----------------------------
EXTENDS SshSession
(* Instances of SshSession: c1 forwards X11, c2 has one forward and one    *)
(* reverse tunnel; one of the two is used.                                 *)
CONSTANTS c1, c2, f1, r1
MCConn == {c1, c2}
MCTunnel == {f1, r1}
MCForwardOf == [c \in MCConn |-> IF c = c2 THEN {f1} ELSE {}]
MCReverseOf == [c \in MCConn |-> IF c = c2 THEN {r1} ELSE {}]
MCX11Conn == {c1}
OneUsed == client[c1] = "idle" \/ client[c2] = "idle"
=============================================================================
