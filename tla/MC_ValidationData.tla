-------------------------- MODULE MC_ValidationData --------------------------
(* Two overlapping calls of generate_validation_data; the relay may be     *)
(* answered by the relay itself or by another host.                        *)
EXTENDS ValidationData

CONSTANTS c1, c2, relay, other

MCCalls == {c1, c2}

MCPeers == {relay, other}

=============================================================================
