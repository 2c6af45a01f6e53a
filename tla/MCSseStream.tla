----------------------------- MODULE MCSseStream -----------------------------
(* Two clients behind one address: the first comes twice, and may start     *)
(* from a row; the second uses stream_events_multi. Or the first alone.     *)
EXTENDS SseStream

CONSTANTS c1, c2

MCClients == {c1, c2}
MCOne == {c1}
MCOther == {c2}
MCNone == {}
MCWants == [c \in Clients |-> IF c = c1 THEN {1, 2, 3} ELSE {3}]
MCAll == [c \in Clients |-> 1..MaxEvents]
MCMaxArrivals == [c \in Clients |-> IF c = c1 THEN 2 ELSE 1]
MCIpOf == [c \in Clients |-> "ip"]
=============================================================================
