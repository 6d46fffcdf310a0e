------------------------- MODULE MCServiceRequests -------------------------
(* Instances of ServiceRequests for TLC: the first session and the first   *)
(* link are on the first instrument, the others on the second.             *)
EXTENDS ServiceRequests

CONSTANTS a, b, s, t, l, m, iface

MCDev == {a, b}
MCsre == [d \in MCDev |-> IF d = a THEN {"MAV", "ESB"} ELSE {"ESB"}]
MCdevOf == [x \in Session |-> IF x = s THEN a ELSE b]
MClinkDev == [x \in Link \ Interface |-> IF x = l THEN a ELSE b]
MCSubscriber == {Forwarder(x) : x \in Session} \cup {Execute(x) : x \in Session}
                \cup {Watcher(c) : c \in Chan}
=============================================================================
