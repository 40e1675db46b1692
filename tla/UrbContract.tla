----------------------------- MODULE UrbContract -----------------------------
(***************************************************************************)
(* What an endpoint of a host controller driver owes the USB drivers whose *)
(* URBs it accepts: every URB it accepted is given back, once, and after   *)
(* the endpoint is shut it has none. TransferQueue implements this, up to  *)
(* the URBs that are accepted while it is being torn down ("stranded"      *)
(* ones: they may be left behind). The actions speak of the owner of every *)
(* member of URB, and of nothing else in owner.                            *)
(***************************************************************************)
CONSTANT URB

VARIABLES
    owner,  \* of each URB: "driver", "endpoint", "leaving", "back", "stranded"
    mode    \* of the endpoint: "open", "closing", "shut"

vars == <<owner, mode>>

Init ==
    /\ owner = [u \in URB |-> "driver"]
    /\ mode = "open"

\* How an URB that was accepted moves on; "back" is for ever.
Onward(from, to) ==
    \/ from = to
    \/ from \in {"endpoint", "stranded"} /\ to \in {"leaving", "back"}
    \/ from = "leaving" /\ to = "back"

\* The endpoint accepts an URB; others may be given back in the same call.
Submit(u) ==
    /\ owner[u] = "driver" /\ mode # "shut"
    /\ owner'[u] = IF mode = "open" THEN "endpoint" ELSE "stranded"
    /\ \A v \in URB \ {u} : Onward(owner[v], owner'[v])
    /\ UNCHANGED mode

\* URBs complete, are cancelled, are given back.
Return ==
    /\ UNCHANGED mode
    /\ \A u \in URB : Onward(owner[u], owner'[u])

\* The endpoint goes: it gives up all its URBs, ...
Close ==
    /\ mode = "open" /\ mode' = "closing"
    /\ \A u \in URB : /\ Onward(owner[u], owner'[u])
                      /\ owner'[u] # "endpoint"

\* ... and accepts no more. One that has none is shut at once.
Shut ==
    /\ mode # "shut" /\ mode' = "shut"
    /\ \A u \in URB : Onward(owner[u], owner'[u]) /\ owner'[u] # "endpoint"

Next == Return \/ (\E u \in URB : Submit(u)) \/ Close \/ Shut

Spec == Init /\ [][Next]_vars

=============================================================================
