------------------------- MODULE PurchaseLifecycle -------------------------
(***************************************************************************)
(* What a purchase promises, without requests, payment events or status    *)
(* columns: it is opened, bought (by an approved trial or by an exact      *)
(* payment), set up once, queued for provisioning once, and runs.          *)
(***************************************************************************)
CONSTANT Checkouts

VARIABLE phase

Phases == {"absent", "open", "bought", "set_up", "queued", "running"}

Init == phase = [c \in Checkouts |-> "absent"]

Move(c, from, to) ==
    /\ phase[c] = from
    /\ phase' = [phase EXCEPT ![c] = to]

Open(c)         == Move(c, "absent", "open")
ApproveTrial(c) == Move(c, "absent", "bought")
Capture(c)      == Move(c, "open", "bought")
SetUp(c)        == Move(c, "bought", "set_up")
Queue(c)        == Move(c, "set_up", "queued")
Run(c)          == Move(c, "queued", "running")

Next ==
    \E c \in Checkouts :
        Open(c) \/ ApproveTrial(c) \/ Capture(c) \/ SetUp(c) \/ Queue(c) \/ Run(c)

Spec == Init /\ [][Next]_phase
=============================================================================
