--------------------------- MODULE DeliveryContract ---------------------------
(***************************************************************************)
(* What the webhook pipeline promises about each delivery, whatever jobs,   *)
(* leases, ticks and crashes lie behind it (RUNBOOK_WEBHOOKS.md:5-7,21-25): *)
(* at-least-once POSTs while the delivery is open, one final verdict, and a *)
(* verdict only for a reason.  DeliveryPipeline with one worker implements  *)
(* it (DeliveryPipeline!Contract).                                          *)
(***************************************************************************)
EXTENDS Naturals

CONSTANTS Deliveries, MaxAttempts

VARIABLES
    state,     \* delivery -> its state as a client of the pipeline sees it
    sent,      \* delivery -> number of POSTs tried
    answered   \* deliveries that received a 2xx answer

vars == <<state, sent, answered>>

Init ==
    /\ state = [d \in Deliveries |-> "absent"]
    /\ sent = [d \in Deliveries |-> 0]
    /\ answered = {}

Become(d, from, to) ==
    /\ state[d] = from
    /\ state' = [state EXCEPT ![d] = to]
    /\ UNCHANGED <<sent, answered>>

Accept(d) == Become(d, "absent", "open")

\* A POST of an open delivery.  One whose subscription has just been deleted
\* may still be overtaken by the deletion.
Send(d) ==
    /\ state[d] \in {"open", "dropped"}
    /\ sent' = [sent EXCEPT ![d] = @ + 1]
    /\ answered' \in {answered, answered \union {d}}
    /\ UNCHANGED state

Deliver(d) == d \in answered /\ Become(d, "open", "delivered")
GiveUp(d) == sent[d] >= MaxAttempts /\ Become(d, "open", "failed")

\* Deleting a subscription drops all its deliveries at once.
Drop(S) ==
    /\ state' = [d \in Deliveries |-> IF d \in S THEN "dropped" ELSE state[d]]
    /\ UNCHANGED <<sent, answered>>

Next ==
    \/ \E d \in Deliveries : Accept(d) \/ Send(d) \/ Deliver(d) \/ GiveUp(d)
    \/ \E S \in SUBSET Deliveries : Drop(S)

Spec == Init /\ [][Next]_vars
=============================================================================
