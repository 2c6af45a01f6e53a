---------------------------- MODULE DeliveryFates ----------------------------
(***************************************************************************)
(* What webhook delivery promises of each event, however many deliveries   *)
(* run side by side: it meets one fate, for good; the endpoint hears of it *)
(* only before that, and no more often than there are attempts; and the    *)
(* fate tells what the endpoint can have seen.                             *)
(***************************************************************************)
EXTENDS Integers

CONSTANTS Events,
          MaxAttempts  \* requests an event may cost the endpoint

VARIABLES fate,        \* of each event
          received     \* how often the endpoint has processed each event

\* Fates of events that never reach the endpoint, and of those that may have.
Unsent  == {"filtered", "missed", "suppressed", "deferred"}
MayHave == {"failed", "unrecorded", "lost"}
Fates   == {"pending", "delivered"} \cup Unsent \cup MayHave

Init ==
  /\ fate = [e \in Events |-> "pending"]
  /\ received = [e \in Events |-> 0]

\* The endpoint processes a request, answered or not.
Hears(e) == received'[e] = received[e] + 1 /\ received'[e] <= MaxAttempts

\* What the endpoint can have seen of an event that meets fate f.
Fits(f, n) ==
  /\ f = "delivered" => n > 0
  /\ f \in Unsent => n = 0

Settle ==
  /\ \A e \in Events : received'[e] # received[e] => fate[e] = "pending" /\ Hears(e)
  /\ \A e \in Events : fate'[e] # fate[e] => /\ fate[e] = "pending"
                                             /\ fate'[e] \in Fates
                                             /\ Fits(fate'[e], received'[e])

Spec == Init /\ [][Settle]_<<fate, received>>
=============================================================================
