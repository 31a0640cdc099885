-------------------------- MODULE WebhookDelivery --------------------------
(***************************************************************************)
(* What the webhook queue promises of each event it has taken in: the      *)
(* receiver is called until it accepts or rejects the event or enough      *)
(* attempts have been made; the outcome is recorded once, for a reason the *)
(* receiver has seen; and after that it is not called again.  The promise  *)
(* is at-least-once delivery: nothing is said about duplicates.            *)
(***************************************************************************)
EXTENDS Naturals

CONSTANTS Events, MaxAttempts

VARIABLES
    outcome,   \* what is on record of an event
    accepted,  \* events the receiver has answered with success
    rejected,  \* events the receiver has answered with a client error
    posts      \* calls of the receiver made for each event

dvars == <<outcome, accepted, rejected, posts>>

DeliveryInit ==
    /\ outcome  = [e \in Events |-> "none"]
    /\ accepted = {}
    /\ rejected = {}
    /\ posts    = [e \in Events |-> 0]

TakeIn(e) ==
    /\ outcome[e] = "none"
    /\ outcome' = [outcome EXCEPT ![e] = "queued"]
    /\ UNCHANGED <<accepted, rejected, posts>>

Call(e) ==
    /\ outcome[e] = "queued"
    /\ posts' = [posts EXCEPT ![e] = @ + 1]
    /\ \/ accepted' = accepted \cup {e} /\ UNCHANGED rejected
       \/ rejected' = rejected \cup {e} /\ UNCHANGED accepted
       \/ UNCHANGED <<accepted, rejected>>
    /\ UNCHANGED outcome

Close(e) ==
    /\ outcome[e] = "queued"
    /\ \/ e \in accepted /\ outcome' = [outcome EXCEPT ![e] = "delivered"]
       \/ /\ e \in rejected \/ posts[e] >= MaxAttempts
          /\ outcome' = [outcome EXCEPT ![e] = "abandoned"]
    /\ UNCHANGED <<accepted, rejected, posts>>

DeliveryNext == \E e \in Events : TakeIn(e) \/ Call(e) \/ Close(e)

DeliverySpec == DeliveryInit /\ [][DeliveryNext]_dvars
=============================================================================
