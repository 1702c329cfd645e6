-------------------------- MODULE MCPubsubDelivery --------------------------
(* One publication, accepted for two queues, and two workers with the one      *)
(* default worker id; a turn, a claim or a lease is lost once.  The topic and   *)
(* its subscriptions were deleted after the acceptance, which has no part in    *)
(* what follows.                                                           *)
EXTENDS Pubsub

MCTopics == {1}
MCEndpoints == {"queue1", "queue2"}
MCArns == 1 .. 3
MCMessages == {1}
MCWorkers == {"w1", "w2"}
MCOwner == [w \in MCWorkers |-> "pubsub-worker"]

Audience == [a \in Arns |-> IF a = 2 THEN "pending" ELSE "confirmed"]

MCInit ==
    /\ topics = [t \in Topics |-> NoTopic]
    /\ subscriptions = [a \in Arns |-> NoSubscription]
    /\ publishing = [m \in Messages |->
          [phase |-> "accepted", topic |-> 1, incarnation |-> 1,
           snapshot |-> Audience, must |-> {1, 3}, may |-> {1, 3}]]
    /\ intents = [m \in Messages |-> [next_chunk |-> 0, snapshot |-> Audience, lease |-> NoTime]]
    /\ deliveries = [id \in DeliveryIds |-> NoRecord]
    /\ turns = [w \in Workers |-> IdleTurn]
    /\ chunks = [w \in Workers |-> NoChunks]
    /\ claims = [w \in Workers |-> NoClaims]
    /\ received = {}
    /\ issued = [incarnation |-> 1, arns |-> Arns, ids |-> {}]
    /\ faults = 0

MCSpec == MCInit /\ [][Next]_vars /\ Fairness
=============================================================================
