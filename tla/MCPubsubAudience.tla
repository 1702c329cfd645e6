-------------------------- MODULE MCPubsubAudience --------------------------
(* One topic created twice, a queue and an HTTP endpoint, one publication and  *)
(* one worker that takes chunks of one subscription.                        *)
EXTENDS Pubsub

MCTopics == {1}
MCEndpoints == {"queue", "http"}
MCQueueEndpoints == {"queue"}
MCArns == 1 .. 2
MCMessages == {1}
MCConfirmationIds == {2}
MCWorkers == {"w"}
MCOwner == [w \in MCWorkers |-> "pubsub-worker"]
=============================================================================
