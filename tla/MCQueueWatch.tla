----------------------------- MODULE MCQueueWatch -----------------------------
(* One machine configured, as horae does, or both. *)
EXTENDS QueueWatch

OneOrBoth == {<<1>>, <<1, 2>>}
SomeNotices == <<[key |-> "queue", value |-> "Update"]>>
=============================================================================
