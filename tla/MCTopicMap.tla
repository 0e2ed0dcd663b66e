----------------------------- MODULE MCTopicMap ------------------------------
(* Model-checking instance of TopicMap; the bounds are in the cfgs.        *)
EXTENDS TopicMap
=============================================================================
