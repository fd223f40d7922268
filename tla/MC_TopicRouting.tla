---------------------------- MODULE MC_TopicRouting ----------------------------
(* Four of the seven kinds, in the relative order of SubscribeAllTopics:  *)
(* three with a rate counter, and cmd_vel, subscribed last.               *)
EXTENDS TopicRouting

MCSubOrder == <<"map", "tf", "odom", "cmd_vel">>
=============================================================================
