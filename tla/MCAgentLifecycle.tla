-------------------------- MODULE MCAgentLifecycle --------------------------
(* Instances of AgentLifecycle for TLC.                                    *)
EXTENDS AgentLifecycle

OneId == 1..1
TwoIds == 1..2
ThreeIds == 1..3
AllOperations == {"reset", "checkpoint", "restore", "give"}
=============================================================================
