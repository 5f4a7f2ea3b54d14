---------------------------- MODULE MCAgentTeams ----------------------------
(* A team of two whose members may both be at work and then hold every slot  *)
(* of the machine; one of them may start a sub-agent.                        *)
EXTENDS AgentTeams
CONSTANTS alice, bob, w1
MCTasks == 1 .. 2
MCMembers == {alice, bob}
MCWorkers == {w1}
=============================================================================
