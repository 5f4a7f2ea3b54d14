SPECIFICATION FairTeamSpec
CONSTANTS
  alice = alice
  bob = bob
  w1 = w1
  Main = Main
  Tasks <- MCTasks
  Members <- MCMembers
  Workers <- MCWorkers
  Spawners = {alice}
  TurnEnds = {"completed"}
  RoundEnds = {"idle"}
  TeamLimit = 2
  AgentLimit = 2
  MaxCrashes = 1
  MaxToggles = 1
INVARIANTS
  TeamTypeOK
  MemberSerial
PROPERTIES
  TasksRunOnce
  EverythingEnds
CHECK_DEADLOCK FALSE
