CONSTANTS
  GameServers = {g1, g2}
  Gateways = {w1}
  Agents = {"consul"}
  AgentOf <- MCAgentOfShared
  Misconfigured = {}
  NoEntry = NoEntry
  MaxKills = 1
  MaxRestarts = 2
SPECIFICATION Spec
INVARIANT DeployTypeOK
INVARIANT ServingPortsAdvertised
