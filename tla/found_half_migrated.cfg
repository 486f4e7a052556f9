SPECIFICATION MigrationsSpec

CONSTANTS
  Process = {"app"}
  Latest = 3
  Statements <- MCStatements
  Rebuilds = {2}
  MaxKills = 1

INVARIANTS
  LastWholeVersion
