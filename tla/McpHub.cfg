SPECIFICATION Spec
CONSTANTS
  Requests = {r1, r2}
  Nobody = Nobody
  Users = {u1, u2}
  Actions = {"mcp", "image"}
  ImageAction = "image"
  Tools = {"search"}
  Arguments = {a1, a2}
  RequestsPerWindow = 4
  ActionLimit <- MCActionLimit
  GlobalInFlight = 2
  UserInFlight = 1
  ImageInFlight = 1
  MaxChallenges = 1
  Configs <- MCConfigs
  Offers <- MCOffers
  MaxReadOnlyRetries = 1
  r1 = r1
  r2 = r2
  Script <- MCScript
  MaxRuntimes = 2
  MaxWindowEnds = 1
SYMMETRY Symmetry
INVARIANTS ApprovedCallsOnly TokensAreSpentOnce ReloadTakesEffect SlotsAreCounted 
