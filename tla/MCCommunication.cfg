SPECIFICATION Spec
CONSTANTS
  MaxPeers = 2
  Names <- MCNames
  Rosters <- MCRosters
  Members <- MCMembers
  Groups = {7}
  Guilds = {1, 2}
  MaxStatus = 2
INVARIANTS
  PeersAreTold
  GuildCompleteListsMentioned
  HostFollows
PROPERTY
  SlotsAreStable
