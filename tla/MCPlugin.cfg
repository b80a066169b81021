SPECIFICATION FairSpec
CONSTANTS
  c1 = c1
  c2 = c2
  c3 = c3
  n1 = n1
  n2 = n2
  none = none
  nobody = nobody
  k1 = k1
  h1 = h1
  PollSecs = 5
  Keys = {k1}
  Hashes = {h1}
  Notes <- MCNotes
  EdgeLimit = 3
  Names <- MCNames
  Nodes <- MCNodes
  NoNodes = none
  NoName = nobody
  MaxWatched = 2
  AgeCap = 1
  MaxEvents = 3
  ScrollCap = 1
  MaxLog = 3
  Cooldown = 3
  Modulus = 16
  WitnessTags <- MCWitnessTags
  ServiceTags <- MCServiceTags
  NerveService = "svc_8083"
  StaleTicks = 1
  Interval <- MCInterval
  Payloads <- MCPayloads
  Layouts <- MCLayouts
INVARIANTS
  PluginTypeOK
  PolledInTime
  WitnessesAgree
  FeedShowsEachTickOnce
  CooldownHolds
  SnapshotIsForwardCut
PROPERTIES
  AlertStandsUntilAcked
  DamageReachesDashboard
  EveryEndpointPolled
