\* Two notify stages at once, channels that refuse or answer late, stages that die, a
\* baseline and a user who changes the policy and the channels.
SPECIFICATION FairSpec
CONSTANTS
  f1 = f1  f2 = f2  s1 = s1  a1 = a1  p1 = p1  slack = slack  mail = mail
  n1 = n1  n2 = n2  Junk = Junk
  Items = {f1, p1}
  FamilyOf <- CvePort
  Severities = {3}
  Trusted = {f1}
  Scored = {f1}
  Filtered = {p1}
  Channels = {slack, mail}
  MinSeverity <- Thresholds
  ChannelSets <- AnyChannels
  Policies <- Switching
  Notifiers = {n1, n2}
  Cap = 2
  Limit = 2
  MaxBaseline = 1
  FaultKinds = {"refuse", "late", "die"}
  MaxFaults = 1
  MaxAlerts = 4
INVARIANTS NothingSilenced NoBaselineFlood RepeatsHaveACause
 
