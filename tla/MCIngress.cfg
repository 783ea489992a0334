SPECIFICATION IngressSpec
CONSTANTS
  Slug = {1, 2, 3}
  Ingress = {"i1", "i2"}
  Egress = {"e1", "e2"}
  IPv4 = {"i1", "i2", "e1"}
  IPv6 = {"i1"}
  Endpoint = {"e2"}
  Host <- MCHost
  Invalid <- MCInvalid
  Hits <- MCHits
  Port = {443, 8443}
  Shape <- MCShape
  Outages <- MCOutages
  SuffixSpec = 5
  MaxRevisions = 2
  Prefix = {"k"}
  Asker = {"q1", "q2"}
  Limit <- MCLimit
  GcPeriod = 1
  GcIdle = 3
  MaxLag = 1
  MaxClock = 6
  DnsRevision <- MCDnsRevision
  DnsQuery = {"q1", "q2"}
  MaxInflight = 1
  MaxReloads = 2
  Client = {"h1", "h2"}
  MaxIssues = 3
  MaxStarts = 2
  Bundle = {"b1", "b2", "b3"}
  NodeOf <- MCNodeOf
  Nobody = "none"
  MaxBoots = 3
INVARIANTS
  OneRevisionServes OneOwner MatchAgrees OriginStaysHidden RenewalServed
  
PROPERTIES ForgetsLittle
CHECK_DEADLOCK FALSE
