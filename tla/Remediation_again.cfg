\* A server stalls a second time.
SPECIFICATION Spec
CONSTANTS
  Wave = {"w1"}
  Server = {"s1", "s2"}
  Failure = {"stalled"}
  Allowed = {"restart_replication_agent", "resync_volume", "reinstall_mgn_agent"}
  Refused = FALSE
  MaxRetries = 3
  MaxStalls = 2
INVARIANT ResolvedMeansRemedied
