SPECIFICATION Spec
INVARIANTS LinksFaithful CatalogSound TrafficContained RollbackComplete HelperUnderstood
CHECK_DEADLOCK FALSE
CONSTANTS
  MAX_NETWORK_COLLECTION_ITEMS = 3
  MAX_DNS_SERVERS = 1
  MAX_DOMAIN_ITEMS = 1
