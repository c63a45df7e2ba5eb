SPECIFICATION Spec
CONSTANTS
  Endpoints <- ThreeEndpoints
  IpOf <- HostOfEndpoint
  Cards <- TwoCards
  Configs <- AllConfigs
  NaNAt = {"a:1"}
  MaxSeries = 2
INVARIANTS TypeOK RowsAreTheCards ValuesOfOwnCard HostValueOfOwnHost
