CONSTANTS
  Caller = {c1, c2, c3}
  Slots = 2
  Pace = 1
  MinCooldown = 2
  RecoveryTime = 2
  RetryAfters = {0, 3}
  b1 = b1  b2 = b2  d1 = d1
  billingFirst = billingFirst  billingRetry = billingRetry  host = host  billing = billing
  Calls = {b1, b2, d1}
  Gate = {billingFirst, billingRetry, host, billing}
  NoGate = none
  FirstOf <- BillingFirst
  RetryOf <- BillingRetry
  HostOf <- OneHost
  EndpointOf <- BillingEndpoint
  BusinessOf <- BillingSetsBusiness
  SlotsOf <- OwnSlots
  PaceOf <- OwnPaces
  MaxRetries = 1
  Second = 1
  HttpCooldown = 2
  HttpRecovery = 1
  HttpRetryAfters <- OwnRetryAfters
SPECIFICATION MCSpec
PROPERTIES TokensArePaced CooldownHonoured RecoversOnTime LastLimitPacesRequests SingleSlotPausesAtOnce EveryCallReturns
