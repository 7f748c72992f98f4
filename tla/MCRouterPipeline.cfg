CONSTANTS
  local = local
  econ = econ
  front = front
  Unknown = Unknown
  None = None
  subject = subject
  Model = {local, econ, front}
  TierOf <- MCTierOf
  ProviderOf <- MCProviderOf
  Session = {subject, other}
  Probes = {"full_local", "classification_only"}
  Requests <- MCRequests
SPECIFICATION Spec
PROPERTIES
  SelectsFromOwnFleet
  GivesUpOnlyWithoutFrontier
  TriageIsObeyed
