\* Two sessions; two backends and two files; one asset, two tag names and two
\* sources; two rows of settings; any request to the API; one
\* SAML request of any age.
CONSTANTS
  s1 = s1
  s2 = s2
  a1 = a1
  a2 = a2
  n1 = n1
  n2 = n2
  srv = srv
  opt = opt
  StoreSessions = {s1, s2}
  Homes = {srv, opt}
  MaxBackends = 2
  MaxFiles = 2
  MaxStoreRequests = 3
  TagSessions = {s1, s2}
  Tagged = {a1}
  Grouped = {a1, a2}
  TagNames = {n1, n2}
  Sources = {"user", "ai"}
  MaxTags = 3
  MaxLinks = 3
  MaxGroups = 1
  MaxTagRequests = 3
  SsoSessions = {s1, s2}
  Kinds = {"saml_idp", "saml_sp"}
  Contents = {1, 2, 3}
  RowIds = {1, 2}
  MaxSsoRequests = 4
  MaxIssueDelay = 1
  MaxClockSkew = 2
  MaxSamlTime = 3
SPECIFICATION MCSpec
SYMMETRY Symmetric
CHECK_DEADLOCK FALSE
INVARIANTS ContentReachable ServedAsSent AnsweredOnce RequestsJudged AssertionFits
PROPERTIES BackendsExplained GroupingExplained SettingsExplained
