CONSTANTS
  p1 = p1
  p2 = p2
  admins = admins
  users = users
  logstash = logstash
  Operator = {p1, p2}
  Group = {admins, users, logstash}
  Logstash = {logstash}
  Namespace <- SomeNamespaces
  Attempts = 2
SPECIFICATION FairSpec
INVARIANTS
  TypeOK
  KeepsGrants
PROPERTY CallsEnd
