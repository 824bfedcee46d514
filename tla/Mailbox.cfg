SPECIFICATION FairSpec
CONSTANTS
  Folders = {inbox}
  m1 = m1
  m2 = m2
  address = address
  domain = domain
  Mails = {m1, m2}
  Unnamed = {m2}
  Filters = {address, domain}
  Matches <- MCMatches
  Exact = {address}
  ToIssue = {address}
  None = None
  Admins = {a1}
  MaxUID = 2
  MaxFaults = 1
INVARIANTS TypeOK OneRowPerMail CursorCovers OneIssuePerMail
PROPERTIES RoutingSticks MailIngested
