SPECIFICATION McSpec
CONSTANTS
  k1 = k1
  k2 = k2
  m = m
  public = public
  private = private
  None = None
  Placeholder = Placeholder
  Keys = {k1, k2, m}
  Own = {k1, k2}
  Geneses <- Firsts
  Foreign <- OthersFirst
  Versions <- Laters
  Edits <- Replacements
  WebDocuments <- Documents
  Requests <- Asked
  Answers <- DnsAnswers
  Forbidden = {private}
  Timeout = 2
  MaxUnits = 2
  MaxLogEntries = 3
  MaxLines = 3
  MaxThefts = 1
  MaxChanges = 1
  Threads = {t1, t2}
  Names = {n1, n2, n3}
  Rotating = {n1}
  Ttl = 1
  MaxEntries = 2
  MaxResolve = 1
  MaxClock = 3
  MaxVersions = 2
  Nil = Nil
SYMMETRY Symmetric
CHECK_DEADLOCK FALSE
INVARIANTS TheftNeedsACommittedKey LawfulLogsResolve ContactsOnlyChecked ReadIsBounded StaleAtMostTtlPlusResolve OldestExpiresFirst
PROPERTIES ReplaysAHistory LosesOnlyTheOldest
