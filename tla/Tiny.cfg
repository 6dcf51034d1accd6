CONSTANTS
  c1 = c1
  c2 = c2
  Clients <- MCClients
  Nobody = Nobody
  Requests <- MCRequests
  Parsed <- MCParsed
  Junk <- MCJunk
  Files <- MCFiles
  Removable <- MCRemovable
  MayLeave <- MCMayLeave
  MaxAddrs = 2
  Byte <- MCByte
  MAXLINE = 4
  RIO_BUFSIZE = 2
SPECIFICATION Spec
INVARIANTS ServerIsWhole InOrder HeadersEndAtTheBlankLine AnswersAreRight PatientClientsAreSafe
PROPERTIES ReaderIsRio ServedUnlessBlocked
CHECK_DEADLOCK FALSE
