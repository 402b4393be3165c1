\* One event, handled by one worker; the handler ends, so deadlock is no error.
SPECIFICATION Spec
CONSTANTS
  Messages <- MCMessages
  Roles = {"sudoer", "admin", "member"}
INVARIANTS
  TypeOK
  PrivilegeFirst
  NoFalseSuccess
  TextIsWritten
  IdsAreParsed
  
  HeapBalanced
  StopsAtRefusal
  RefusalIsReported
CHECK_DEADLOCK FALSE
