\* Two client threads of one process sharing the proxy singleton.
CONSTANTS
  Threads = {t1, t2}
  ERR_OK = ERR_OK
  ERR_PERMISSION_DENIED = ERR_PERMISSION_DENIED
  ERR_SYSTEM_API_DENIED = ERR_SYSTEM_API_DENIED
  ReplyErrors = {ERR_OK, ERR_PERMISSION_DENIED, ERR_SYSTEM_API_DENIED}
  ReplySizes <- MCReplySizes
SPECIFICATION Spec
PROPERTY ErrorReportedToCaller
