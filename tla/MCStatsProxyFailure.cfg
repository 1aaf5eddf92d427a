\* One client thread; the transport may fail and a list may exceed PARAM_MAX_NUM.
CONSTANTS
  Threads = {t1}
  ERR_OK = ERR_OK
  ERR_PERMISSION_DENIED = ERR_PERMISSION_DENIED
  ERR_SYSTEM_API_DENIED = ERR_SYSTEM_API_DENIED
  ReplyErrors = {ERR_OK, ERR_PERMISSION_DENIED, ERR_SYSTEM_API_DENIED}
  ReplySizes <- MCReplySizes
SPECIFICATION Spec
PROPERTY FailedCallReported
