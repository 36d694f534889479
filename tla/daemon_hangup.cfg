\* Hangups only, and no clients.
SPECIFICATION FairDaemonSpec
CONSTANTS
  Conns = {}
  Patient = {}
  Listener = Listener
  Kinds = {}
  MaxRequests = 0
  MaxHangups = 1
PROPERTIES
  HangupIsObeyed
CHECK_DEADLOCK FALSE
