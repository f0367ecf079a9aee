SPECIFICATION Spec
CONSTANTS
  NULL = NULL
  Base = 32
  BufferSize = 100
  Options <- OptionWords
  Words <- AllWords
  MaxWords = 5
  MaxArguments = 2
  ArgumentsSize = 32
  MaxAddresses = 2
  CommandPathSize = 16
  LaunchArgumentsSize = 32
  CommandLineSize = 64
  PeerIndices = {0, 9}
  SessionMessages <- AllMessages
  LaterMessages <- FewMessages
  MaxMessages = 2
INVARIANTS TypeOK RunsWhatWasTyped SocketClosedOnce MessagesArriveAsSent RefusesOnlyTheUnencodable
CHECK_DEADLOCK FALSE
