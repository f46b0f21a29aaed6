SPECIFICATION Spec
CONSTANTS
  Peers = {"peer"}
  NoThread = NoThread
  Messages <- AllMessages
  Room = 2
  Lines = {"w", "q", "blank"}
  Letters = {"w"}
  Relayed = {"F"}
  Stale = {"none"}
  MaxTyped = 2
  MaxRelayed = 1
  MaxFaults = 1
INVARIANTS SessionTypeOK WithinFrame AnswersInOrder OnlyJamStops
PROPERTIES UpIsChannel DownIsChannel Answered
CHECK_DEADLOCK FALSE
