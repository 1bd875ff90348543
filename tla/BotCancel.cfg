SPECIFICATION BotSpec
CONSTANTS
  Webhook = {w1, w2, w3}
  NoCall = NoCall
INVARIANT CancelStops
CHECK_DEADLOCK FALSE
