CONSTANTS
  Events = {wifi, short_reset, long_reset}
  Long = {short_reset, long_reset}
  None = None
SPECIFICATION KFairSpec
PROPERTIES EventSeen
