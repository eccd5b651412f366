SPECIFICATION GuardFairSpec
CONSTANTS
  Servers = {s1}
  Grace = 2
  LongLock = 4
  ShortLock = 2
  Second = 2
  WipeGrace = 2
  MaxSetBack = 2
PROPERTY BackgroundWipes
