\* Two packets wait and one is replayed; the words wrap after the fourth.
CONSTANTS
  Capacity = 2
  WordSize = 4
  MaxPackets = 5
SPECIFICATION FairSpec
INVARIANTS SlotsApart NoLostWake
PROPERTIES ReplaysInOrder Progress
