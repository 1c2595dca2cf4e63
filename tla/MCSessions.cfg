\* Two slots, and more sockets than slots, number 0 among them.
SPECIFICATION Spec
CONSTANTS
  Slots = {0, 1}
  Sockets = {0, 1, 2}
  LastID = 3
INVARIANTS TypeOK OwnerFound AllAccounted
