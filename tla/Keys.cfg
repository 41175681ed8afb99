\* Two windows, two modifiers, two characters, three keys in a command.
CONSTANTS
  Windows = {v1, v2}
  Shift = Shift
  Control = Control
  ModifierOrder <- TheOrder
  Texts = {x, y}
  Null = Null
  Skipped = Skipped
  Unknown = Unknown
  MaxKeys = 3
  OneKeyRelease = TRUE
SYMMETRY Symmetry
SPECIFICATION Spec
INVARIANTS
  TypeOK
  HeldKeysAreKnown
  CharactersEndReleased
