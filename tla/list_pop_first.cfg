\* One list, two blocks: the first entry and the last differ.
SPECIFICATION ListSpec
CONSTANTS
  Lists = {l1}
  Blocks = {b1, b2}
  Junk = Junk
  NoBlock = NoBlock
PROPERTIES
  PopTakesFirst
