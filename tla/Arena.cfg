\* Arenas of up to six words with three owners. A word that is asked for alone
\* is rounded up to two; four more than four is more than a size_t of 0 .. 7.
CONSTANTS
  Owners = {c1, c2, c3}
  Words = {v1}
  Zero = Zero
  Junk = Junk
  Null = Null
  Caps = {0, 1, 5, 6}
  Sizes = {0, 1, 2, 3, 4, 7}
  Counts = {0, 1, 2}
  Align = 2
  SizeMax = 7
SPECIFICATION Spec
INVARIANTS
  BlocksApart
  StartsAligned
  LentBlocksKeepTheirWords
  ParentIsSquare
