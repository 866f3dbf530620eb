SPECIFICATION Spec
CONSTANTS
  Step = 2
  NoItem = NoItem
  Key = {0, 1, 2, 4, 6}
  Value = {v1, v2}
  MaxSize = 4
INVARIANTS CountExact EachKeyOnce
PROPERTY IsDictionary
