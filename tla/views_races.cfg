CONSTANTS
  Views = {v1, v2}
  Items = {i1, i2}
  Editors = {e1}
  BatchSize = 1
  Nothing = Nothing
SPECIFICATION Spec
INVARIANTS
  TypeOK
  NoPhantomViews
  NoViewForgotten
PROPERTIES
  OnlyEditsLowerCounts
  ViewsAreStored
