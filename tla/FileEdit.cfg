CONSTANTS
  Edits = {e1, e2}
  Texts = {a, b}
  MaxBaselines = 1
  Bounds <- SingleOrPair
  First = e1
  Second = e2
  Text = a
SPECIFICATION MCSpec
INVARIANTS TypeOK JournalIsTrue OnlyReviewedIsReplaced RestoresUndo
PROPERTIES EditsAreAnswered
