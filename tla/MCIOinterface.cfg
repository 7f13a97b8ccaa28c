CONSTANTS
  Limit = 6
SPECIFICATION Spec
INVARIANTS TypeOK HandleIsOwn NothingLeaks
PROPERTIES ClosesOnlyItsOwn
