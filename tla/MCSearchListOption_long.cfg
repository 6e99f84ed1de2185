SPECIFICATION SearchSpec
CONSTANTS
  Raws <- NoRaws
  Built <- NoOptions
  Lists <- McFar
  NotSent = NotSent
INVARIANTS
  SerializedDecodesAgain
CHECK_DEADLOCK FALSE
