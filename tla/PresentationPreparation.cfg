SPECIFICATION Spec
CONSTANTS
  SpaceWidth = 25
  EllipsisWidth = 80
  LabelWidth = 400
  Presentations <- MCPresentations
  Images <- MCImages
  Views <- MCViews
  Scales = {1, 2}
  RecentLimit = 2
  GradientLimit = 2
  MaxTexture = 256
  Amounts <- MCAmounts
CHECK_DEADLOCK FALSE
PROPERTIES
  AsPreparedAnew
  MetadataFits
  UnchangedStays
  WordsTravelInPlace
  RolesInPlace
