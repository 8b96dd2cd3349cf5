SPECIFICATION UsersSpec
CONSTANTS
  MaxItems = 2
  Deciders = {u1, u2}
  MaxDrops = 1
  Tokens = {"accent", "surface"}
  Colours = {1, 2}
  Manifest <- MCManifest
  DefaultTheme = 2
  Asks <- MCAsks
  Legacy <- MCLegacy
  Setters = {1, 2}
  ThemeLimits <- MCThemeLimits
SYMMETRY SameDeciders
VIEW Moving
CHECK_DEADLOCK FALSE
INVARIANTS OutcomeIsVerdict FeedIsSound AttentionSettles ThemeIsSaved ThemeArrives
