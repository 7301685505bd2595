SPECIFICATION Spec
CONSTANTS
  m1 = m1
  m2 = m2
  m3 = m3
  A = A
  B = B
  Mirrors = {m1, m2, m3}
  Listing <- ListingOf
  Country <- CountryOf
  MirrorScore <- ScoreOf
  Strict = {m1, m3}
  Relaxed = {m1, m2, m3}
  AllowedCountries = {}
  NumMirrors = 1
  Predefined <- PredefinedOf
  Methods = {"Auto", "Predefined"}
  NumEndpoints = 2
  NumAttempts = 3
  RefreshAfter = 1
PROPERTIES FullTestAtIntervals
