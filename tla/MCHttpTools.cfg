SPECIFICATION Spec
CONSTANTS
  Sites <- TwoSites
  Late <- Evil
  Events <- Flash
  One = 4
  MaxPages <- PagesOf
  Scripts <- TwoScripts
  Modes = {"socket", "direct"}
  Content <- Pages
CHECK_DEADLOCK FALSE
INVARIANTS
  SpecialsCount
  NoneLeftOpen
  Answered
