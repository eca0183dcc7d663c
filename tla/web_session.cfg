SPECIFICATION Spec
CONSTANTS
  Tabs = {t1, t2}
  Settings <- AllSettings
  MaxHops = 2
  MaxTokens = 3
  MaxVersion = 1
SYMMETRY Symmetry
INVARIANTS ServedOnlyWhileCurrent  NoRedirectLoop
PROPERTIES SessionNeverGoesBack
