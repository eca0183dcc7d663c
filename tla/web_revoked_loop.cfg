SPECIFICATION Spec
CONSTANTS
  Tabs = {t1}
  Settings <- Revoked
  MaxHops = 4
  MaxTokens = 3
  MaxVersion = 1
INVARIANTS LoginIsPublic
