SPECIFICATION Spec
CONSTANTS
  FirstDay = 340
  LastDay = 405
  MaxGap = 7
  None = None
  Uids = {"norma-de-retrospect-2", "hofer-au", "hofer-au-preview", "kik-de"}
INVARIANT WindowsAsDocumented
