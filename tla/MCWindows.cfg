SPECIFICATION Spec
CONSTANTS
  FirstDay = 340
  LastDay = 405
  MaxGap = 7
  None = None
  Uids = {"action-de", "aldi-nord-de", "aldi-nord-de-preview", "aldi-sued-de",
    "aldi-sued-de-preview", "aldi-sued-de-preview-2", "edeka-markt-de", "hofer-au",
    "hofer-au-preview", "kaufland-de", "kaufland-de-preview", "kaufland-sonder-de", "kik-de",
    "lidl-de", "lidl-de-preview", "lidl-de-preview-2", "lidl-it", "metro-de", "metro-de-preview",
    "netto-de", "netto-de-preview", "norma-de", "norma-de-preview", "norma-de-preview-2",
    "norma-de-retrospect", "norma-de-retrospect-2", "penny-de", "penny-de-preview", "rewe-de",
    "rewe-de-preview", "rossmann-beilage-de", "rossmann-aktion-de"}
INVARIANTS TypeOK WindowsHoldTheDay WeekAgainstCalendar
PROPERTIES AddressTellsWindow WindowsTile
