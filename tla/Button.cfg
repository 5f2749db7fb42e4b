\* A pin that moves at any moment, polls up to two thresholds apart.
CONSTANTS
  Threshold = 3
  MaxLag = 6
SPECIFICATION Spec
PROPERTY ReportsApart
