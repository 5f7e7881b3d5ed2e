\* The spec's single-writer rule for the active controller, under the
\* code's 3-second window.
CONSTANTS
  c1 = c1
  c2 = c2
  Controllers <- MCControllers
  NumWorkers = 1
  StaleWindow = 3
  NoSender = NoSender

SPECIFICATION Spec

PROPERTY HandoverOnlyAfterSilence
