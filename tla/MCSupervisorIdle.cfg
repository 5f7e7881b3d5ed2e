\* The watchdog's fail-safe: with every controller gone, the children end
\* up paused.
CONSTANTS
  c1 = c1
  c2 = c2
  Controllers <- MCControllers
  NumWorkers = 1
  StaleWindow = 1
  NoSender = NoSender

SPECIFICATION Spec

PROPERTY WorkersIdleWhenSilent
