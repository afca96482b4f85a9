SPECIFICATION HarnessSpec
CONSTANT MaxLaunches = 3
INVARIANTS OneDriverPerDirectories NoStrayTermination NothingLeft
PROPERTIES TestEnds NotStranded
CHECK_DEADLOCK FALSE
