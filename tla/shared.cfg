\* Main reads the capacity while the SPI task has a command under way.
SPECIFICATION SharedSpec
CONSTANTS
  Tasks = {"main", "spi"}
  TagMod = 8
INVARIANT OkIsPaired
CHECK_DEADLOCK FALSE
