CONSTANTS
  Targets = {"zkvm", "qemu", "qemu_user", "amd64", "wamr", "wamr_aarch64", "standalone"}
  Codes = {0, 2, 256, 511}
  Scripts <- MCScripts
  Cases <- MCCases
SPECIFICATION BSpec
INVARIANTS EndShows RecordedIsGenuine ReportComplete
PROPERTIES ShutdownIsFinal HarnessEnds
