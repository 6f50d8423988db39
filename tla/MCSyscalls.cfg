CONSTANTS
  Ata <- MCAta
  Video <- MCVideo
  Devman <- MCDevman
  Kb <- MCKb
  NameMax = 8
  DirentMax = 12
  Letters <- MCLetters
  Nul = "nul"
  Junk <- MCJunk
  Stacks <- MCStacks
  Handles = {1, 2}
  MaxListings = 2
SPECIFICATION SyscallSpec
INVARIANTS SyscallTypeOK CarefulNeverWild ListsDevices
CHECK_DEADLOCK FALSE
