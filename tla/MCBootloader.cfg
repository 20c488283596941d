SPECIFICATION Spec
CONSTANTS
  BITS = 8
  SECTOR = 5
  FLASH_N_SECTORS = 3
  FIELD_BYTES = 2
  MinGap = 4
  MaxGap = 6
  CallGap = 20
  Mains = {"bootloader", "flash_test"}
  Images <- MCImages
INVARIANTS ControllerTypeOK ReceivesWhatIsSent CopiesImage
PROPERTIES StartsAtRest Finishes
