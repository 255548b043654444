SPECIFICATION RetrySpec
CHECK_DEADLOCK FALSE
CONSTANTS
  Options = {"patchram", "baudrate", "use_baudrate_for_download", "no2bytes", "scopcm", "enable_hci"}
  Records = 2
  Refused = {"update_baud_rate", "launch_ram"}
  MaxRetries = 2
INVARIANTS TypeOK AnswersMatch SpeedsAgree HandoverQuiet FirmwareComplete
PROPERTIES PromptChipFinishes SlowChipFinishes
