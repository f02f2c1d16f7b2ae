CONSTANTS
  Threads = {manager, app}
  Ops = {"gps_init", "gps_deinit", "get_gps_data", "gsm_at_cmd", "send_sms", "agps_init"}
  LinkTests = 1
  LockCap = 3
SPECIFICATION FairSpec
INVARIANTS TypeOK AtPortOwned PortStable
PROPERTIES CallsReturn LocksSpec
