\* Start, Close, promotions and syncs in any order.
CONSTANTS
  Handlers = {h1, h2}
  Worker = Worker
  Nobody = Nobody
  InitialBackoff = 2
  MaxBackoff = 7
  MaxFailures = 3
  MaxGaps = 1
  MaxPromotions = 2
SPECIFICATION WorkerLiveSpec
INVARIANTS WorkerRestored NothingAfterClose
PROPERTIES KeepsSyncing CloseReturnsAlone
CHECK_DEADLOCK FALSE
