SPECIFICATION Spec
CONSTANTS
  api = api
  reverse = reverse
  web = web
  NoSource = NoSource
  Requests = {r1}
  Streams = {r1}
  Stateful = {}
  Sources = {api, reverse, web}
  Contract = {api}
  Wire = {api, reverse}
  Web = {web}
  Price <- Prices
  Budget = 3
  GroupAttempts = 2
  MaxIngress = 2
  MaxBytes = 6
  Upload = 4
  Retained = 2
  StreamBytes = 2
  Chunk = 1
  CaptureLimit = 1
  MaxFrames = 2
INVARIANTS EveryLeaseRecorded
CHECK_DEADLOCK FALSE
