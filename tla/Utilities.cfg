SPECIFICATION Behaviour
CONSTANTS
  HEAP_SIZE = 271500
  Layouts <- SomeLayouts
  CMND_RING_TRBS = 14
  TRBS_PER_RING = 256
  EVENT_TRBS = 4096
  PageSize = 4096
  ContextSize = 32
  ScratchBuffers = 2
  MaxFailures = 1
  BLOCK_SIZE = 2
  FileLengths <- SomeFiles
  KEY_BUFFER_SIZE = 4
  Keys = {"LSHIFT", "CAPSLCK", "UP", "ESC", "LALT"}
  MaxKeyEvents = 3
  Moves <- SomeMoves
  MaxPackets = 2
  mem_init <- SomeRegions
  MEM_END = 700
  RequestSizes = {70, 140}
  MaxHeld = 3
  m_clusters_in_data_area = 8
  SLOTS = 3
  ROOT_SLOTS = 8
  FOLDER_CLUSTERS = 2
  Host <- SomeHost
  MaxEntries = 3
INVARIANTS MachineTypeOK AnswersMatch ReadsAreDelivered NeverTorn RingInOrder OneOfPair
INVARIANTS PlaysInOrder PlaysToTheEnd NoStuckModifier LedsFollow PacketApplied LoaderListWhole FilesIntact SpaceAccounted
PROPERTIES UtilityEnds KeysArrive LoaderIsHeap
CHECK_DEADLOCK FALSE
