CONSTANTS
  WINDOW = 2
  MOD = 4
  GRANTS = {"seg", "full"}
  SDU_SIZES = {1}
  TX_QUEUE_LENGTH = 1
  POLL_PDU = 1
  POLL_PERIODICITY = 8
  MAX_RETX_THRESH = 1
  SEGMENT_NACKS = {}
  MAX_PDUS = 5
  MAX_RETX_QUEUE = 1
  T_STATUS_PROHIBIT = TRUE
  MAX_NACK_GRANTS = {0, 2}
  FAULTS = {{"loss", "reestablish"}, {"reorder_dl"}}
  MAX_LOSS = 1
  MAX_REORDERED = 4
  MAX_DL = 2
  MAX_UL = 1
SPECIFICATION Spec
INVARIANTS InOrderDelivery AckedWasReceived SnNamesOnePayload
PROPERTIES DeliverySpec
CHECK_DEADLOCK FALSE
