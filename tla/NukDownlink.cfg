CONSTANTS
  U8 = 8
  RATIOS = {0, 1, 2, 5, 8}
  NUK_JIN_DEBUG = FALSE
  MAX_RECENT = 8
  SN_MOD = 4
  REORDERING_WINDOW = 2
  HFN_MOD = 4
  PATHS = {{"MeNB"}, {"SeNB"}, {"MeNB", "SeNB"}}
  SKEW = 2
  MAX_COUNT = 10
  WINDOW = 2
  MOD = 4
  GRANTS = {"tiny", "data", "seg", "full"}
  SDU_SIZES = {1, 2}
  TX_QUEUE_LENGTH = 1
  POLL_PDU = 1
  POLL_PERIODICITY = 8
  MAX_RETX_THRESH = 1
  SEGMENT_NACKS = {0}
  MAX_PDUS = 5
  MAX_RETX_QUEUE = 2
SPECIFICATION DownlinkSpec
INVARIANTS SplitTypeOK RatioKept SettingsObeyed CountMatches NextFollowsHighest TxTypeOK TxWindowContiguous
PROPERTIES RetxBeforeNewData
CHECK_DEADLOCK FALSE
