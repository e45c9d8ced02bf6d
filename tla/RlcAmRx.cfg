CONSTANTS
  PAYLOADS = {0}
  RF = {TRUE, FALSE}
  MAX_DELIVERED = 4
  WINDOW = 3
  MOD = 6
  T_STATUS_PROHIBIT = TRUE
  MAX_NACK_GRANTS = {3}
SPECIFICATION RxSpec
INVARIANTS RxTypeOK RxWindowOrder OnlyGapsBlock GapIsTimed
PROPERTIES VrMsMonotone
