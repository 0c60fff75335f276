CONSTANTS
  Requests = {q1, q2}
  Conns = {k1}
  Actions = {"GetLocalListVersion", "SendLocalList", "UnlockConnector", "ChangeAvailability", "ClearCache", "GetConfiguration", "ChangeConfiguration", "UpdateFirmware", "GetDiagnostics", "SetChargingProfile", "ClearChargingProfile", "GetCompositeSchedule", "ReserveNow", "CancelReservation", "TriggerMessage", "RemoteStartTransaction", "RemoteStopTransaction"}
  Args = {x1}
  None = None
SPECIFICATION Spec
SYMMETRY Symmetry
INVARIANTS
  TypeOK
  SettledStatus
PROPERTY UsedNotCancelled
CHECK_DEADLOCK FALSE
