SPECIFICATION Spec
INVARIANTS
  NothingHeldBack
  OpenLinesHaveHandlers
PROPERTIES
  RequestsHandled
  ClockKeepsGoing
