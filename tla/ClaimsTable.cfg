SPECIFICATION FairTable
CONSTANTS
  Statuses = {all, draft, paid}
  Terms = {none, term}
  AllStatuses = all
  NoTerm = none
  MaxFetches = 1
INVARIANTS
  NotBusyIsSettled
  AddressDescribesTable
PROPERTY BusyEnds
