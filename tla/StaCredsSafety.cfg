SPECIFICATION Spec
CONSTANTS
  MaxRequests = 3
  QueueLength = 2
INVARIANTS SavedIsConnected
PROPERTIES PasswordStaysWithNetwork BootUsesSavedSinceClear
