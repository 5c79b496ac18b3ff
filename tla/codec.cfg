SPECIFICATION Spec
CONSTANTS
  Base = 12
  Zero = 1
  TypeMagic <- MCMagic
  Digits <- MCDigits
  Groups = 2
  GroupLen = 2
  PrefixMax = 3
  Logs <- MCLogs
  Ids = {6, 27, 144}
  Formats <- MCFormats
  Builds <- MCBuilds
  Sizes = {60}
  Bytes = {0, 1, 2, 11}
  Letters <- MCLetters
  MaxFiles = 1
  MaxChanges = 1
INVARIANTS VersionsAgree DamageStaysInField ReadOnce TextOrder OwnFilesOnly
CHECK_DEADLOCK FALSE
