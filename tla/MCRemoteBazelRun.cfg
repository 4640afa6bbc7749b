CONSTANTS
  RemoteNames = {"origin", "fork"}
  UserFiles <- MCUserFiles
  SetIds = {"s1", "s2"}
  FilesOf <- MCFilesOf
  ExitCodes = {0, 1}
  Commands = {"build", "run", "test"}
  MaxInvocations = 2
SPECIFICATION Spec
INVARIANT TypeOK
INVARIANT ArtifactsNeverPatched
INVARIANT RemoteStableAcrossInvocations
CHECK_DEADLOCK FALSE
