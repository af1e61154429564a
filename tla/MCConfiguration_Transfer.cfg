SPECIFICATION TransferSpec
CONSTANTS
  Names = {"x", "X"}
  Hosts = {"h", "k"}
  LowerName <- MCLowerName
  Saved <- MCSaved
  SavedIds = 8
  ImportFiles <- MCImportFiles
  MaxHandled = 2
  MaxSteps = 1
  MaxPresets = 2
  MaxFailures = 0
INVARIANT ReferencesHold
INVARIANT ProfileRestores
INVARIANT MergeTwice
INVARIANT OwnExportAddsNothing
INVARIANT ReplaceRestores
