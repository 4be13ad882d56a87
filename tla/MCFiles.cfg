CONSTANTS
  Order <- MCOrder  Sub = {"s/c"}  Limits <- MCLimits  MaxLines = 2  MaxChanges = 1
  Reviews = {"auto", "check"}  FindingLimit = 1  MaxRebuilds = 2  ReportOrder <- MCReportOrder
  Sources = {"src", "test", "doc"}  Folders = {".", "app"}  TopFolder = "."
  FolderOf <- FolderOfSource  EntryLimit = 3  ReadLimit = 2  CleanupLimit = 4
  MaxEdits = 1  MaxPackets = 2
  Nodes <- Tree  Up <- TreeUp  Proposed <- Becoming
  TransitionLimit = 2  TreeLimit = 2  TotalLimit = 2  DepthLimit = 1  MaxReplaced = 1
  Versions <- Policies  Size <- PolicySize  ChunkLimit = 2
  MaxFiles = 2  MaxDirs = 2  MaxWrites = 3
  ReportContents = {"r1", "r2"}  ReportErrors <- BundleErrors  MaxEvents = 3  MaxTampers = 1
  LatestReports <- MCLatestReports  Hooks <- MCHooks  Display = 2  Nothing = nothing
SPECIFICATION FilesSpec
INVARIANTS
  SummaryIsTrue ReportsAreHonest PacketsAreTrue InspectionIsTrue PolicyReadIsTrue
  VerifiedIsWhole CenterIsTrue
CHECK_DEADLOCK FALSE
