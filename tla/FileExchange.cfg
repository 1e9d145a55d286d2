SPECIFICATION Spec
CONSTANTS
    N = 2
    File = {f, g}
    None = None
    MaxDownloads = 3
INVARIANTS TypeOK HarmlessWhenReady  RecordedFirst
PROPERTIES UploadReturns  RequestRecorded
CHECK_DEADLOCK FALSE
