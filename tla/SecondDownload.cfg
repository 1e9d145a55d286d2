SPECIFICATION Spec
CONSTANTS
    N = 2
    File = {f, g}
    None = None
    MaxDownloads = 2
INVARIANT DownloadCorrect
CHECK_DEADLOCK FALSE
