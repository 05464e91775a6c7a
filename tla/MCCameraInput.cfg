SPECIFICATION Spec
CONSTANTS
    MaxFrame <- MCMaxFrame
    MaxStream <- MCMaxStream
    Platform = {"darwin", "windows", "linux"}
    FormatList <- MCFormatList
    Codec = {"mjpeg", "h264"}
    Size <- MCSize
    Request <- MCRequest
    MaxLines = 2
INVARIANTS
    FramesAreCut
    RecommendationIsBest
CHECK_DEADLOCK FALSE
