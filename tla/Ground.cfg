CONSTANTS
    Reports <- MCReports
    Answers <- MCAnswers
    Strengths = {7, 204}
    MaxFrames = 3
SPECIFICATION GroundSpec
INVARIANT FramesAsSent
CHECK_DEADLOCK FALSE
