SPECIFICATION FairSpec
CONSTANT Jobs <- MCNoStart
PROPERTY AbortFreesUploaders
