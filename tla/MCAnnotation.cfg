CONSTANTS
  NoDoc = NoDoc
  lesson = lesson
  Docs <- MCDocs
  Places <- MCPlaces
  Layers <- MCLayers
  MergeEvery = 2
  MaxMarks = 2
  MaxStrokes = 2
  MaxOps = 2
  MaxFails = 1
  NoFile = NoFile
  Torn = Torn
SPECIFICATION Spec
INVARIANT TypeOK IndexFresh NoStub BoardIsKept SavedAtFrameEnd ExitKeepsBoard
PROPERTY EraserReachesAll CopyIsWhole
