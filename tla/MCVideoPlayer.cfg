CONSTANTS
  EndFrame = 2
  PreloadFrames = 1
  MaxOld = 1
  NoTarget = NoTarget
SPECIFICATION Spec
INVARIANT TypeOK SeekingHasStream PendingOnlyWhileSeeking LastSeekWins ClockNamesFrame RestartEndsWithPicture
PROPERTY UIReturns OldStreamsEnd PlaysOn
