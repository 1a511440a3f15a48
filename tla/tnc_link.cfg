SPECIFICATION FairLinkSpec
CONSTANTS
  Ax25Frame <- Frames
  Ignored <- TooShort
  IdleFends = {1, 2}
  MaxIdle = 1
  MaxFrames = 2
  MaxBreaks = 1
INVARIANT BufferIsOneBeginning
PROPERTIES ImplementsFrameChannel NoneLost BackOnline
