SPECIFICATION DetectorSpec
CONSTANTS
  Time <- MCTime
  NoteEvent <- MCNoteEvent
  Measures <- MCMeasures
  Callers <- MCCallers
INVARIANTS
  FramesAreTheSoundingTime
  FramesAreMaximal
  SegmentsTileTheFrames
  NoSegmentSpansSilence
  SegmentHasOneHarmony
  ObservationsAreValid
  SegmentsAgreeWithTheEvidence
  PedalsAreWholeNotes
\* The functions return: after the last call there is nothing left to do.
CHECK_DEADLOCK FALSE
