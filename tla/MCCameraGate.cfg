SPECIFICATION Spec
CONSTANTS
    MaxPictures = 4
INVARIANTS
    InPhaseBindsRight
PROPERTY
    SettledIsAccepted
