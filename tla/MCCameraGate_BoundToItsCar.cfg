SPECIFICATION Spec
CONSTANTS
    MaxPictures = 4
INVARIANT
    BoundToItsCar
