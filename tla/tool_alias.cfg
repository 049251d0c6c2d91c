CONSTANTS
  Sightings <- TheSightings
  Claude = {"s"}
  Never = Never
SPECIFICATION Spec
INVARIANT NativeIdsConverge
