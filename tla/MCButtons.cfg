\* Two keys: one to press and one to disturb it.
SPECIFICATION Spec
CONSTANT Keys = {1, 8}
INVARIANTS
    HandlerFindsWork
    IsrReadsAnEdge
PROPERTIES
    LonePressObeyed
    GameGoesOn
