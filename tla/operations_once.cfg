\* operations_once: see README.md
CONSTANTS
    o1 = o1
    o2 = o2
    h1 = h1
    h2 = h2
    Ops = {o1}
    Handlers = {h1, h2}
    Kinds = {"start", "stop", "control", "order"}
    MaxRestarts = 2
    Faults = {"expiry", "dropped", "duplicate", "engine_ends", "raises", "slow"}
SPECIFICATION Spec
CHECK_DEADLOCK FALSE
SYMMETRY Symmetry
INVARIANTS AtMostOnce EffectIsOnRecord
