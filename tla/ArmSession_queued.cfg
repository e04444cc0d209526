CONSTANTS
    Nobody = Nobody
    s1 = s1
    s2 = s2
    Session = {s1, s2}
    Vr = {}
    MayDie = {}
    MayMirror = {s1}
    MayBreak = {}
SPECIFICATION Spec
INVARIANT QueuedForThisScene
