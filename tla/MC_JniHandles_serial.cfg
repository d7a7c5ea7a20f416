CONSTANTS
    Threads = {t1, t2}
    Addrs = {a1, a2}
    t1 = t1  t2 = t2  a1 = a1  a2 = a2
    Null = Null
    MaxMounts = 3
    LifecycleSerialised = TRUE
    OpsDrainedBeforeDestroy = TRUE
    BasedirTampered = FALSE

SPECIFICATION Spec

INVARIANT TypeOK
INVARIANT IsClosedAccurate
INVARIANT NoUseAfterFree
INVARIANT DestroyHitsOwnObject
PROPERTY RegistrySpec
