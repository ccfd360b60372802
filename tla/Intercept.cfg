CONSTANTS
    Apps = {t1, t2}
    Daemons = {d1}
    Main = t1
    Pages = 2
SPECIFICATION Spec
INVARIANTS
    TypeOK
    InternalCallsAreNative
    MappingsAreManaged
