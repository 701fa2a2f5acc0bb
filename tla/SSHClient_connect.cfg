\* NewClientInteractive over every environment of MCEnvs, then Close.  A
\* returned call has no further step, so deadlock is not checked.
CONSTANTS
    k1 = k1  k2 = k2  k3 = k3  f1 = f1  f2 = f2
    None = None
    Envs <- MCEnvs
    FileKey <- MCFileKey
SPECIFICATION Spec
INVARIANT ConnectedWithAcceptedKey
INVARIANT NoLeakedConnection
INVARIANT ErrorMeansNoUsableKey
CHECK_DEADLOCK FALSE
