\* Any sequence of add and remove calls on two owner names.
CONSTANTS
    n1 = n1  n2 = n2  v1 = v1  v2 = v2  TypeA = TypeA  ClassIN = ClassIN  ClassCH = ClassCH
    SOA = SOA
    Names <- MCNames
    Owner <- MCOwner
    RRs <- MCRRs
    MaxRR = 3
SPECIFICATION Spec
INVARIANT TypeOK
INVARIANT SingleSOA
PROPERTY RemoveSemantics
