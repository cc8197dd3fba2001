SPECIFICATION Spec
CONSTANTS
    Tenants = {t1, NoTenant}
    NoTenant = NoTenant
    Readers = {r1, r2}
    Handlers = {h1}
    MaxSeq = 4
SYMMETRY MCSymmetry
INVARIANTS
    TypeOK
    LinksAreRows
    SequentialChainsValid
PROPERTY
    BreaksArePermanent
