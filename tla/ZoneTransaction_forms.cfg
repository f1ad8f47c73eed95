SPECIFICATION Spec
CONSTANTS
    None = None
    Names = {n1}
    Types <- AllTypes
    Rdatas = {1, 2}
    RdatasOf <- MCRdatasOf
    Single <- MCSingle
    KindOf <- MCKindOf
    Readers = {r1}
    Objs = {1, 2, 3}
    MakeImmutable = TRUE
    EmptyTypes = {"CNAME"}
    OtherForms = TRUE
INVARIANTS
    EitherFormWorks
