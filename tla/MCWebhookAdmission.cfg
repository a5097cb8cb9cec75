SPECIFICATION Spec
CONSTANTS
    Names <- SomeNames
    Raws <- ManyRaws
INVARIANTS TypeOK OperatorWritesPass TiersCanRely
