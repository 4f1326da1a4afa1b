\* Two entities whose documents, schema and policy change under queries and
\* staged transactions; two schema versions.  A behaviour may run out of them.
SPECIFICATION Spec
CONSTANTS
    i1 = i1 i2 = i2 f = f g = g role = role
    Null = Null Missing = Missing
    Id = {i1, i2}
    Field = {f, g}
    Value = {1, 2}
    Document <- MCDocument
    Schema <- MCSchema
    MaxVersion = 2
    FilterDepth <- MCFilterDepth
    PredicateDepth <- MCPredicateDepth
    Plan <- MCPlan
    Subject <- MCSubject
    CostLimit = 1
    Steps <- MCSteps
SYMMETRY Symmetry
INVARIANTS
    IndexHoldsRows
    UniqueHolds
    NoStaleEntries
    QueryEqualsScan
    
    EffectivePolicyIsSound
    
CHECK_DEADLOCK FALSE
