CONSTANTS
    Tags <- MCTags
    MaxRev <- MCMaxRev
SPECIFICATION Spec
INVARIANT PushImagePublishesOperator
PROPERTY StoreRefined
