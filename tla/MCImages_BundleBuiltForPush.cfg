CONSTANTS
    Tags <- MCTags
    MaxRev <- MCMaxRev
SPECIFICATION Spec
INVARIANT BundleBuiltForPush
