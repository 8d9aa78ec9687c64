CONSTANTS
    UserImages <- MCUserImages
    DefaultHasCrds = TRUE
SPECIFICATION Spec
INVARIANT BundleNamesImage
