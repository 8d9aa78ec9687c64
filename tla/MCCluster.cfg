CONSTANTS
    UserImages <- MCUserImages
    DefaultHasCrds = TRUE
SPECIFICATION Spec
INVARIANT TypeOK
INVARIANT DeployRunsRequestedImage
INVARIANT UndeployRemovesController
PROPERTY ClusterRefined
