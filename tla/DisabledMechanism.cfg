CONSTANTS
  Builds <- MCBuilds
  Environments <- MCEnvironments
  FileSystems <- MCFileSystems
  Allowed <- MCAllowed
  Asked <- MCAsked
SPECIFICATION Spec
INVARIANT DisabledUnusable
