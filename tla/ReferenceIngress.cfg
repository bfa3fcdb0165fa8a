SPECIFICATION Spec
CONSTANTS
  Bindings <- MCBindings
  MaxChanges = 2
INVARIANTS
  RefusedInstallChangesNothing
  SubscribedIsCaptured
