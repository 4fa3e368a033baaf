SPECIFICATION Spec
CONSTANT Attempts = 2
INVARIANTS NoForeignSignal RegistryRemembers OneWriter CompletedIsGone CanceledIsStill
CHECK_DEADLOCK FALSE
