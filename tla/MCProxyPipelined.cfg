CONSTANT Profiles <- PipelinedClient
SPECIFICATION Spec
INVARIANTS InOrder
