CONSTANT Profiles <- AllClients
SPECIFICATION Spec
INVARIANTS NothingLost ErrHasCause
PROPERTIES ImplementsChannel QueryAnswered HandlerReturns
