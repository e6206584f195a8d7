CONSTANT
  MaxChanges <- MCMaxChanges
SPECIFICATION Spec
INVARIANTS TypeOK RunsUnderTheStub NoStubWithoutPlugin
PROPERTY RestartingEnds
