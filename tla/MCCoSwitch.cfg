SPECIFICATION FairSpec
CONSTANTS
  Main = main
  Coexpr = {main, c1, c2}
  MaxThreads = 2
  A_Coact = A_Coact
  Signal = {A_Coact, A_Coret}
INVARIANTS
  TypeOK
  OneAtATime
  RunsCurrent
  SignalDelivered
  FlagWritten
  ContextsReady
  VictimLeaves
PROPERTIES
  ImplementsCoroutine
  SwitchCompletes
  CleanCompletes
