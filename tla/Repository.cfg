CONSTANTS
  Procs = {p1, p2, p3}
  Keys = {a, b, c, d, e}
  Invalid = {d, e}
  Texts <- SomeTexts
  Addresses <- SomeAddresses
  BootstrapPeers <- SomePeers
  Edits <- SomeEdits
  Unset = Unset
SPECIFICATION Spec
INVARIANT OneMaker
INVARIANT OneIdentity
INVARIANT OpenReadsTheFile
CHECK_DEADLOCK FALSE
