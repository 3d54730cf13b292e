\* Two workers on a changing observation, every kind of failure once.
SPECIFICATION Spec
CONSTANTS
  Workers = {w1, w2}
  Requests = {obsA, obsB}
  obsA = obsA
  obsB = obsB
  crop = crop
  Ids <- MCIds
  Keys <- MCKeys
  Bytes = {"a", "b", "c"}
  IdOf <- CutIdOf
  KeyOf <- CutKeyOf
  BytesOf <- CutBytesOf
  SourceOf <- CutSourceOf
  NoWorker = NoWorker
  NoRequest = NoRequest
  NoBytes = NoBytes
  Poller = NoWorker
  MaxFaults <- EachOnce
SYMMETRY WorkerSymmetry
INVARIANTS
  TypeOK
  MutualExclusion
  RowBackedUnlessOutlived
  AcknowledgedIsCommitted
  CleanupIsOwn
  OrphansAccounted
PROPERTIES
  ImplementsRegistry
