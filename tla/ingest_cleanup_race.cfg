\* A commit that fails beside another ingest of the same observation.
SPECIFICATION Spec
CONSTANTS
  Workers = {w1, w2}
  Requests = {obsA}
  obsA = obsA
  obsB = obsB
  crop = crop
  Ids <- MCIds
  Keys <- MCKeys
  Bytes = {"a", "b", "c"}
  IdOf <- CutIdOf
  KeyOf <- CutKeyOf
  BytesOf <- CutBytesOf
  SourceOf <- CutSourceOf
  NoWorker = NoWorker
  NoRequest = NoRequest
  NoBytes = NoBytes
  Poller = NoWorker
  MaxFaults <- CommitOnce
INVARIANTS
  RowBacked
