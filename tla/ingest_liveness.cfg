\* The polling job beside a request, the failures that leave something behind, once each.
SPECIFICATION PollSpec
CONSTANTS
  Workers = {w1, w2}
  Requests = {obsA, crop}
  obsA = obsA
  obsB = obsB
  crop = crop
  Ids <- MCIds
  Keys <- MCKeys
  Bytes = {"a", "b", "c"}
  IdOf <- CutIdOf
  KeyOf <- CutKeyOf
  BytesOf <- CutBytesOf
  SourceOf <- CutSourceOf
  NoWorker = NoWorker
  NoRequest = NoRequest
  NoBytes = NoBytes
  Poller = w1
  MaxFaults <- LiveOnce
PROPERTIES
  CallsEnd
  EventuallyRegistered
