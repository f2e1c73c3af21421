SPECIFICATION Spec
CONSTANTS
  Streams <- MCStreams
  BufSize = 4
  Header = 2
  Stale <- MCStale
INVARIANTS
  TypeOK
  FileIsWhatWasRead
  ReadsWholeResource
