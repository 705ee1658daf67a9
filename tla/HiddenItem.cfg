CONSTANTS
  Keys = {1, 2, 3}
  Hash <- MCHash
  iSize = 2
  buckets = 2
  bucket_size = 2
  tableSize = 11
  PROBE_LEN = 3
SPECIFICATION BucketAlone
INVARIANT StoredIsFound
