SPECIFICATION FairSpec
CONSTANTS
  r1 = r1
  r2 = r2
  c1 = c1
  Rpc = {r1, r2}
  max_consecutive <- Rows
  min_time_delta <- Rests
  ma_length <- NoSample
  Req = {c1}
  max_retries = 2
  ttl = 1
  Durations = {1}
  MaxClockBack = 1
  MaxClockAhead = 1
INVARIANTS TypeOK RowRespected RateRespected
PROPERTY RequestsEnd
