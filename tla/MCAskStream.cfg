SPECIFICATION FairSpec
CONSTANTS
  Admin = Admin
  Streams = {s1, s2}
  Users = {u1}
  DailyMax = 1
  MaxDeltas = 1
INVARIANTS
  TypeOK
  QuotaOvershoot
  OneRecordPerQuestion
PROPERTIES
  ImplementsTranscript
  StreamsEnd
