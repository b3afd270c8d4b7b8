SPECIFICATION Spec
CONSTANTS
  BufferLength = 2
  MaxRoom = 2
  MaxAnswer = 3
  MaxRounds = 4
  ConnectRounds = 2
  NtpRounds = 1
  DnsRounds = 2
INVARIANTS
  AnswerKept
