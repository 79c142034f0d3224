CONSTANTS
  MAX_NUMBER = 5
  AckLifetime = 2
  MaxACK = 11
SPECIFICATION AckSpec
INVARIANTS SampleIsOfItsACK OutstandingIsYoung
