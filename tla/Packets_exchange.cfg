SPECIFICATION Spec
CONSTANTS
  Command <- Commands
  Noisy <- NoisyCommands
  MaxFlips <- Flips
INVARIANTS TypeOK HeardAsMeant QuietExchange DamageIsNoticed
