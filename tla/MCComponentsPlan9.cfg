\* Plan 9 versions 5 and 6, Halcyon versions 2 and 514, two retarget
\* results below the first pow limit; blocks of up to three bytes and up
\* to two bytes after each encoding.  Conn: three writes of payloads of up
\* to two bytes, a 13-byte atomic write (a frame of more than one payload
\* byte may be cut) and an 8-byte read buffer.
CONSTANTS
  AlgoVers <- MCAlgoVers
  HalcyonVers <- MCHalcyonVers
  Targets <- MCTargets
  SecondPowLimitBits <- MCSecondPowLimitBits
  Payloads <- MCPayloads
  Tails <- MCTails
  solA = solA
  solB = solB
SPECIFICATION WireSpec
INVARIANT TemplateTargetsMatchValidation
