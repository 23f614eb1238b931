\* Two clients, a 3-byte reply, one send error code; size_t scaled to 4 bits
\* (TLC integers are 32-bit signed, so 2^32 itself cannot be used).
CONSTANTS
  MaxClients = 2
  ToSend = 3
  SendErrors <- MCSendErrors
  SizeModulus = 16
SPECIFICATION Spec
PROPERTY SendProgressIsSound
