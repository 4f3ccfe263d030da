SPECIFICATION FramesSpec
CONSTANTS
  MaxLen = 32
  Codes <- MCCodes
  Channels <- MCChannels
  Digits <- MCDigits
  Span <- MCSpan
  Barcodes <- MCBarcodes
  Texts <- MCTexts
INVARIANT
  RightFramesVerify
