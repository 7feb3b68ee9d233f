SPECIFICATION Spec
CONSTANTS
  Urls = {cover, mirror, odd, private, garbled}
  Public = {cover, mirror, odd}
  Unjoinable = {garbled}
  Unrequestable = {odd}
  NoUrl = NoUrl
  MaxRedirects = 2
  MaxBytes = 3
  MaxChunk = 2
INVARIANTS
  FailuresFallBackToText
