\* Words of 8 bytes: a header is two words, and a block two (eight in the code,
\* which only makes the arena longer).  18 words hold four one-block segments,
\* or nine empty ones, and leave rests too short for a segment.
CONSTANTS
  HeapStart = 32
  HeapSize = 18
  Header = 2
  BlockSize = 2
  Requests = {0, 1, 2, 3, 4}
  Sizes = {0, 1, 2, 3, 5, 8}
SPECIFICATION SpecWords
INVARIANTS TypeOK NoOverlap InHeap Covered Coalesced WordsAgree
PROPERTY HeapPromise
