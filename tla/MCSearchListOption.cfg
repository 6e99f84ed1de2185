SPECIFICATION FairSpec
CONSTANTS
  Raws <- McRaws
  Built <- McBuilt
  Lists <- McLists
  NotSent = NotSent
INVARIANTS
  TypeOK
  DecodedIsSayable
  ReadsWhatIsThere
  RoundTrip
  NamesRoundTrip
  OffsetsNameSuffixes
  SuffixSpelledOnce
  SearchListArrives
PROPERTIES
  LoopsEnd
CHECK_DEADLOCK FALSE
