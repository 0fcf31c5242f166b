CONSTANTS
  a = a
  b = b
  c = c
  la = la
  lba = lba
  TrueLemma = TrueLemma
  Open = Open
  Term <- MCTerms
  Lemma <- MCLemmas
  BodyOf <- MCBodyOf
  Entailments <- MCEntailments
  Ineligible = {c}
  Arity = 2
  MaxLevel = 2
SPECIFICATION InstSpec
INVARIANTS
  LostOnlyByInterruption
  MasksAreSound
