SPECIFICATION FairSpec
CONSTANTS
  c1 = c1
  c2 = c2
  c3 = c3
  rtl = rtl
  sb = sb
  Cards = {c1, c2, c3}
  NameOf <- MCNameOf
  Serial <- MCSerial
  NBits = 3
  NPorts = 2
  Letters = 3
  SuperIo = umc
INVARIANTS
  TypeOK
  OneCardAnswers
  CsnsDiffer
  EveryCardDumped
  QuietAtExit
PROPERTIES
  Terminates
