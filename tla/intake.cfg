SPECIFICATION Spec
CONSTANTS
  MaxTitle = 2
  Letter = {"song", "dot", "space", "slash", "thai", "wide", "quote", "pct"}
  Plain = {"song", "dot", "space", "quote"}
  RawName <- Names
  Part = {1, 2}
  FieldCost = 1
  MaxUpload = 4
  MaxFields = 2
INVARIANTS
  IntakeTypeOK
  RowKeepsItsFile
  AnswerTellsTheTruth
  ScratchIsCleared
  BodyLimitComesFirst
  NamesAreUsable
  HeaderCarriesTitle
  WhatDemucsIsGiven
CHECK_DEADLOCK FALSE
