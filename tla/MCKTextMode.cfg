SPECIFICATION Spec
CONSTANTS
  Width = 2
  Height = 3
  TabStop = 1
  Glyphs <- MCGlyphs
  Space = " "
  Plain <- MCPlain
  ForeColors <- MCForeColors
  BackColors <- MCBackColors
  Places <- MCPlaces
  Texts <- MCTexts
INVARIANTS
  TypeOK
  ScreenSound
PROPERTIES
  WritingComesBack
