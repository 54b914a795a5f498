SPECIFICATION Spec
CONSTANTS
  lib = lib
  app = app
  page = page
  page1 = page1
  base = base
  use = use
  lib1 = lib1
  lib2 = lib2
  lib3 = lib3
  app1 = app1
  app2 = app2
  base1 = base1
  base2 = base2
  use1 = use1
  use2 = use2
  f = f
  g = g
  B = B
  C = C
  N = N
  toLib = toLib
  toIndex = toIndex
  package = package
  Files = {lib, app, page, base, use}
  Texts = {lib1, lib2, lib3, app1, app2, page1, base1, base2, use1, use2}
  Names = {f, g, B, C, N}
  Specifiers = {toLib, toIndex, package, N}
  Absent = Absent
  External = External
  NoTarget = NoTarget
  Language <- MCLanguage
  Versions <- MCVersions
  Declares <- MCDeclares
  Refers <- MCRefers
  Tries <- MCTries
  EndsIn <- MCEndsIn
  MaxAmbiguous = 1
  Flaky = {use}
  ThresholdPct = 50
  MaxEdits = 3
INVARIANTS ReferentialIntegrity UnresolvedIsUnmatched UsingIsComplete
PROPERTY Implements
CHECK_DEADLOCK FALSE
