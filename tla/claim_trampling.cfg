SPECIFICATION Spec
CONSTANTS
  grass = grass
  wall = wall
  tree = tree
  odd = odd
  rgba16 = rgba16
  dxt1 = dxt1
  rgba32f = rgba32f
  bindless = bindless
  indirect = indirect
  t1 = t1
  t2 = t2
  s1 = s1
  s2 = s2
  e1 = e1
  e2 = e2
  r1 = r1
  a1 = a1
  debug = debug
  gui = gui
  v1 = v1
  Mixes <- MCMixes
  MaxQueue = 1
  MaxLocks = 10
  Textures = {t1, t2}
  Shapes = {s1, s2}
  MostGlyphs = 4
  Elements = {e1, e2}
  Rows = {r1}
  Parts = {a1}
  WholeOf <- MCWholeOf
  Places = {1, 2}
  MostDrawn = 3
  Fonts <- MCFonts
  MaxRes = 16
  Texts <- MCTexts
  Garbage = {0, 4}
  Images = {grass, wall, tree, odd}
  Kinds = {rgba16, dxt1, rgba32f}
  FontKind = rgba32f
  KindOf <- MCKindOf
  TypeOf <- MCTypeOf
  Levels = 2
  Extensions <- MCExtensions
  Needed = {bindless, indirect}
  Headers <- MCHeaders
  MaxEras = 2
  CircleVerts = 3
  MostPoints = 3
  MostShapes = 2
  Programs = {debug, gui}
  Names = {1, 2}
  Arrays = {v1}
  MaxAttributes = 1
  Screens = {"small", "large"}
  Positions = {"here", "there"}
  Heights = {0, 1, 2, 3, 5}
  ScaleRanges <- MCScaleRanges
  Zooms = {1}
  Samples = 3
  Works = {1, 4, 7}
  Waits = {0, 3}
  Desired = 4
  MaxFrames = 4
INVARIANT NoTrampling
