CONSTANTS
  f = f  c = c  d = d  b1 = b1  b2 = b2  r1 = r1  r2 = r2  r3 = r3
  Objects = {f, c, d, b1, b2}
  Files = {f}
  Embeds <- Crossed
  Requests = {r1, r2, r3}
  Kinds = {"upload", "reanalyze"}
  NoAnalysis = NoAnalysis
  UseKartonId = TRUE
  MayCrash = TRUE
  MayRefuse = TRUE
SPECIFICATION MCFairSpec
CHECK_DEADLOCK FALSE
INVARIANTS ContentStored EmbeddedLinked CreatedMeansAnalyzed OneTaskPerUpload
PROPERTIES UploadsEnd
