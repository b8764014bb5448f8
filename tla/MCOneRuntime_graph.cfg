SPECIFICATION Spec
CONSTANTS
  main = main  tF = tF  cp = cp  w = w  u = u  tX = tX  cb = cb  fin = fin
  oMain = oMain  oF = oF  oCp = oCp  oW = oW  oU = oU  oX = oX  oCb = oCb  oFin = oFin
  ch = ch  me = me  g1 = g1  g2 = g2  dB = dB  dF = dF  k0 = k0  k1 = k1  p = p  disk = disk
  tm = tm  tw = tw  tc = tc
  i1 = i1  v1 = v1  v2 = v2  l1 = l1  l2 = l2
  Tasks = {main, tF, cp, w, u, tX, cb, fin}
  Main = main
  Finish = {tF}
  Depc <- GraphDepc
  Output <- OutputOf
  Result <- GraphResult
  Program <- GraphProgram
  Templates = {tm, tw, tc}
  TemplateOf <- TemplatesOf
  CopyTemplate = tc
  Events = {oMain, oF, oCp, oW, oU, oX, oCb, oFin, ch, me, g1, g2}
  Type <- TypeOf
  Blocks = {dB, dF, k0, k1, p}
  Files = {disk}
  Contents <- FileBefore
  Names = {v1, v2}
  Lids = {l1, l2}
  Labels = {i1}
  Guids <- GuidsOf
  Null = Null
  Left = {dB, tc}
  Saved <- FileAfter
INVARIANT RunsToOneResult
PROPERTY ImplementsPromise
