SPECIFICATION FairSpec
CONSTANTS
  na = na  nb = nb  nc = nc
  t1 = t1  t2 = t2
  create = create  hook = hook  start = start  linked = linked
  add = add  pass = pass  fire = fire  update = update  obj = obj
  late = late  later = later  final = final
  None = None
  Nodes = {na, nb, nc}
  Node0 = na
  Tasks = {t1, t2}
  Msgs = {create, hook, start, linked, add, pass, fire, update, obj, late, later, final}
  Home <- FullHome
  StartedBy <- FullStart
  Program <- FullProgram
  Kind <- FullKind
  To <- FullTo
  Sends <- FullSends
  SendsAfter <- FullAfter
  Requires <- FullRequires
INVARIANT ConfirmationsSound
PROPERTIES ImplementsPromise EverythingSettles
