SPECIFICATION Spec
CONSTANTS
  Acts = {a1, a2, a3}
  lib = lib
  app = app
  alt = alt
  tool = tool
  gen = gen
  out = out
  base = base
  hdr = hdr
  lnk = lnk
  rule = rule
  Files = {lib, app, alt, tool, gen, out}
  SourceFiles = {lib, app, alt}
  Tags = {base, hdr, lnk}
  DefaultTag = base
  Builtin = {rule}
  BuiltinTriggers <- RuleOnBase
  Learned = Learned
  Root = Root
  None = None
  Rank <- AnyRank
  Fleeting = {}
  MaxConcurrent = 2
  Looks <- CycleLooks
  Makes <- CycleMakes
  Learns <- Nothing
SYMMETRY Symmetry
INVARIANTS
  OneOwner
  FreshChoice
  NoIdleSlot
  ReportIsCurrent
  NoSelfReset
  
