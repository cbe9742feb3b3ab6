SPECIFICATION Spec
CONSTANTS
  Acts = {a1, a2, a3, a4}
  lib = lib
  app = app
  alt = alt
  tool = tool
  gen = gen
  out = out
  base = base
  hdr = hdr
  lnk = lnk
  rule = rule
  Files = {lib, app, alt, tool, gen, out}
  SourceFiles = {lib, tool}
  Tags = {base, hdr, lnk}
  DefaultTag = base
  Builtin = {rule}
  BuiltinTriggers <- RuleOnBase
  Learned = Learned
  Root = Root
  None = None
  Rank <- AnyRank
  Fleeting = {gen}
  MaxConcurrent = 2
  Looks <- LearnLooks
  Makes <- LearnMakes
  Learns <- LearnLearns
SYMMETRY Symmetry
INVARIANTS
  
  TriggeredExactlyOnce
