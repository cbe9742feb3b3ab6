------------------------------ MODULE MCDriver ------------------------------
(* Small instances of Driver for TLC.  A behaviour is given as the set of   *)
(* what each (kind, file) pair may do; pairs not listed do nothing.         *)
EXTENDS Driver, TLC

CONSTANTS lib, app, alt, tool,  \* source files
          gen, out,             \* generated files
          base, hdr, lnk,       \* tags
          rule                  \* the built-in factory

Symmetry == Permutations(Acts)

\* Files later in the sequence are preferred, whoever asks.
Ranked(seq) == [src \in Files |-> [f \in Files |-> CHOOSE i \in DOMAIN seq : seq[i] = f]]
AnyRank == Ranked(<<alt, app, gen, lib, out, tool>>)

RuleOnBase == [f \in Builtin |-> {base}]

\* What the jobs in table may do; the others do nothing.
Only(table) == [j \in Kinds \X Files |-> UNION {x[2] : x \in {x \in table : x[1] = j}}]
File(f, T)  == [file |-> f, tags |-> T]

Nothing == Only({})

\* lib provides gen under hdr, which app looks up; app provides out under lnk,
\* which lib looks up: each would like to be built from the other.  alt and app
\* provide files under hdr as well, one that ties with lib's, one that app would
\* prefer, and one that app itself makes.
CycleLooks == Only({<<<<rule, app>>, {hdr}>>, <<<<rule, lib>>, {lnk}>>})
CycleMakes == Only({<<<<rule, lib>>, {File(gen, {hdr})}>>,
                    <<<<rule, app>>, {File(out, {hdr, lnk})}>>,
                    <<<<rule, alt>>, {File(gen, {hdr}), File(tool, {hdr})}>>})

\* tool is a rule: it learns to act on files tagged hdr, and its action on gen
\* makes out, tagged lnk; or it learns to act on every file, itself included,
\* and its actions look up what lib's action provides.
LearnLooks == Only({<<<<rule, lib>>, {lnk}>>, <<<<Learned, tool>>, {hdr}>>,
                    <<<<Learned, lib>>, {lnk}>>})
LearnMakes == Only({<<<<rule, lib>>, {File(gen, {hdr}), File(lib, {lnk})}>>,
                    <<<<Learned, gen>>, {File(out, {lnk})}>>})
LearnLearns == Only({<<<<rule, tool>>, {{hdr}, {base}}>>})
=============================================================================
