---------------------------- MODULE MCLangServe ----------------------------
(* Two tasks that name one file by two names, another one, and none.       *)
EXTENDS LangServe

CONSTANTS t1, t2

MCTasks == {t1, t2}
MCRealPath == [n \in {"a.h", "src/a.h", "b.c", "x"} |->
    CASE n \in {"a.h", "src/a.h"} -> "src/a.h" [] n = "b.c" -> "src/b.c" [] OTHER -> None]
MCNameOf == [p \in {"error", "alias", "note", "junk"} |->
    CASE p = "error" -> "a.h" [] p = "alias" -> "src/a.h" [] p = "note" -> "b.c" [] OTHER -> "x"]

=============================================================================
