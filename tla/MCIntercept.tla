---------------------------- MODULE MCIntercept ----------------------------
(***************************************************************************)
(* An instance of Intercept for TLC: two threads of one process.           *)
(***************************************************************************)
EXTENDS Intercept

CONSTANTS t1, t2

MCThreads == {t1, t2}
MCSources == {<<"a">>}
MCSrcDirs == {<<"d">>}
OneProcess == [t \in MCThreads |-> "p"]

\* Everything the interceptor tells apart, for one thread.
AllCalls ==
    { Open("rel", <<"a">>, "O_RDONLY"),
      Open("cwd", <<"a">>, "O_RDONLY"),
      Open("rel", <<"a">>, "O_RDWR"),
      Wrapped("lstat", "rel", <<"d", "..", ".", "a">>, "READ"),
      Wrapped("stat", "rel", <<"d", "..", "..", "", "..", "b">>, "READ"),
      Wrapped("stat", "rel", <<"d", "..">>, "READ"),
      Wrapped("stat", "rel", <<"d", "">>, "READ"),
      Open("abs", <<"lib">>, "O_RDONLY"),
      Open("deps", <<"deps">>, "O_RDWR"),
      Open("long", <<"x">>, "O_RDONLY"),
      Open("tag", <<"header", ".", "a">>, "O_RDONLY"),
      Exec("rel", <<"cc">>),
      Wrapped("stat", "tag", <<"header">>, "READ"),
      Wrapped("stat", "tag", <<"canonical", ".">>, "READ"),
      Open("tag", <<"header", "a">>, "O_RDWR"),
      Wrapped("mkdir", "rel", <<"d", "e">>, "WRITE"),
      Access("rel", <<"d", "e">>, "R_OK"),
      Access("rel", <<"a">>, "W_OK"),
      Rename(File("tmp", <<"x">>, ""), File("rel", <<"a">>, "")),
      OpenAt("cwd", <<"a">>, "O_RDONLY") }

\* The other thread asks for the same name.
SomeCalls == { Open("rel", <<"a">>, "O_RDONLY"), Open("rel", <<"a">>, "O_RDWR") }

MCCallsOf == (t1 :> AllCalls) @@ (t2 :> SomeCalls)
=============================================================================
