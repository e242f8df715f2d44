-------------------------------- MODULE MCBuild --------------------------------
(* TLC instance of Build: a source, the same with an argument added, with a  *)
(* function removed, and one that does not compile.  A line is a function    *)
(* and its number of arguments.                                              *)
EXTENDS Build

First == {<<"f", 1>>, <<"g", 0>>}
Longer == {<<"f", 2>>, <<"g", 0>>}
Fewer == {<<"f", 1>>}
Unfinished == {<<"f", 1>>, <<"h", 0>>}

MCVersions == {First, Longer, Fewer, Unfinished}
MCBroken == {Unfinished}
=============================================================================
