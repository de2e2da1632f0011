------------------------------ MODULE MCReaddir -------------------------------
(* Directories of a few entries of three sizes.                              *)
EXTENDS Readdir

\* Entries of 32, 40 and 48 bytes.
A == Entry("a", 7)
B == Entry("b", 8)
C == Entry("c", 16)

StaticChildren == Dots \o <<A, C>>
System == <<Entry("system", 6)>>
Name == <<Entry("name", 4)>>
ModuleFiles == <<Entry("refcnt", 6), Entry("coresize", 8), Entry("initstate", 9),
                 Entry("version", 7)>>

SomeLists == {<<>>, <<A>>, <<B>>, <<A, B>>, <<B, A>>, <<A, B, C>>, <<A, C>>, <<C, A>>}
===============================================================================
