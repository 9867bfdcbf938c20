---------------------------- MODULE MCFileSystem ----------------------------
EXTENDS FileSystem

CONSTANTS big, small

\* One file grows over its indirect block and past the largest size there is,
\* the other has direct blocks only.
MCMaxSize == [f \in Files |-> IF f = big THEN NDIRECT + NINDIRECT + 1 ELSE NDIRECT]

\* One directory block has both.
MCnear == [f \in Files |-> Files]
=============================================================================
