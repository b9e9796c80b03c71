------------------------------ MODULE MCLogger ------------------------------
(***************************************************************************)
(* Instances of Logger: two paths, limits of two and three bytes, records  *)
(* of one or two bytes.  Three records fill a file and rotate it twice.    *)
(***************************************************************************)
EXTENDS Logger

CONSTANTS firstPath, secondPath

MCPaths == {firstPath, secondPath}

=============================================================================
