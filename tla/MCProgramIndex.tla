--------------------------- MODULE MCProgramIndex ----------------------------
(* ProgramIndex for TLC: callers do the same and are interchangeable, and   *)
(* so are programs.                                                        *)
EXTENDS ProgramIndex, TLC

CallerSymmetry == Permutations(Callers) \union Permutations(Programs)
=============================================================================
