--------------------------- MODULE MCTokenValidator ---------------------------
(* Instance of TokenValidator for TLC.                                        *)
EXTENDS TokenValidator, TLC

\* validations and commands are interchangeable
TokenSymmetry == Permutations(Validations) \cup Permutations(Commands) \cup Permutations(Tokens)
===============================================================================
