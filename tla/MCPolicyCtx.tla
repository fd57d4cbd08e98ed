------------------------------ MODULE MCPolicyCtx ------------------------------
EXTENDS PolicyCtx, TLC

Handles == Permutations(Policies)
===============================================================================
