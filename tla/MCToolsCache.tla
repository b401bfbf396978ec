---------------------------- MODULE MCToolsCache ----------------------------
EXTENDS ToolsCache, TLC

CacheSymmetry == Permutations(Op) \cup Permutations(Config) \cup Permutations(Tools)
=============================================================================
