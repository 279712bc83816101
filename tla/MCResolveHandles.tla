--------------------------- MODULE MCResolveHandles ----------------------------
EXTENDS ResolveHandles
CONSTANTS a, b
================================================================================
