SPECIFICATION Spec
CONSTANT ProdIds <- MCProdIds
CHECK_DEADLOCK FALSE
INVARIANT NeverUsesDeletedObject
