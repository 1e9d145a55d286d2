CONSTANTS
    root = root
    outer = outer
    inner = inner
    leaf = leaf
    x = x
    y = y
    Element <- MCElement
    Root = root
    Identifier = {x, y}
    Router = Router
    None = None
    Documents <- MCDocuments
    Lists <- MCLists
    MaxChanges = 3
SPECIFICATION Spec
INVARIANTS TypeOK ScopesConnected BindingsTracked ClosestHandles 
PROPERTY ImplementsControllerLife
CHECK_DEADLOCK FALSE
