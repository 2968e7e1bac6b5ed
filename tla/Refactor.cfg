\* Two refactorings in a row, beside people who write and commit.
SPECIFICATION Spec
CONSTANTS
    Workspaces <- MCWorkspaces
    Requests <- MCRequests
    FreshIds = {"b1", "b2", "b3", "b4"}
    Jotted <- MCJotted
    Penned <- MCPenned
    MaxVerbs = 2
    MaxEdits = 1
INVARIANTS LinksFollow EditsKept
CHECK_DEADLOCK FALSE
