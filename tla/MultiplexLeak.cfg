SPECIFICATION Spec
CONSTANTS
    Apis = {"epoll"}
INVARIANTS
    AllClosed
