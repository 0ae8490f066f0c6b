SPECIFICATION Spec
CONSTANTS
  Threads = {h1, h2, u}
  Hooked = {h1, h2}
  Fds = {1, 2, 3}
  NoCtx = NoCtx
SYMMETRY HookedSymmetry
INVARIANTS UserViewExact HookedNeverBlocks
