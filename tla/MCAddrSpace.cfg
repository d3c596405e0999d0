\* Two processes, and frames for both and for one page table that is lost
CONSTANTS Procs = {p, q}
          PT_SIZE = 2
          NumFrames = 15
          Layouts <- TwoLayouts
          Values = {x, y}
          NULL = NULL
SPECIFICATION Spec
INVARIANTS NoSharing
PROPERTIES OnlyLeavesLost KeepsSpaceSpec
CHECK_DEADLOCK FALSE
SYMMETRY Symm
