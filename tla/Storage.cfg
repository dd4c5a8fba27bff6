\* Two callers on two digests, two temporary names per run of the process, two
\* faults.
CONSTANTS
  Tasks = {t1, t2}
  Digests = {d1, d2}
  MaxSeq = 2
  MaxFaults = 2
  NoFile = NoFile
SPECIFICATION ContractSpec
SYMMETRY Symmetry
INVARIANT FilesSound
PROPERTY RefinesBlobStore
