SPECIFICATION Spec
CONSTANTS
  Projects = {proj1, proj2}
  Repositories = {repo}
  Pipelines = {pipe}
  Runs = {run}
  Names = {n1, n2}
  Clients = {c1, c2}
  Nothing = nothing
SYMMETRY ClientSymmetry
INVARIANTS
  TypeOK
  RunsBelongToProjects
  NamesFindOneProject
  OneRowPerStruct
