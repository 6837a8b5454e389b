\* README.md:191 and 198 against the code: with node_labels that lack the label
\* "pool", which Validate accepts, a pool outgrows its max_nodes.
SPECIFICATION Spec
CONSTANTS
  general = general
  batch = batch
  ssd = ssd
  p1 = p1
  p2 = p2
  Configs <- SomeConfigs
  Pods = {p1, p2}
  SelectorOf <- Selectors
  Names = {n1, n2, n3}
  Absent = Absent
PROPERTY StartedWithinMax
