\* One bare name in three namespaces of two databases, spelled with one part or
\* with three; a cache of one template, two template writes, one link.
SPECIFICATION Spec
CONSTANTS
  Namespace <- MCNamespace
  Collection = {"c"}
  Id = {"e"}
  Spelling = {1, 3}
  Capacity = 1
  MaxPuts = 2
  MaxLinks = 1
INVARIANTS CacheCoherent 
 
