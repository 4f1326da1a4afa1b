---------------------------- MODULE CatalogProofs ----------------------------
(***************************************************************************)
(* Proofs about Catalog, for every set of namespaces, collections and ids, *)
(* every choice of spellings and every capacity of the cache.              *)
(***************************************************************************)
EXTENDS Catalog, FiniteSetTheorems, TLAPS

\* A leaf that names no prover goes to SMT, then to Zenon, then to SMT for longer.
USE SMT, Zenon, SMTT(60)

----------------------------------------------------------------------------
(* Names *)

(* Every registered key was spelled by a request, and so was every name that *)
(* a link or a cached template keeps.                                        *)
NamesInv ==
  /\ used \subseteq Name
  /\ \A k \in collections : k.ns \in namespaces /\ \E n \in used : parse(n) = k
  /\ \A l \in links : l.target \in End /\ l.source.name \in used /\ l.target.name \in used
  /\ \A e \in cache : e.name \in used
  /\ DOMAIN views = Key

(* What a spelling denotes by itself is a key.                               *)
LEMMA ParseIsKey == ASSUME NEW n \in Name PROVE parse(n) \in Key
  BY DEF parse, Name, Key

(* Spellings that do not clash denote different keys.                        *)
LEMMA ParseInjective ==
    ASSUME NEW U, ~Clash(U), NEW m \in U, NEW n \in U, parse(m) = parse(n)
    PROVE  m = n
<1>1. m.ns = n.ns /\ m.coll = n.coll
  BY DEF parse
<1> QED
  BY Zenon, <1>1 DEF Clash

(* While the spellings in use, and those of the request at hand, do not      *)
(* clash, resolve_catalog_key returns what each of them denotes by itself:   *)
(* the registered key it may find instead for a bare name is the same.       *)
LEMMA Resolution ==
    ASSUME NamesInv, NEW U, used \subseteq U, ~Clash(U), NEW n \in U
    PROVE  Resolves(n) /\ resolve_catalog_key(n) = parse(n)
<1>1. CASE n.parts # 1
  BY <1>1 DEF Resolves, resolve_catalog_key
<1>2. CASE n.parts = 1
  <2>1. ASSUME NEW k \in registered_catalog_keys(n.coll)
        PROVE  k = parse(n)
    <3>1. k \in collections /\ k.coll = n.coll
      BY <2>1 DEF registered_catalog_keys
    <3>2. PICK m \in used : parse(m) = k
      BY Zenon, <3>1 DEF NamesInv
    <3>3. m.coll = n.coll
      BY <3>1, <3>2 DEF parse
    <3>4. m = n
      BY Zenon, <1>2, <3>3 DEF Clash
    <3> QED
      BY <3>2, <3>4
  <2>2. CASE registered_catalog_keys(n.coll) = {}
    <3>1. Cardinality(registered_catalog_keys(n.coll)) = 0
      BY Zenon, <2>2, FS_EmptySet
    <3> QED
      BY <3>1 DEF Resolves, resolve_catalog_key
  <2>3. CASE registered_catalog_keys(n.coll) # {}
    <3>1. registered_catalog_keys(n.coll) = {parse(n)}
      BY Zenon, <2>1, <2>3
    <3>2. Cardinality(registered_catalog_keys(n.coll)) = 1
      BY Zenon, <3>1, FS_Singleton
    <3>3. (CHOOSE k \in registered_catalog_keys(n.coll) : TRUE) = parse(n)
      BY <3>1
    <3> QED
      BY <1>2, <3>2, <3>3 DEF Resolves, resolve_catalog_key
  <2> QED
    BY <2>2, <2>3
<1> QED
  BY <1>1, <1>2

(* The spellings in use grow until they clash, and clash from then on.       *)
LEMMA RequestsGrow ==
    ASSUME used \subseteq Name, NEW names, names \subseteq Name, Requests(names)
    PROVE  /\ used \subseteq used' /\ names \subseteq used' /\ used' \subseteq Name
           /\ ~Mixed' => ~Mixed
<1>1. used \subseteq used' /\ names \subseteq used' /\ used' \subseteq Name
  BY DEF Requests
<1>2. Clash(used) => Clash(used')
  BY Zenon, <1>1 DEF Clash
<1> QED
  BY <1>1, <1>2 DEF Mixed

----------------------------------------------------------------------------
(* The inductive invariant *)

(* While no spellings clash, a link that is no orphan has the row that its   *)
(* target's spelling denotes, and a cached template is the one stored under  *)
(* the key that its spelling denotes.                                        *)
TargetsInv ==
  ~Mixed => \A l \in links :
    l \in orphans \/ [key |-> parse(l.target.name), id |-> l.target.id] \in rows
CacheInv ==
  ~Mixed => \A e \in cache :
    LET view == views[parse(e.name)] IN e.version = view.version /\ e.template = view.template
CatalogInv == NamesInv /\ TargetsInv /\ CacheInv

(* A step that adds no name other than to the spellings in use keeps the     *)
(* names.                                                                    *)
LEMMA NamesCarried ==
    ASSUME NamesInv, used \subseteq used', used' \subseteq Name,
           \A k \in collections' : k.ns \in namespaces' /\ (k \in collections \/ \E n \in used' : parse(n) = k),
           \A l \in links' : l \in links \/ (l.target \in End /\ l.source.name \in used' /\ l.target.name \in used'),
           \A e \in cache' : e \in cache \/ e.name \in used',
           DOMAIN views' = Key
    PROVE  NamesInv'
<1>1. \A k \in collections' : k.ns \in namespaces' /\ \E n \in used' : parse(n) = k
  BY Zenon DEF NamesInv
<1>2. \A l \in links' : l.target \in End /\ l.source.name \in used' /\ l.target.name \in used'
  BY Zenon DEF NamesInv
<1>3. \A e \in cache' : e.name \in used'
  BY Zenon DEF NamesInv
<1> QED
  BY Zenon, <1>1, <1>2, <1>3 DEF NamesInv, parse, End, Name

(* A step that removes no row, adds no link and forgets no orphan that is    *)
(* still stored keeps the targets.                                           *)
LEMMA TargetsCarried ==
    ASSUME TargetsInv, ~Mixed' => ~Mixed, links' \subseteq links, rows \subseteq rows',
           \A l \in links' : l \in orphans => l \in orphans'
    PROVE  TargetsInv'
  BY Zenon DEF TargetsInv, parse

(* A step that adds nothing to the cache and changes no template of an entry *)
(* it keeps leaves the cache coherent.                                       *)
LEMMA CacheCarried ==
    ASSUME CacheInv, ~Mixed' => ~Mixed, cache' \subseteq cache,
           ~Mixed' => \A e \in cache' : views'[parse(e.name)] = views[parse(e.name)]
    PROVE  CacheInv'
<1> SUFFICES ASSUME ~Mixed', NEW e \in cache'
             PROVE  e.version = views'[parse(e.name)].version /\ e.template = views'[parse(e.name)].template
  BY Zenon DEF CacheInv, parse
<1>1. e.version = views[parse(e.name)].version /\ e.template = views[parse(e.name)].template
  BY Zenon DEF CacheInv
<1>2. views'[parse(e.name)] = views[parse(e.name)]
  BY Zenon
<1> QED
  BY Zenon, <1>1, <1>2

(* Templates change only under keys whose spellings leave the cache.         *)
LEMMA ViewsCarried ==
    ASSUME NamesInv, CacheInv, NEW name \in Name, Request(name),
           invalidate_markdown_template(name), DOMAIN views' = Key,
           \A k \in Key : k # resolve_catalog_key(name) => views'[k] = views[k]
    PROVE  CacheInv'
<1>1. used \subseteq used' /\ name \in used' /\ used' \subseteq Name /\ (~Mixed' => ~Mixed)
  BY Zenon, RequestsGrow DEF NamesInv, Request
<1>2. cache' \subseteq cache /\ \A e \in cache' : e.name # name
  BY DEF invalidate_markdown_template, Retain
<1>3. ASSUME ~Mixed', NEW e \in cache'
      PROVE  views'[parse(e.name)] = views[parse(e.name)]
  <2>1. e.name \in used' /\ e.name \in Name
    BY Zenon, <1>1, <1>2, <1>3 DEF NamesInv
  <2>2. ~Clash(used')
    BY <1>3 DEF Mixed
  <2>3. resolve_catalog_key(name) = parse(name)
    BY Zenon, <1>1, <2>2, Resolution
  <2>4. parse(e.name) # parse(name)
    BY Zenon, <1>1, <1>2, <1>3, <2>1, <2>2, ParseInjective
  <2> QED
    BY Zenon, <2>1, <2>3, <2>4, ParseIsKey
<1> QED
  BY Zenon, <1>1, <1>2, <1>3, CacheCarried

----------------------------------------------------------------------------
(* One lemma per operation *)

(* create_collection registers what its own spelling denotes.                *)
LEMMA CreateCollectionStep ==
    ASSUME CatalogInv, NEW name \in Name, create_collection(name)
    PROVE  CatalogInv'
<1>1. UNCHANGED <<namespaces, rows, views, cache, links, orphans>> /\ Request(name)
      /\ collections' = collections \cup {parse(name)} /\ parse(name).ns \in namespaces
  BY DEF create_collection, cacheVars
<1>2. NamesInv /\ TargetsInv /\ CacheInv
  BY DEF CatalogInv
<1>3. used \subseteq used' /\ name \in used' /\ used' \subseteq Name /\ (~Mixed' => ~Mixed)
  BY Zenon, <1>1, <1>2, RequestsGrow DEF NamesInv, Request
<1>4. \A k \in collections' : k.ns \in namespaces' /\ (k \in collections \/ \E n \in used' : parse(n) = k)
  BY Zenon, <1>1, <1>2, <1>3 DEF NamesInv
<1>5. NamesInv'
  BY Zenon, <1>1, <1>2, <1>3, <1>4, NamesCarried DEF NamesInv
<1>6. TargetsInv'
  BY Zenon, <1>1, <1>2, <1>3, TargetsCarried
<1>7. CacheInv'
  BY Zenon, <1>1, <1>2, <1>3, CacheCarried
<1> QED
  BY <1>5, <1>6, <1>7 DEF CatalogInv

(* put_collection_template and delete_collection_template change the template*)
(* of the key they resolve to, and take its spelling from the cache.         *)
LEMMA TemplateStep ==
    ASSUME CatalogInv, NEW name \in Name,
           put_collection_template(name) \/ delete_collection_template(name)
    PROVE  CatalogInv'
<1>1. UNCHANGED <<namespaces, collections, rows, links, orphans>> /\ Request(name)
      /\ invalidate_markdown_template(name)
      /\ \E v : views' = [views EXCEPT ![resolve_catalog_key(name)] = v]
  BY Zenon DEF put_collection_template, delete_collection_template
<1>2. NamesInv /\ TargetsInv /\ CacheInv
  BY DEF CatalogInv
<1>3. used \subseteq used' /\ name \in used' /\ used' \subseteq Name /\ (~Mixed' => ~Mixed)
  BY Zenon, <1>1, <1>2, RequestsGrow DEF NamesInv, Request
<1>4. DOMAIN views' = Key /\ \A k \in Key : k # resolve_catalog_key(name) => views'[k] = views[k]
  BY <1>1, <1>2 DEF NamesInv
<1>5. cache' \subseteq cache
  BY <1>1 DEF invalidate_markdown_template, Retain
<1>6. NamesInv'
  BY Zenon, <1>1, <1>2, <1>3, <1>4, <1>5, NamesCarried DEF NamesInv
<1>7. TargetsInv'
  BY Zenon, <1>1, <1>2, <1>3, TargetsCarried
<1>8. CacheInv'
  BY Zenon, <1>1, <1>2, <1>4, ViewsCarried
<1> QED
  BY <1>6, <1>7, <1>8 DEF CatalogInv

(* get_entity_markdown caches the stored template, or uses the cached one.   *)
LEMMA RenderStep ==
    ASSUME CatalogInv, NEW name \in Name, NEW id \in Id, get_entity_markdown(name, id)
    PROVE  CatalogInv'
<1>1. UNCHANGED <<namespaces, collections, rows, views, links, orphans>> /\ Request(name)
      /\ compiled_markdown_template(name, views[resolve_catalog_key(name)])
  BY DEF get_entity_markdown
<1>2. NamesInv /\ TargetsInv /\ CacheInv
  BY DEF CatalogInv
<1>3. used \subseteq used' /\ name \in used' /\ used' \subseteq Name /\ (~Mixed' => ~Mixed)
  BY Zenon, <1>1, <1>2, RequestsGrow DEF NamesInv, Request
<1>4. PICK entry : entry = [name |-> name, version |-> views[resolve_catalog_key(name)].version,
                            template |-> views[resolve_catalog_key(name)].template]
  BY Zenon
<1>5. \A e \in cache' : e \in cache \/ e = entry
  <2>1. cache' = cache \/ Insert(entry)
    BY Zenon, <1>1, <1>4 DEF compiled_markdown_template
  <2>2. Insert(entry) => cache' \subseteq cache \cup {entry}
    BY Zenon DEF Insert
  <2> QED
    BY Zenon, <2>1, <2>2
<1>6. entry.name = name /\ entry.version = views[resolve_catalog_key(name)].version
      /\ entry.template = views[resolve_catalog_key(name)].template
  BY <1>4
<1>7. NamesInv'
  <2>1. \A e \in cache' : e \in cache \/ e.name \in used'
    BY Zenon, <1>3, <1>5, <1>6
  <2> QED
    BY Zenon, <1>1, <1>2, <1>3, <2>1, NamesCarried DEF NamesInv
<1>8. TargetsInv'
  BY Zenon, <1>1, <1>2, <1>3, TargetsCarried
<1>9. CacheInv'
  <2> SUFFICES ASSUME ~Mixed', NEW e \in cache'
               PROVE  e.version = views[parse(e.name)].version /\ e.template = views[parse(e.name)].template
    BY Zenon, <1>1 DEF CacheInv, parse
  <2>1. CASE e \in cache
    BY Zenon, <1>2, <1>3, <2>1 DEF CacheInv
  <2>2. CASE e = entry
    <3>1. ~Clash(used')
      BY DEF Mixed
    <3>2. resolve_catalog_key(name) = parse(name)
      BY Zenon, <1>2, <1>3, <3>1, Resolution
    <3> QED
      BY Zenon, <1>6, <2>2, <3>2
  <2> QED
    BY Zenon, <1>5, <2>1, <2>2
<1> QED
  BY <1>7, <1>8, <1>9 DEF CatalogInv

(* create_entity adds a row.                                                 *)
LEMMA CreateEntityStep ==
    ASSUME CatalogInv, NEW name \in Name, NEW id \in Id, create_entity(name, id)
    PROVE  CatalogInv'
<1>1. UNCHANGED <<namespaces, collections, views, cache, links, orphans>> /\ Request(name)
      /\ rows \subseteq rows'
  BY DEF create_entity, cacheVars
<1>2. NamesInv /\ TargetsInv /\ CacheInv
  BY DEF CatalogInv
<1>3. used \subseteq used' /\ used' \subseteq Name /\ (~Mixed' => ~Mixed)
  BY Zenon, <1>1, <1>2, RequestsGrow DEF NamesInv, Request
<1>4. NamesInv'
  BY Zenon, <1>1, <1>2, <1>3, NamesCarried DEF NamesInv
<1>5. TargetsInv'
  BY Zenon, <1>1, <1>2, <1>3, TargetsCarried
<1>6. CacheInv'
  BY Zenon, <1>1, <1>2, <1>3, CacheCarried
<1> QED
  BY <1>4, <1>5, <1>6 DEF CatalogInv

(* delete_entity finds the links to the row it removes: under one spelling   *)
(* per collection they name the target the way the request does.             *)
LEMMA DeleteEntityStep ==
    ASSUME CatalogInv, NEW name \in Name, NEW id \in Id, NEW force, delete_entity(name, id, force)
    PROVE  CatalogInv'
<1>1. UNCHANGED <<namespaces, collections, views, cache, links>> /\ Request(name)
      /\ rows' = rows \ {[key |-> resolve_catalog_key(name), id |-> id]}
      /\ orphans' = orphans \cup LinksTo(name, id)
  BY DEF delete_entity, Removes, cacheVars
<1>2. NamesInv /\ TargetsInv /\ CacheInv
  BY DEF CatalogInv
<1>3. used \subseteq used' /\ name \in used' /\ used' \subseteq Name /\ (~Mixed' => ~Mixed)
  BY Zenon, <1>1, <1>2, RequestsGrow DEF NamesInv, Request
<1>4. NamesInv'
  BY Zenon, <1>1, <1>2, <1>3, NamesCarried DEF NamesInv
<1>5. TargetsInv'
  <2> SUFFICES ASSUME ~Mixed', NEW l \in links, l \notin orphans',
                      [key |-> parse(l.target.name), id |-> l.target.id] \notin rows'
               PROVE  FALSE
    BY Zenon, <1>1 DEF TargetsInv, parse
  <2>1. [key |-> parse(l.target.name), id |-> l.target.id] \in rows
    BY Zenon, <1>1, <1>2, <1>3 DEF TargetsInv
  <2>2. [key |-> parse(l.target.name), id |-> l.target.id] = [key |-> resolve_catalog_key(name), id |-> id]
    BY Zenon, <1>1, <2>1
  <2>3. ~Clash(used')
    BY DEF Mixed
  <2>4. resolve_catalog_key(name) = parse(name)
    BY Zenon, <1>2, <1>3, <2>3, Resolution
  <2>5. parse(l.target.name) = parse(name) /\ l.target.id = id
    BY <2>2, <2>4
  <2>6. l.target.name \in used'
    BY Zenon, <1>2, <1>3 DEF NamesInv
  <2>7. l.target.name = name
    BY Zenon, <1>3, <2>3, <2>5, <2>6, ParseInjective
  <2>8. l.target = [name |-> name, id |-> id]
    <3>1. l.target \in End
      BY Zenon, <1>2 DEF NamesInv
    <3> QED
      BY <2>5, <2>7, <3>1 DEF End
  <2> QED
    BY Zenon, <1>1, <2>8 DEF LinksTo
<1>6. CacheInv'
  BY Zenon, <1>1, <1>2, <1>3, CacheCarried
<1> QED
  BY <1>4, <1>5, <1>6 DEF CatalogInv

(* create_link stores a link whose target it has found.                      *)
LEMMA CreateLinkStep ==
    ASSUME CatalogInv, NEW source \in End, NEW target \in End, create_link(source, target)
    PROVE  CatalogInv'
<1>1. UNCHANGED <<namespaces, collections, rows, views, cache, orphans>>
      /\ Requests({source.name, target.name}) /\ Present(target)
  BY DEF create_link, cacheVars
<1>2. PICK new : new = [source |-> source, target |-> target] /\ links' = links \cup {new}
  BY DEF create_link
<1>3. new.source = source /\ new.target = target
  BY <1>2
<1>4. NamesInv /\ TargetsInv /\ CacheInv
  BY DEF CatalogInv
<1>5. used \subseteq used' /\ source.name \in used' /\ target.name \in used' /\ used' \subseteq Name
      /\ (~Mixed' => ~Mixed)
  <2>1. source.name \in Name /\ target.name \in Name
    BY DEF End
  <2>2. PICK names : names = {source.name, target.name} /\ names \subseteq Name
    BY Zenon, <2>1
  <2>3. used \subseteq used' /\ names \subseteq used' /\ used' \subseteq Name /\ (~Mixed' => ~Mixed)
    BY Zenon, <1>1, <1>4, <2>2, RequestsGrow DEF NamesInv
  <2> QED
    BY <2>2, <2>3
<1>6. NamesInv'
  <2>1. \A l \in links' : l \in links \/ (l.target \in End /\ l.source.name \in used' /\ l.target.name \in used')
    BY Zenon, <1>2, <1>3, <1>5
  <2> QED
    BY Zenon, <1>1, <1>4, <1>5, <2>1, NamesCarried DEF NamesInv
<1>7. TargetsInv'
  <2> SUFFICES ASSUME ~Mixed', NEW l \in links'
               PROVE  l \in orphans \/ [key |-> parse(l.target.name), id |-> l.target.id] \in rows
    BY Zenon, <1>1 DEF TargetsInv, parse
  <2>1. CASE l \in links
    BY Zenon, <1>4, <1>5, <2>1 DEF TargetsInv
  <2>2. CASE l = new
    <3>1. ~Clash(used')
      BY DEF Mixed
    <3>2. resolve_catalog_key(target.name) = parse(target.name)
      BY Zenon, <1>4, <1>5, <3>1, Resolution
    <3> QED
      BY Zenon, <1>1, <1>3, <2>2, <3>2 DEF Present
  <2> QED
    BY Zenon, <1>2, <2>1, <2>2
<1>8. CacheInv'
  BY Zenon, <1>1, <1>4, <1>5, CacheCarried
<1> QED
  BY <1>6, <1>7, <1>8 DEF CatalogInv

(* delete_link removes a link.                                               *)
LEMMA DeleteLinkStep ==
    ASSUME CatalogInv, NEW l \in links, delete_link(l.source, l.target)
    PROVE  CatalogInv'
<1>1. UNCHANGED <<namespaces, collections, rows, views, cache>>
      /\ Requests({l.source.name, l.target.name}) /\ links' \subseteq links
      /\ orphans' = orphans \cap links'
  BY DEF delete_link, cacheVars
<1>2. NamesInv /\ TargetsInv /\ CacheInv
  BY DEF CatalogInv
<1>3. used \subseteq used' /\ used' \subseteq Name /\ (~Mixed' => ~Mixed)
  <2>1. PICK names : names = {l.source.name, l.target.name} /\ names \subseteq Name
    BY Zenon, <1>2 DEF NamesInv
  <2> QED
    BY Zenon, <1>1, <1>2, <2>1, RequestsGrow DEF NamesInv
<1>4. NamesInv'
  BY Zenon, <1>1, <1>2, <1>3, NamesCarried DEF NamesInv
<1>5. TargetsInv'
  <2>1. \A m \in links' : m \in orphans => m \in orphans'
    BY <1>1
  <2> QED
    BY Zenon, <1>1, <1>2, <1>3, <2>1, TargetsCarried
<1>6. CacheInv'
  BY Zenon, <1>1, <1>2, <1>3, CacheCarried
<1> QED
  BY <1>4, <1>5, <1>6 DEF CatalogInv

(* drop_collection orphans the links whose target resolves to its key.       *)
LEMMA DropCollectionStep ==
    ASSUME CatalogInv, NEW name \in Name, drop_collection(name)
    PROVE  CatalogInv'
<1>1. UNCHANGED <<namespaces, links>> /\ Request(name) /\ invalidate_markdown_template(name)
      /\ RemoveKeys({resolve_catalog_key(name)})
      /\ orphans' = orphans \cup { l \in links : resolve_catalog_key(l.target.name) = resolve_catalog_key(name) }
  BY DEF drop_collection
<1>2. NamesInv /\ TargetsInv /\ CacheInv
  BY DEF CatalogInv
<1>3. used \subseteq used' /\ used' \subseteq Name /\ (~Mixed' => ~Mixed)
  BY Zenon, <1>1, <1>2, RequestsGrow DEF NamesInv, Request
<1>4. collections' \subseteq collections /\ DOMAIN views' = Key
      /\ \A k \in Key : k # resolve_catalog_key(name) => views'[k] = views[k]
  BY <1>1 DEF RemoveKeys
<1>5. cache' \subseteq cache
  BY <1>1 DEF invalidate_markdown_template, Retain
<1>6. NamesInv'
  BY Zenon, <1>1, <1>2, <1>3, <1>4, <1>5, NamesCarried DEF NamesInv
<1>7. TargetsInv'
  <2> SUFFICES ASSUME ~Mixed', NEW l \in links, l \notin orphans'
               PROVE  [key |-> parse(l.target.name), id |-> l.target.id] \in rows'
    BY Zenon, <1>1 DEF TargetsInv, parse
  <2>1. PICK row : row = [key |-> parse(l.target.name), id |-> l.target.id]
    BY Zenon
  <2>2. row \in rows
    BY Zenon, <1>1, <1>2, <1>3, <2>1 DEF TargetsInv
  <2>3. resolve_catalog_key(l.target.name) = parse(l.target.name)
    BY Zenon, <1>2, <1>3, Resolution DEF Mixed, NamesInv
  <2>4. resolve_catalog_key(l.target.name) # resolve_catalog_key(name)
    BY Zenon, <1>1
  <2>5. row.key # resolve_catalog_key(name)
    BY <2>1, <2>3, <2>4
  <2>6. row \in rows'
    BY <1>1, <2>2, <2>5 DEF RemoveKeys
  <2> QED
    BY <2>1, <2>6
<1>8. CacheInv'
  BY Zenon, <1>1, <1>2, <1>4, ViewsCarried
<1> QED
  BY <1>6, <1>7, <1>8 DEF CatalogInv

(* The drop of a namespace or a database takes the links into it and the     *)
(* templates of its keys along.                                              *)
LEMMA DropNamespacesStep ==
    ASSUME CatalogInv, NEW gone, DropNamespaces(gone)
    PROVE  CatalogInv'
<1>1. used' = used /\ namespaces' = namespaces \ gone
      /\ links' = links \ LinksInto(Doomed(gone)) /\ orphans' = orphans \cap links'
      /\ RemoveKeys(Doomed(gone))
      /\ invalidate_markdown_templates_for_collections(Doomed(gone))
  BY DEF DropNamespaces
<1>2. NamesInv /\ TargetsInv /\ CacheInv
  BY DEF CatalogInv
<1>3. Mixed' <=> Mixed
  BY <1>1 DEF Mixed
<1>4. collections' = collections \ Doomed(gone) /\ DOMAIN views' = Key
      /\ \A k \in Key : k \notin Doomed(gone) => views'[k] = views[k]
  BY <1>1 DEF RemoveKeys
<1>5. cache' \subseteq cache /\ \A e \in cache' : parse(e.name) \notin Doomed(gone)
  <2>1. cache' \subseteq cache
    BY <1>1 DEF invalidate_markdown_templates_for_collections, Retain
  <2>2. ASSUME NEW e \in cache', parse(e.name) \in Doomed(gone) PROVE FALSE
    <3>1. parse(e.name).coll = e.name.coll
      BY DEF parse
    <3>2. e.name.coll \in { k.coll : k \in Doomed(gone) }
      BY Zenon, <2>2, <3>1
    <3> QED
      BY Zenon, <1>1, <2>2, <3>2 DEF invalidate_markdown_templates_for_collections, Retain
  <2> QED
    BY <2>1, <2>2
<1>6. NamesInv'
  <2>1. \A k \in collections' : k.ns \in namespaces' /\ k \in collections
    BY <1>1, <1>2, <1>4 DEF NamesInv, Doomed
  <2>2. links' \subseteq links
    BY <1>1
  <2> QED
    BY Zenon, <1>1, <1>2, <1>4, <1>5, <2>1, <2>2, NamesCarried DEF NamesInv
<1>7. TargetsInv'
  <2> SUFFICES ASSUME ~Mixed, NEW l \in links', l \notin orphans
               PROVE  [key |-> parse(l.target.name), id |-> l.target.id] \in rows'
    BY Zenon, <1>1, <1>3 DEF TargetsInv, parse
  <2>1. PICK row : row = [key |-> parse(l.target.name), id |-> l.target.id]
    BY Zenon
  <2>2. l \in links /\ row \in rows
    BY Zenon, <1>1, <1>2, <2>1 DEF TargetsInv
  <2>3. resolve_catalog_key(l.target.name) = parse(l.target.name)
    BY Zenon, <1>2, <2>2, Resolution DEF Mixed, NamesInv
  <2>4. resolve_catalog_key(l.target.name) \notin Doomed(gone)
    BY Zenon, <1>1, <2>2 DEF LinksInto
  <2>5. row.key \notin Doomed(gone)
    BY <2>1, <2>3, <2>4
  <2>6. row \in rows'
    BY <1>1, <2>2, <2>5 DEF RemoveKeys
  <2> QED
    BY <2>1, <2>6
<1>8. CacheInv'
  <2>1. \A e \in cache' : views'[parse(e.name)] = views[parse(e.name)]
    BY Zenon, <1>2, <1>4, <1>5, ParseIsKey DEF NamesInv
  <2> QED
    BY Zenon, <1>2, <1>3, <1>5, <2>1, CacheCarried
<1> QED
  BY <1>6, <1>7, <1>8 DEF CatalogInv

(* A new namespace, or no step at all, touches nothing the invariant is      *)
(* about.                                                                    *)
LEMMA NamespaceStep ==
    ASSUME CatalogInv, namespaces \subseteq namespaces',
           UNCHANGED <<collections, rows, views, cache, links, used, orphans>>
    PROVE  CatalogInv'
<1>1. NamesInv /\ TargetsInv /\ CacheInv
  BY DEF CatalogInv
<1>2. Mixed' <=> Mixed
  BY DEF Mixed
<1>3. NamesInv'
  <2>1. \A k \in collections' : k.ns \in namespaces' /\ k \in collections
    BY Zenon, <1>1 DEF NamesInv
  <2> QED
    BY Zenon, <1>1, <2>1, NamesCarried DEF NamesInv
<1>4. TargetsInv'
  BY Zenon, <1>1, <1>2, TargetsCarried
<1>5. CacheInv'
  BY Zenon, <1>1, <1>2, CacheCarried
<1> QED
  BY <1>3, <1>4, <1>5 DEF CatalogInv

----------------------------------------------------------------------------
(* The theorems *)

(* Every step keeps the invariant.                                           *)
LEMMA CatalogStep == ASSUME CatalogInv, [Next]_vars PROVE CatalogInv'
<1>1. CASE UNCHANGED vars
  BY Zenon, <1>1, NamespaceStep DEF vars, cacheVars
<1>2. ASSUME NEW ns \in Namespace, create_namespace(ns) \/ create_database(ns.db)
      PROVE  CatalogInv'
  <2>1. namespaces \subseteq namespaces'
        /\ UNCHANGED <<collections, rows, views, cache, links, used, orphans>>
    BY <1>2 DEF create_namespace, create_database, cacheVars
  <2> QED
    BY Zenon, <2>1, NamespaceStep
<1>3. ASSUME NEW ns \in Namespace, NEW force \in BOOLEAN,
             drop_namespace(ns, force) \/ drop_database(ns.db, force)
      PROVE  CatalogInv'
  BY Zenon, <1>3, DropNamespacesStep DEF drop_namespace, drop_database
<1> QED
  BY Zenon, <1>1, <1>2, <1>3, CreateCollectionStep, DropCollectionStep, TemplateStep,
     CreateEntityStep, DeleteEntityStep, RenderStep, CreateLinkStep, DeleteLinkStep DEF Next

(* The invariant holds in every reachable state.                             *)
THEOREM Invariant == Spec => []CatalogInv
<1>1. Init => CatalogInv
  BY DEF Init, CatalogInv, NamesInv, TargetsInv, CacheInv
<1> QED
  BY <1>1, CatalogStep, PTL DEF Spec

(* While every collection is named in one way, a cached compiled template is *)
(* the stored one, through template writes and deletions and through drops   *)
(* of collections, namespaces and databases followed by re-creation, for     *)
(* every capacity of the cache.                                              *)
THEOREM TemplatesAreCurrent == Spec => []CacheCoherent
<1>1. CatalogInv => CacheCoherent
  <2> SUFFICES ASSUME CatalogInv, ~Mixed, NEW e \in cache
               PROVE  Fresh(e)
    BY Zenon DEF CacheCoherent
  <2>1. NamesInv /\ CacheInv
    BY DEF CatalogInv
  <2>2. Resolves(e.name) /\ resolve_catalog_key(e.name) = parse(e.name)
    BY Zenon, <2>1, Resolution DEF NamesInv, Mixed
  <2> QED
    BY Zenon, <2>1, <2>2 DEF CacheInv, Fresh
<1> QED
  BY <1>1, Invariant, PTL

(* While every collection is named in one way, a link without its target is  *)
(* one whose target a forced deletion or drop_collection removed.            *)
THEOREM DanglingLinksExplained == Spec => []LinksDangleOnlyAfterDrop
<1>1. CatalogInv => LinksDangleOnlyAfterDrop
  <2> SUFFICES ASSUME CatalogInv, ~Mixed, NEW l \in links, l \notin orphans
               PROVE  Present(l.target)
    BY Zenon DEF LinksDangleOnlyAfterDrop
  <2>1. NamesInv /\ TargetsInv
    BY DEF CatalogInv
  <2>2. Resolves(l.target.name) /\ resolve_catalog_key(l.target.name) = parse(l.target.name)
    BY Zenon, <2>1, Resolution DEF NamesInv, Mixed
  <2> QED
    BY Zenon, <2>1, <2>2 DEF TargetsInv, Present
<1> QED
  BY <1>1, Invariant, PTL

\* The step of DropIsExact.
ExactStep ==
  Removed # {} =>
    /\ rows' = { r \in rows : r.key \notin Removed }
    /\ \A k \in Key : views'[k] = IF k \in Removed THEN NoView ELSE views[k]
    /\ links \ links' =
         IF namespaces' = namespaces THEN {}
         ELSE { l \in links : \E k \in Removed :
                  k \in {resolve_catalog_key(l.source.name), resolve_catalog_key(l.target.name)} }

(* A drop removes exactly the rows and templates of the keys it unregisters, *)
(* and links exactly when a namespace goes: those with an end in it.         *)
THEOREM DropsAreExact == Spec => DropIsExact
<1>1. ASSUME NEW doomed, doomed \subseteq collections, RemoveKeys(doomed)
      PROVE  /\ Removed = doomed
             /\ rows' = { r \in rows : r.key \notin doomed }
             /\ \A k \in Key : views'[k] = IF k \in doomed THEN NoView ELSE views[k]
  BY <1>1 DEF RemoveKeys, Removed
<1>2. ASSUME CatalogInv, NEW gone, DropNamespaces(gone) PROVE ExactStep
  <2>1. Doomed(gone) \subseteq collections /\ RemoveKeys(Doomed(gone))
        /\ links' = links \ LinksInto(Doomed(gone)) /\ namespaces' = namespaces \ gone
    BY <1>2 DEF DropNamespaces, Doomed
  <2>2. /\ Removed = Doomed(gone)
        /\ rows' = { r \in rows : r.key \notin Doomed(gone) }
        /\ \A k \in Key : views'[k] = IF k \in Doomed(gone) THEN NoView ELSE views[k]
    BY Zenon, <1>1, <2>1
  <2>3. links \ links' = LinksInto(Doomed(gone))
    BY <2>1 DEF LinksInto
  <2>4. Removed # {} => namespaces' # namespaces
    BY <1>2, <2>1, <2>2 DEF Doomed, CatalogInv, NamesInv
  <2>5. LinksInto(Doomed(gone)) =
          { l \in links : \E k \in Doomed(gone) :
              k \in {resolve_catalog_key(l.source.name), resolve_catalog_key(l.target.name)} }
    BY Zenon DEF LinksInto
  <2> QED
    BY Zenon, <2>2, <2>3, <2>4, <2>5 DEF ExactStep
<1>3. ASSUME NEW name \in Name, drop_collection(name) PROVE ExactStep
  <2>1. {resolve_catalog_key(name)} \subseteq collections /\ RemoveKeys({resolve_catalog_key(name)})
        /\ links' = links /\ namespaces' = namespaces
    BY <1>3 DEF drop_collection, Registered
  <2>2. PICK doomed : doomed = {resolve_catalog_key(name)}
    BY Zenon
  <2>3. /\ Removed = doomed
        /\ rows' = { r \in rows : r.key \notin doomed }
        /\ \A k \in Key : views'[k] = IF k \in doomed THEN NoView ELSE views[k]
    BY Zenon, <1>1, <2>1, <2>2
  <2>4. links \ links' = {}
    BY <2>1
  <2> QED
    BY Zenon, <2>1, <2>3, <2>4 DEF ExactStep
<1>4. ASSUME collections \subseteq collections' PROVE ExactStep
  BY Zenon, <1>4 DEF ExactStep, Removed
<1>5. ASSUME NEW name \in Name, NEW id, NEW force,
             \/ create_collection(name) \/ put_collection_template(name)
             \/ delete_collection_template(name) \/ create_entity(name, id)
             \/ delete_entity(name, id, force) \/ get_entity_markdown(name, id)
      PROVE  ExactStep
  <2>1. collections \subseteq collections'
    BY Zenon, <1>5 DEF create_collection, put_collection_template, delete_collection_template,
                create_entity, delete_entity, Removes, get_entity_markdown
  <2> QED
    BY <1>4, <2>1
<1>6. ASSUME NEW ns \in Namespace, create_namespace(ns) \/ create_database(ns.db) PROVE ExactStep
  <2>1. collections \subseteq collections'
    BY Zenon, <1>6 DEF create_namespace, create_database
  <2> QED
    BY <1>4, <2>1
<1>7. ASSUME NEW source, NEW target, create_link(source, target) \/ delete_link(source, target)
      PROVE  ExactStep
  <2>1. collections \subseteq collections'
    BY Zenon, <1>7 DEF create_link, delete_link
  <2> QED
    BY <1>4, <2>1
<1>8. ASSUME CatalogInv, Next PROVE ExactStep
  BY ZenonT(30), <1>2, <1>3, <1>5, <1>6, <1>7, <1>8 DEF Next, drop_namespace, drop_database
<1>9. CatalogInv /\ [Next]_vars => [ExactStep]_vars
  BY Zenon, <1>8
<1>10. Spec => [][ExactStep]_vars
  BY <1>9, Invariant, PTL DEF Spec
<1> QED
  BY <1>10, PTL DEF DropIsExact, ExactStep

=============================================================================
