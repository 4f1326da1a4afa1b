------------------------------- MODULE Catalog -------------------------------
(***************************************************************************)
(* The catalogue of one handler: databases and their namespaces, the       *)
(* collections registered in them, the rows and links that live under the  *)
(* registered names, and the markdown templates with their cache.          *)
(*                                                                         *)
(* A request spells a collection in one to three parts ("c", "s.c",        *)
(* "db.s.c").  Storage resolves the spelling to a catalogue key at every   *)
(* call; links and the template cache keep the spelling of the request.    *)
(* Each handler call runs under the handler's mutex, so it is one step.    *)
(* Schemas, documents, versions and policies are in other modules; here a  *)
(* row is only present or absent.                                          *)
(***************************************************************************)
EXTENDS Naturals, Sequences, FiniteSets

CONSTANTS Namespace,   \* the namespaces requests may name: [db, schema] records
          Collection,  \* bare collection names
          Id,          \* entity ids
          Spelling,    \* how many parts requests spell a name with: within 1..3
          Capacity,    \* entries of the template cache
          MaxPuts,     \* bound: template writes in a behaviour
          MaxLinks     \* bound: links stored at a time

Default == "default"
DefaultNs == [db |-> Default, schema |-> Default]

ASSUME DefaultNamespaceExists == DefaultNs \in Namespace

VARIABLES
  namespaces,   \* the namespaces that exist; a database exists with its default one
  collections,  \* the registered keys
  rows,         \* the stored entities
  views,        \* per key, the stored template: its version, and the write that made it
  cache,        \* compiled templates: `entries` of MarkdownTemplateCache
  lru,          \* their spellings, least recently used first
  links,        \* stored links, with their ends as they were spelled
  puts,         \* the number of template writes so far
  used,         \* history: the spellings requests have used
  orphans       \* history: the links whose target a forced deletion or drop_collection removed

cacheVars == <<cache, lru>>
vars == <<namespaces, collections, rows, views, cacheVars, links, puts, used, orphans>>

Key == [ns : Namespace, coll : Collection]
Name == { n \in [parts : Spelling, ns : Namespace, coll : Collection] :
            /\ n.parts = 1 => n.ns = DefaultNs
            /\ n.parts = 2 => n.ns.db = Default }
Row == [key : Key, id : Id]
End == [name : Name, id : Id]
NoView == [version |-> 0, template |-> 0]

----------------------------------------------------------------------------
(* Names *)

\* The namespace and the bare collection a spelling denotes by itself.
parse(name) == [ns |-> name.ns, coll |-> name.coll]

registered_catalog_keys(coll) == { k \in collections : k.coll = coll }

\* A bare spelling denotes the only registered collection of that name, the
\* default namespace's one if there are several, and nothing if the default
\* namespace has none of several.
Resolves(name) ==
  \/ name.parts # 1
  \/ Cardinality(registered_catalog_keys(name.coll)) <= 1
  \/ parse(name) \in collections

resolve_catalog_key(name) ==
  IF /\ name.parts = 1
     /\ Cardinality(registered_catalog_keys(name.coll)) = 1
  THEN CHOOSE k \in registered_catalog_keys(name.coll) : TRUE
  ELSE parse(name)

Registered(name) == Resolves(name) /\ resolve_catalog_key(name) \in collections

\* Two spellings of one collection: a bare one beside another, or two of one key.
Clash(names) ==
  \E m, n \in names : /\ m # n /\ m.coll = n.coll
                      /\ m.parts = 1 \/ n.parts = 1 \/ m.ns = n.ns

\* Once spellings clash the history says no more than that.
Requests(names) == used' = IF Clash(used \cup names) THEN Name ELSE used \cup names
Request(name) == Requests({name})

----------------------------------------------------------------------------
(* The template cache *)

\* MarkdownTemplateCache::get: a hit needs the version of the stored view.
Hit(name, view) == { e \in cache : e.name = name /\ e.version = view.version }

touch(name) == Append(SelectSeq(lru, LAMBDA n : n # name), name)

\* insert and evict_to_capacity, which has at most one entry to evict.
Insert(entry) ==
  LET grown == { e \in cache : e.name # entry.name } \cup {entry}
      order == touch(entry.name)
  IN  IF Cardinality(grown) > Capacity
      THEN cache' = { e \in grown : e.name # Head(order) } /\ lru' = Tail(order)
      ELSE cache' = grown /\ lru' = order

\* remove and retain: the spellings that lose their entry leave the order too.
Retain(kept) ==
  /\ cache' = kept
  /\ lru' = SelectSeq(lru, LAMBDA n : \E e \in kept : e.name = n)

\* compiled_markdown_template: the cache is keyed by the spelling, the version
\* comes from the stored view.
compiled_markdown_template(name, view) ==
  \/ /\ Hit(name, view) # {}
     /\ lru' = touch(name)
     /\ UNCHANGED cache
  \/ /\ Hit(name, view) = {}
     /\ Insert([name |-> name, version |-> view.version, template |-> view.template])

invalidate_markdown_template(name) == Retain({ e \in cache : e.name # name })

\* A slip: qualified spellings are left in the cache.
invalidate_bare_only(doomed) ==
  Retain({ e \in cache : e.name.parts = 1 => e.name.coll \notin { k.coll : k \in doomed } })

\* Bare spellings go when any collection of that name is doomed, qualified
\* ones when they denote a doomed key.
invalidate_markdown_templates_for_collections(doomed) ==
  Retain({ e \in cache : IF e.name.parts = 1
                         THEN e.name.coll \notin { k.coll : k \in doomed }
                         ELSE parse(e.name) \notin doomed })

put_collection_template(name) ==
  /\ Registered(name)
  /\ puts < MaxPuts
  /\ LET key == resolve_catalog_key(name)
     IN  views' = [views EXCEPT ![key] = [version |-> @.version + 1, template |-> puts + 1]]
  /\ puts' = puts + 1
  /\ invalidate_markdown_template(name)
  /\ Request(name)
  /\ UNCHANGED <<namespaces, collections, rows, links, orphans>>

delete_collection_template(name) ==
  /\ Registered(name)
  /\ views' = [views EXCEPT ![resolve_catalog_key(name)] = NoView]
  /\ invalidate_markdown_template(name)
  /\ Request(name)
  /\ UNCHANGED <<namespaces, collections, rows, links, orphans, puts>>

get_entity_markdown(name, id) ==
  /\ Resolves(name)
  /\ LET key == resolve_catalog_key(name)
     IN  /\ [key |-> key, id |-> id] \in rows
         /\ views[key] # NoView
         /\ compiled_markdown_template(name, views[key])
  /\ Request(name)
  /\ UNCHANGED <<namespaces, collections, rows, views, links, puts, orphans>>

----------------------------------------------------------------------------
(* Entities and links *)

\* The row as the entity operations of the handler leave it.  A collection
\* need not be registered to be written.
create_entity(name, id) ==
  /\ Resolves(name)
  /\ rows' = rows \cup {[key |-> resolve_catalog_key(name), id |-> id]}
  /\ Request(name)
  /\ UNCHANGED <<namespaces, collections, views, cacheVars, links, puts, orphans>>

Removes(name, id) ==
  /\ Resolves(name)
  /\ rows' = rows \ {[key |-> resolve_catalog_key(name), id |-> id]}
  /\ Request(name)
  /\ UNCHANGED <<namespaces, collections, views, cacheVars, links, puts>>

LinksTo(name, id) == { l \in links : l.target = [name |-> name, id |-> id] }

\* A slip: the check for inbound links is left out.
delete_entity_unguarded(name, id, force) == Removes(name, id) /\ UNCHANGED orphans

\* Refused while a link is stored to the entity under the spelling of the
\* request, unless the request insists.
delete_entity(name, id, force) ==
  /\ force \/ LinksTo(name, id) = {}
  /\ Removes(name, id)
  /\ orphans' = orphans \cup LinksTo(name, id)

Present(end) ==
  /\ Resolves(end.name)
  /\ [key |-> resolve_catalog_key(end.name), id |-> end.id] \in rows

create_link(source, target) ==
  /\ Cardinality(links) < MaxLinks
  /\ Present(source)
  /\ Present(target)
  /\ [source |-> source, target |-> target] \notin links
  /\ links' = links \cup {[source |-> source, target |-> target]}
  /\ Requests({source.name, target.name})
  /\ UNCHANGED <<namespaces, collections, rows, views, cacheVars, puts, orphans>>

delete_link(source, target) ==
  /\ [source |-> source, target |-> target] \in links
  /\ links' = links \ {[source |-> source, target |-> target]}
  /\ orphans' = orphans \cap links'
  /\ Requests({source.name, target.name})
  /\ UNCHANGED <<namespaces, collections, rows, views, cacheVars, puts>>

----------------------------------------------------------------------------
(* Collections *)

create_collection(name) ==
  LET key == parse(name)
  IN  /\ key.ns \in namespaces
      /\ key \notin collections
      /\ collections' = collections \cup {key}
      /\ Request(name)
      /\ UNCHANGED <<namespaces, rows, views, cacheVars, links, puts, orphans>>

\* remove_catalog_key together with the rows of the key.
RemoveKeys(doomed) ==
  /\ collections' = collections \ doomed
  /\ rows' = { r \in rows : r.key \notin doomed }
  /\ views' = [k \in Key |-> IF k \in doomed THEN NoView ELSE views[k]]

\* Every row is deleted, then the schema, the template and the registration go.
\* Links to the rows stay.
drop_collection(name) ==
  /\ Registered(name)
  /\ RemoveKeys({resolve_catalog_key(name)})
  /\ orphans' = orphans \cup { l \in links : resolve_catalog_key(l.target.name) = resolve_catalog_key(name) }
  /\ invalidate_markdown_template(name)
  /\ Request(name)
  /\ UNCHANGED <<namespaces, links, puts>>

----------------------------------------------------------------------------
(* Namespaces and databases *)

Doomed(gone) == { k \in collections : k.ns \in gone }

\* purge_links_for_collections resolves both ends of every stored link and
\* fails on the first one that does not resolve.
LinksResolve == \A l \in links : Resolves(l.source.name) /\ Resolves(l.target.name)

\* A slip: only the link's target is compared.
LinksIntoByTarget(doomed) ==
  { l \in links : resolve_catalog_key(l.target.name) \in doomed }

LinksInto(doomed) ==
  { l \in links : \/ resolve_catalog_key(l.source.name) \in doomed
                  \/ resolve_catalog_key(l.target.name) \in doomed }

\* The drop of a set of namespaces: links, rows and registrations of their
\* registered collections, then the cached templates.  A link that does not
\* resolve fails the whole drop, which the surrounding transaction undoes.
DropNamespaces(gone) ==
  /\ Doomed(gone) # {} => LinksResolve
  /\ namespaces' = namespaces \ gone
  /\ links' = links \ LinksInto(Doomed(gone))
  /\ orphans' = orphans \cap links'
  /\ RemoveKeys(Doomed(gone))
  /\ invalidate_markdown_templates_for_collections(Doomed(gone))
  /\ UNCHANGED <<puts, used>>

DatabaseOf(db) == { n \in namespaces : n.db = db }

create_namespace(ns) ==
  /\ DatabaseOf(ns.db) # {}
  /\ ns \notin namespaces
  /\ namespaces' = namespaces \cup {ns}
  /\ UNCHANGED <<collections, rows, views, cacheVars, links, puts, used, orphans>>

drop_namespace(ns, force) ==
  /\ ns.schema # Default
  /\ ns \in namespaces
  /\ Doomed({ns}) = {} \/ force
  /\ DropNamespaces({ns})

create_database(db) ==
  /\ DatabaseOf(db) = {}
  /\ namespaces' = namespaces \cup {[db |-> db, schema |-> Default]}
  /\ UNCHANGED <<collections, rows, views, cacheVars, links, puts, used, orphans>>

drop_database(db, force) ==
  /\ db # Default
  /\ DatabaseOf(db) # {}
  /\ Doomed(DatabaseOf(db)) = {} \/ force
  /\ DropNamespaces(DatabaseOf(db))

----------------------------------------------------------------------------
Init ==
  /\ namespaces = {DefaultNs}
  /\ collections = {}
  /\ rows = {}
  /\ views = [k \in Key |-> NoView]
  /\ cache = {} /\ lru = <<>>
  /\ links = {}
  /\ puts = 0
  /\ used = {}
  /\ orphans = {}

Next ==
  \/ \E name \in Name :
       \/ create_collection(name)
       \/ drop_collection(name)
       \/ put_collection_template(name)
       \/ delete_collection_template(name)
       \/ \E id \in Id :
            \/ create_entity(name, id)
            \/ \E force \in BOOLEAN : delete_entity(name, id, force)
            \/ get_entity_markdown(name, id)
  \/ \E source, target \in End : create_link(source, target)
  \/ \E l \in links : delete_link(l.source, l.target)
  \/ \E ns \in Namespace :
       \/ create_namespace(ns)
       \/ create_database(ns.db)
       \/ \E force \in BOOLEAN : drop_namespace(ns, force) \/ drop_database(ns.db, force)

Spec == Init /\ [][Next]_vars

----------------------------------------------------------------------------
(* Properties *)

\* The variables keep their types; the cache holds at most Capacity entries,
\* one per spelling (MarkdownTemplateCache keeps `entries` and `lru` in step).
TypeOK ==
  /\ DefaultNs \in namespaces /\ namespaces \subseteq Namespace
  /\ collections \subseteq { k \in Key : k.ns \in namespaces }
  /\ rows \subseteq Row
  /\ views \in [Key -> [version : 0..MaxPuts, template : 0..MaxPuts]]
  /\ cache \subseteq [name : Name, version : 1..MaxPuts, template : 1..MaxPuts]
  /\ { e.name : e \in cache } = { lru[i] : i \in DOMAIN lru }
  /\ Len(lru) = Cardinality(cache) /\ Len(lru) <= Capacity
  /\ links \subseteq [source : End, target : End]

Mixed == Clash(used)

Fresh(e) ==
  /\ Resolves(e.name)
  /\ LET view == views[resolve_catalog_key(e.name)]
     IN  e.version = view.version /\ e.template = view.template

\* While every collection is named in one way, each cached template is the
\* stored one: template writes, deletions, collection drops, namespace drops
\* and database drops, followed by re-creation, never leave a compiled
\* template behind that a later render could use.
CacheCoherent == ~Mixed => \A e \in cache : Fresh(e)

\* While every collection is named in one way, a link whose target is missing
\* is one whose target a forced deletion or drop_collection removed: other
\* deletions are refused, and namespace and database drops take the links
\* along.
LinksDangleOnlyAfterDrop ==
  ~Mixed => \A l \in links : Present(l.target) \/ l \in orphans

\* What a step that removes registrations takes away: exactly the rows and
\* templates of the removed keys, whatever spelling named them; and, when a
\* namespace goes, exactly the links with an end in it.
Removed == collections \ collections'
DropIsExact ==
  [][Removed # {} =>
       /\ rows' = { r \in rows : r.key \notin Removed }
       /\ \A k \in Key : views'[k] = IF k \in Removed THEN NoView ELSE views[k]
       /\ links \ links' =
            IF namespaces' = namespaces THEN {}
            ELSE { l \in links : \E k \in Removed :
                     k \in {resolve_catalog_key(l.source.name), resolve_catalog_key(l.target.name)} }
    ]_vars

\* FEAT-026: "the cache is invalidated on template update".  A render that
\* hits the cache uses the template that is stored.
RendersAreCurrent ==
  \A e \in cache :
    Resolves(e.name) =>
      LET view == views[resolve_catalog_key(e.name)]
      IN  e.version = view.version => e.template = view.template
=============================================================================
