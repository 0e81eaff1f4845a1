----------------------------- MODULE Registries -----------------------------
(***************************************************************************)
(* Tables to which entries are only added: VersionedCatalog                *)
(* (repository/catalog.py), RouteRegistry (workflow/router.py) and the     *)
(* table of schemas that SchemaRegistry builds when it is constructed      *)
(* (schema_registry.py).                                                   *)
(*                                                                         *)
(* The handler of a route is a caller's code: it may register routes and   *)
(* dispatch others before it returns.                                      *)
(***************************************************************************)
EXTENDS Naturals, Sequences, FiniteSets

CONSTANTS
    Items, Versions, Contents,   \* of the catalog
    Routes, Handlers,            \* of the routes
    MaxNested,                   \* bound: handlers in progress
    SchemaIds,                   \* values of $id that are strings
    Absent                       \* no entry

ASSUME RegistriesAssumption ==
    /\ MaxNested \in Nat
    /\ Absent \notin Contents \cup Handlers \cup SchemaIds

VARIABLES
    given,      \* entries that the catalog is constructed from
    catalog,    \* its entries, by item and version
    opened,     \* whether it could be constructed
    routes,     \* the handler of each route
    handling,   \* dispatches in progress: the route and its handler
    documents,  \* the schema files in their order: [id, dialect]
    schemas,    \* the table: the places of the files that are in it
    built       \* whether the SchemaRegistry could be constructed

registries == <<given, catalog, opened, routes, handling, documents, schemas, built>>

CatalogKeys    == Items \X Versions
CatalogEntries == [key : CatalogKeys, value : Contents]
SchemaFiles    == [id : SchemaIds \cup {Absent}, dialect : BOOLEAN]

RegistriesInit ==
    /\ catalog = [k \in CatalogKeys |-> Absent]
    /\ opened = "opening"
    /\ routes = [r \in Routes |-> Absent]
    /\ handling = <<>>
    /\ schemas = <<>>
    /\ built = "building"

-----------------------------------------------------------------------------
(* VersionedCatalog.                                                       *)

Register(k, v) == catalog[k] = Absent /\ catalog' = [catalog EXCEPT ![k] = v]

\* The constructor registers the first of the entries that are left; at a
\* duplicate there is no catalog.
OpenNext ==
    /\ opened = "opening"
    /\ given # <<>>
    /\ \/ Register(Head(given).key, Head(given).value) /\ given' = Tail(given) /\ UNCHANGED opened
       \/ catalog[Head(given).key] # Absent /\ opened' = "refused" /\ UNCHANGED <<given, catalog>>
    /\ UNCHANGED <<routes, handling, documents, schemas, built>>

Opened ==
    /\ opened = "opening"
    /\ given = <<>>
    /\ opened' = "opened"
    /\ UNCHANGED <<given, catalog, routes, handling, documents, schemas, built>>

RegisterEntry(k, v) ==
    /\ opened = "opened"
    /\ Register(k, v)
    /\ UNCHANGED <<given, opened, routes, handling, documents, schemas, built>>

-----------------------------------------------------------------------------
(* RouteRegistry.                                                          *)

RegisterRoute(r, h) ==
    /\ routes[r] = Absent
    /\ routes' = [routes EXCEPT ![r] = h]
    /\ UNCHANGED <<given, catalog, opened, handling, documents, schemas, built>>

\* ROUTE_NOT_IMPLEMENTED leaves everything as it is.
DispatchRoute(r) ==
    /\ routes[r] # Absent
    /\ Len(handling) < MaxNested
    /\ handling' = Append(handling, [route |-> r, handler |-> routes[r]])
    /\ UNCHANGED <<given, catalog, opened, routes, documents, schemas, built>>

\* The innermost handler returns or raises.
HandlerReturns ==
    /\ handling # <<>>
    /\ handling' = SubSeq(handling, 1, Len(handling) - 1)
    /\ UNCHANGED <<given, catalog, opened, routes, documents, schemas, built>>

-----------------------------------------------------------------------------
(* SchemaRegistry.                                                         *)

NextSchema == documents[Len(schemas) + 1]

\* A test that compares a file with the one before it only.
DuplicateOfLast == schemas # <<>> /\ documents[Len(schemas)].id = NextSchema.id

DuplicateId == \E i \in DOMAIN schemas : documents[schemas[i]].id = NextSchema.id

Building == built = "building" /\ Len(schemas) < Len(documents)

\* Names of files in one directory are distinct, so SCHEMA_NAME_DUPLICATE is
\* never raised.
AddSchema ==
    /\ Building
    /\ NextSchema.id # Absent /\ NextSchema.dialect /\ ~ DuplicateId
    /\ schemas' = Append(schemas, Len(schemas) + 1)
    /\ UNCHANGED <<given, catalog, opened, routes, handling, documents, built>>

RefuseSchema ==
    /\ Building
    /\ NextSchema.id = Absent \/ ~ NextSchema.dialect \/ DuplicateId
    /\ built' = "refused"
    /\ UNCHANGED <<given, catalog, opened, routes, handling, documents, schemas>>

FinishSchemas ==
    /\ built = "building"
    /\ Len(schemas) = Len(documents)
    /\ built' = IF schemas = <<>> THEN "refused" ELSE "built"
    /\ UNCHANGED <<given, catalog, opened, routes, handling, documents, schemas>>

RegistriesNext ==
    \/ OpenNext \/ Opened \/ \E k \in CatalogKeys, v \in Contents : RegisterEntry(k, v)
    \/ \E r \in Routes, h \in Handlers : RegisterRoute(r, h)
    \/ \E r \in Routes : DispatchRoute(r)
    \/ HandlerReturns
    \/ AddSchema \/ RefuseSchema \/ FinishSchemas

-----------------------------------------------------------------------------
(* Properties.                                                             *)

RegistriesTypeOK ==
    /\ given \in Seq(CatalogEntries)
    /\ catalog \in [CatalogKeys -> Contents \cup {Absent}]
    /\ opened \in {"opening", "opened", "refused"}
    /\ routes \in [Routes -> Handlers \cup {Absent}]
    /\ handling \in Seq([route : Routes, handler : Handlers])
    /\ documents \in Seq(SchemaFiles)
    /\ schemas \in Seq(DOMAIN documents)
    /\ built \in {"building", "built", "refused"}

\* What is registered under a key stays there: no step of a constructor, a
\* caller or a handler in progress replaces or removes an entry, so whoever
\* has looked one up may rely on it (catalog.py:26-28, router.py:14-16).
EntryStays ==
    /\ \A k \in CatalogKeys : catalog[k] # Absent => catalog'[k] = catalog[k]
    /\ \A r \in Routes : routes[r] # Absent => routes'[r] = routes[r]

EntriesStay == [][EntryStays]_registries

\* A handler that runs is the one that its route has now, however many routes
\* it has registered since it was called (router.py:18-23).  A SchemaRegistry
\* that could be constructed has a schema for every file, each with an $id of
\* its own and the one dialect, and at least one (schema_registry.py:63-85).
TablesAreWhole ==
    /\ \A n \in DOMAIN handling : routes[handling[n].route] = handling[n].handler
    /\ built = "built" =>
         /\ documents # <<>>
         /\ Len(schemas) = Len(documents)
         /\ \A i, j \in DOMAIN documents :
              /\ documents[i].id \in SchemaIds /\ documents[i].dialect
              /\ documents[i].id = documents[j].id => i = j
=============================================================================
