---------------------------- MODULE MCGovernance ----------------------------
(* An instance of Governance for TLC: each behaviour is of one part, and in *)
(* those of the command line the guard and the loader run as well.          *)
EXTENDS Governance

CONSTANTS top, left, right, one, true, two, brand, style, passerby, trunk, list, leaf, secret, open

VARIABLE part

-----------------------------------------------------------------------------
(* The path guard.                                                         *)

MCPlaces  == {<<"in">>, <<"in", "a">>, <<"in", "b">>, <<"out">>, <<"out", "a">>}
MCTargets == {<<"in", "b">>, <<"out">>, <<"out", "a">>}
MCTrees   == { t \in Trees : \A p \in Places : t[p].kind = "link" => t[p].to \in MCTargets }

FewTrees == { t \in MCTrees :
    /\ t[<<"in">>].kind = "dir" /\ t[<<"out">>].kind = "dir" /\ t[<<"out", "a">>].kind = "file"
    /\ t[<<"in", "a">>].kind \in {"dir", "link"} }

Asking(form, base, names, exists) == [form |-> form, base |-> base, names |-> names, exists |-> exists]

MCNames == {<<"in">>, <<"in", "a">>, <<"in", "a", "a">>, <<"in", "b", "..", "a">>,
            <<"in", "..", "out", "a">>, <<"in", "nul">>}
MCAsked == [form : {"absolute"}, base : {<<>>}, names : MCNames, exists : BOOLEAN]
    \cup [form : {"relative"}, base : {<<"in">>, <<"out">>},
          names : {<<"a">>, <<"..", "in", "b">>}, exists : {TRUE}]
    \cup [form : {"baseless"}, base : {<<>>}, names : {<<"a">>}, exists : {FALSE}]

\* Every tree, and others that change a few of them.
GuardStarts ==
    /\ allowed \in {<<>>, <<<<"in">>>>, <<<<"in">>, <<"out">>>>, <<<<"out">>, <<"in", "a">>>>}
    /\ asked \in MCAsked
    /\ \/ tree \in MCTrees /\ changes = 0
       \/ tree \in FewTrees /\ changes = 1 /\ asked.form = "absolute" /\ asked.exists /\ allowed # <<>>
    /\ GuardInit

GuardRests ==
    /\ tree = [p \in Places |-> [kind |-> "none"]]
    /\ allowed = <<>> /\ asked = Asking("baseless", <<>>, <<>>, FALSE) /\ changes = 0
    /\ GuardInit

-----------------------------------------------------------------------------
(* The loader.                                                             *)

\* Lists and mappings of up to two values, one of which may have a key that
\* is not a string; the last has one value at most.
MCEntries == [value : Values, string : {TRUE}] \cup {[value |-> Scalar, string |-> FALSE]}
MCItems   == { f \in [Containers -> UNION { [1..n -> MCEntries] : n \in 0..2 }] : Len(f[right]) <= 1 }

NoItems == [c \in Containers |-> <<>>]
InItself == [c \in Containers |-> <<[value |-> c, string |-> TRUE]>>]

\* Every document of three containers in a sound file, and every file.
LoadStarts ==
    /\ \/ file = {} /\ root = top /\ items \in MCItems
       \/ file \in SUBSET Defects /\ root = Scalar /\ items = NoItems
    /\ LoaderInit

LoaderRests == file = {} /\ root = Scalar /\ items = NoItems /\ LoaderInit

-----------------------------------------------------------------------------
(* The command line: three invocations over two nonce databases; one while *)
(* others change the tree; and one on a document that contains itself.     *)

MCArguments ==
    [roots : {<<<<"in">>>>}, asked : {Asking("absolute", <<>>, <<"in", "a">>, TRUE)}]

\* What the first argument names is a directory, or a link out of the root.
LineTrees == { t \in FewTrees : t[<<"in", "a">>].kind = "link" => t[<<"in", "a">>].to = <<"out", "a">> }

LineStarts ==
    /\ tree \in LineTrees
    /\ \/ /\ invocations = 3 /\ changes = 0 /\ tree[<<"in", "b">>].kind = "file"
          /\ root = Scalar /\ items = NoItems
       \/ /\ invocations = 1 /\ changes = 1 /\ tree[<<"in", "b">>].kind = "none"
          /\ root = Scalar /\ items = NoItems
       \/ /\ invocations = 1 /\ changes = 0 /\ tree[<<"in", "b">>].kind = "none"
          /\ root = top /\ items = InItself
    /\ file = {}
    /\ allowed = <<>> /\ asked = Asking("baseless", <<>>, <<>>, FALSE)
    /\ GuardInit /\ LoaderInit
    /\ database \in {CHOOSE d \in Databases : TRUE} /\ LineInit

LineRests == invocations = 0 /\ database \in {CHOOSE d \in Databases : TRUE} /\ LineInit

-----------------------------------------------------------------------------
(* The merge: every list of up to two segments, and of three that all give *)
(* one key.                                                                *)

MCEqual == {<<v, v>> : v \in Literals} \cup {<<one, true>>, <<true, one>>}

ColorSegments == [owner : Owners, values : [{"color"} -> Literals]]

MergeStarts ==
    /\ segments \in UNION { [1..n -> Segments] : n \in 0..2 } \cup [1..3 -> ColorSegments]
    /\ MergerInit

MergerRests == segments = <<>> /\ MergerInit

-----------------------------------------------------------------------------
(* The checkers: two blocking checks and one that only reports, in two     *)
(* phases; a handler that is satisfied by all, one by clean subjects, and  *)
(* one that cleans what it is given.                                       *)

MCDefinitions ==
    << [id |-> "crs", phase |-> "before", severity |-> "blocker"],
       [id |-> "font", phase |-> "after", severity |-> "error"],
       [id |-> "seal", phase |-> "before", severity |-> "blocker"],
       [id |-> "page", phase |-> "before", severity |-> "error"] >>
MCPasses  == [lax |-> Subjects, strict |-> {"clean"}, cleaner |-> Subjects]
MCRewrite == [lax |-> [s \in Subjects |-> s], strict |-> [s \in Subjects |-> s],
              cleaner |-> [s \in Subjects |-> "clean"]]

CheckerStarts == subject \in Subjects /\ CheckerInit
CheckerRests  == subject = "clean" /\ CheckerInit

-----------------------------------------------------------------------------
(* The knowledge service: up to two records, which all are about the river.*)

MCRecords == { r \in Records : "river" \in r.text /\ r.jurisdiction # "south" }

MCRegistered ==
    [dictionary |-> [access |-> "local-read-only", classification |-> "internal"],
     gazette    |-> [access |-> "local-read-only", classification |-> "public"],
     remote     |-> [access |-> "network", classification |-> "public"]]

KnowledgeStarts ==
    /\ records \in UNION { [1..n -> MCRecords] : n \in 0..2 }
    /\ query = CHOOSE q \in Queries : TRUE
    /\ KnowledgeInit
KnowledgeRests ==
    records = <<>> /\ query = (CHOOSE q \in Queries : TRUE) /\ KnowledgeInit

-----------------------------------------------------------------------------
(* The probe.                                                              *)

ProbeStarts == world \in [ToolNames -> Behaviours] /\ fonts \in BOOLEAN /\ ProbeInit
ProbeRests  == world = [t \in ToolNames |-> "absent"] /\ fonts = FALSE /\ ProbeInit

-----------------------------------------------------------------------------
(* The decisions: a value with a list inside a mapping, which may also be  *)
(* reached from elsewhere.                                                 *)

NoHeld == [p \in Parts |-> <<>>]
TrunkEntries == [key : Names \ {"item"}, value : {list, secret, open}]
ListEntries  == [key : {"item"}, value : {leaf, secret, open}]
LeafEntries  == [key : Names \ {"item"}, value : {secret, open}]

AccessStarts ==
    /\ \/ held = NoHeld /\ question \in { q \in Questions : q.kind # "stage" }
       \/ /\ question \in [kind : {"stage"}, role : {"planner", "composer", "other"}, value : {trunk}]
          /\ \E t \in UNION { [1..n -> TrunkEntries] : n \in 0..2 },
                l \in UNION { [1..n -> ListEntries] : n \in 0..2 }, f \in LeafEntries :
               held = [NoHeld EXCEPT ![trunk] = t, ![list] = l, ![leaf] = <<f>>]
    /\ AccessInit
AccessRests ==
    /\ held = NoHeld /\ question = [kind |-> "prepare", scoped |-> FALSE, operations |-> {}]
    /\ AccessInit

-----------------------------------------------------------------------------
(* The registries: a catalog from up to two entries; up to two schema      *)
(* files, or three with a known dialect and an identifier each.            *)

CatalogStarts ==
    given \in UNION { [1..n -> CatalogEntries] : n \in 0..2 } /\ documents = <<>>
SoundFiles   == [id : SchemaIds, dialect : {TRUE}]
SchemaStarts ==
    given = <<>> /\ documents \in UNION { [1..n -> SchemaFiles] : n \in 0..2 } \cup [1..3 -> SoundFiles]

RegistriesRest == given = <<>> /\ documents = <<>> /\ RegistriesInit

-----------------------------------------------------------------------------

MCInit ==
    /\ part \in {"guard", "loader", "line", "merger", "checker", "knowledge", "probe",
                 "access", "catalog", "schemas"}
    /\ CASE part = "guard" -> GuardStarts /\ LoaderRests /\ LineRests
         [] part = "loader" -> GuardRests /\ LoadStarts /\ LineRests
         [] part = "line" -> LineStarts
         [] OTHER -> GuardRests /\ LoaderRests /\ LineRests
    /\ IF part = "merger" THEN MergeStarts ELSE MergerRests
    /\ IF part = "checker" THEN CheckerStarts ELSE CheckerRests
    /\ IF part = "knowledge" THEN KnowledgeStarts ELSE KnowledgeRests
    /\ IF part = "probe" THEN ProbeStarts ELSE ProbeRests
    /\ IF part = "access" THEN AccessStarts ELSE AccessRests
    /\ CASE part = "catalog" -> CatalogStarts /\ RegistriesInit
         [] part = "schemas" -> SchemaStarts /\ RegistriesInit
         [] OTHER -> RegistriesRest

\* Steps of the part alone.
MCNext ==
    /\ UNCHANGED part
    /\ \/ part = "line" /\ CommandStep
       \/ part = "guard" /\ GuardStep
       \/ part = "loader" /\ LoaderStep
       \/ part = "merger" /\ MergerStep
       \/ part = "checker" /\ CheckerStep
       \/ part = "knowledge" /\ KnowledgeStep
       \/ part = "probe" /\ ProbeStep
       \/ part = "access" /\ AccessStep
       \/ part \in {"catalog", "schemas"} /\ RegistriesStep

MCSpec == MCInit /\ [][MCNext]_<<vars, part>>
=============================================================================
