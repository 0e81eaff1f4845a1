------------------------------ MODULE Knowledge ------------------------------
(***************************************************************************)
(* DomainKnowledgeService (repository/knowledge.py): a query goes through  *)
(* all records in their order and collects evidence from those that match. *)
(* The text of a record and the terms of a query are sets of words: those  *)
(* that occur in the text, and those that are looked for.                  *)
(***************************************************************************)
EXTENDS Naturals, Sequences, FiniteSets

CONSTANTS
    Words,
    Sources,         \* ids that a record may name
    Registered,      \* the policy's sources: [SUBSET Sources -> [access, classification]]
    Jurisdictions,   \* with "general" among them
    Askers           \* classifications of an access context, with "public" among them

ASSUME KnowledgeAssumption ==
    /\ "general" \in Jurisdictions
    /\ DOMAIN Registered \subseteq Sources

VARIABLES
    records,    \* the service's records
    query,      \* the query in progress or the last one
    consulted,  \* records that it has been through
    evidence,   \* the records that its results were made from
    answer,     \* where the query is, or how it ended
    answers     \* history: how queries have ended

knowledge == <<records, query, consulted, evidence, answer, answers>>

\* usable: it has a publisher, a reference and a version, and the evidence
\* that is made of it fits the schema.
Records == [source : Sources, text : SUBSET Words, jurisdiction : Jurisdictions, usable : BOOLEAN]
Queries == [terms : SUBSET Words, applicability : Jurisdictions, asker : Askers]

Answers == {"empty", "unregistered", "denied", "unusable", "answered"}

KnowledgeInit ==
    /\ consulted = 0
    /\ evidence = <<>>
    /\ answer = "idle"
    /\ answers = {}

EndQuery(how) ==
    /\ answer' = how
    /\ answers' = answers \cup {how}

Lookup(q) ==
    /\ answer # "looking"
    /\ query' = q
    /\ consulted' = 0
    /\ evidence' = <<>>
    /\ IF q.terms = {} THEN EndQuery("empty") ELSE answer' = "looking" /\ UNCHANGED answers
    /\ UNCHANGED records

Consulting == answer = "looking" /\ consulted < Len(records)

Record == records[consulted + 1]

Readable(r) == r.source \in DOMAIN Registered /\ Registered[r.source].access = "local-read-only"

\* A filter that takes "general" for a jurisdiction like any other.
MatchesLiterally(r) ==
    /\ query.asker = "public" => Registered[r.source].classification = "public"
    /\ query.terms \subseteq r.text
    /\ query.applicability = r.jurisdiction

Matches(r) ==
    /\ query.asker = "public" => Registered[r.source].classification = "public"
    /\ query.terms \subseteq r.text
    /\ query.applicability \in {"general", r.jurisdiction} \/ r.jurisdiction = "general"

RefuseSource ==
    /\ Consulting
    /\ ~ Readable(Record)
    /\ EndQuery(IF Record.source \in DOMAIN Registered THEN "denied" ELSE "unregistered")
    /\ UNCHANGED <<records, query, consulted, evidence>>

PassRecord ==
    /\ Consulting
    /\ Readable(Record)
    /\ ~ Matches(Record)
    /\ consulted' = consulted + 1
    /\ UNCHANGED <<records, query, evidence, answer, answers>>

Collect ==
    /\ Consulting
    /\ Readable(Record)
    /\ Matches(Record)
    /\ Record.usable
    /\ consulted' = consulted + 1
    /\ evidence' = Append(evidence, consulted')
    /\ UNCHANGED <<records, query, answer, answers>>

\* KeyError, or the schema refuses the evidence.
FailRecord ==
    /\ Consulting
    /\ Readable(Record)
    /\ Matches(Record)
    /\ ~ Record.usable
    /\ EndQuery("unusable")
    /\ UNCHANGED <<records, query, consulted, evidence>>

Answer ==
    /\ answer = "looking"
    /\ consulted = Len(records)
    /\ EndQuery("answered")
    /\ UNCHANGED <<records, query, consulted, evidence>>

KnowledgeNext ==
    \/ \E q \in Queries : Lookup(q)
    \/ RefuseSource \/ PassRecord \/ Collect \/ FailRecord \/ Answer

-----------------------------------------------------------------------------
(* Properties.                                                             *)

KnowledgeTypeOK ==
    /\ records \in Seq(Records)
    /\ query \in Queries
    /\ consulted \in 0..Len(records)
    /\ evidence \in Seq(1..Len(records))
    /\ answer \in Answers \cup {"idle", "looking"}
    /\ answers \subseteq Answers

\* An answer is given only if every record, also those that do not match, is
\* of a registered source that may be read; and it has one piece of evidence,
\* in the order of the records, for each record that contains every term and
\* holds where the query asks, with nothing from a source that is not public
\* for an asker who is (knowledge.py:42-74).
AnswersAreExact ==
    answer = "answered" =>
        /\ \A i \in DOMAIN records :
             /\ records[i].source \in DOMAIN Registered
             /\ Registered[records[i].source].access = "local-read-only"
        /\ { evidence[n] : n \in DOMAIN evidence } =
             { i \in DOMAIN records :
                 /\ query.terms \ records[i].text = {}
                 /\ \/ records[i].jurisdiction \in {query.applicability, "general"}
                    \/ query.applicability = "general"
                 /\ ~ (query.asker = "public"
                       /\ Registered[records[i].source].classification # "public") }
        /\ \A m, n \in DOMAIN evidence : m < n => evidence[m] < evidence[n]

\* One record of a source that is not registered, or may not be read, fails
\* all queries, those that it does not answer included (knowledge.py:45-48):
\* a service that has refused one for that reason never answers any.
SourcesFailForAll == {"unregistered", "denied"} \cap answers # {} => "answered" \notin answers
=============================================================================
