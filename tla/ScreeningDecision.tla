-------------------------- MODULE ScreeningDecision --------------------------
(***************************************************************************)
(* From the replies of the sanctions sources to the decision on a subject   *)
(* (sanctions_determinism.py, ingestion.py, screening.py), as operators.     *)
(*                                                                          *)
(* A name is its words in Latin letters and digits and its spelling: case,   *)
(* punctuation and spacing do not survive normalisation, other scripts leave *)
(* nothing.  A body of a source is what a reader finds listed in it and      *)
(* whether it parses; a hash is what it is the hash of.  How alike two        *)
(* normalised names are (trigrams, rounded to 0 .. 100) is a parameter.      *)
(***************************************************************************)
EXTENDS Integers, SequencesExt

CONSTANTS
    FirstNames, LastNames,  \* the words of names
    Spellings,              \* ways to write them; "other script" is not Latin
    FuzzyScore              \* the score from which on a similar name is a hit (90)

ASSUME ScreeningAssumption ==
    /\ IsFiniteSet(FirstNames) /\ IsFiniteSet(LastNames) /\ IsFiniteSet(Spellings)
    /\ FuzzyScore \in 1 .. 100

Sources == {"EU", "OFAC", "UN"}
SourceOrder == <<"EU", "OFAC", "UN">>

\* A name is a first name alone or with a last name.
Texts == [first : FirstNames, rest : LastNames \union {""}]
Names == [text : Texts, spelling : Spellings]
Nothing == [first |-> "", rest |-> ""]
NormalForms == Texts \union {Nothing}

normalise_name(name) == IF name.spelling = "other script" THEN Nothing ELSE name.text

-----------------------------------------------------------------------------
\* fetch_source: what the session raises becomes a status.  The body of an error
\* answer is kept and hashed like any other.
FetchSource(reply) ==
    IF reply.raised THEN [status |-> "exception", content |-> <<>>]
    ELSE [status |-> IF reply.code = 200 THEN "ok" ELSE "http_error",
          content |-> <<reply.body>>]

\* The EU list falls back to a search of the raw bytes; of an entry of the UN list
\* only the FIRST_NAME is taken.
parse_eu_names(body) == body.names
parse_ofac_names(body) == IF body.parses THEN body.names ELSE {}
FirstName(name) == [name EXCEPT !.text.rest = ""]
parse_un_names(body) == IF body.parses THEN {FirstName(n) : n \in body.names} ELSE {}
ParseNames(source, body) ==
    CASE source = "EU" -> parse_eu_names(body)
      [] source = "OFAC" -> parse_ofac_names(body)
      [] source = "UN" -> parse_un_names(body)

normalised_name_set(names) == {normalise_name(n) : n \in names} \ {Nothing}

\* Mutant of compute_list_version: the hashes without the statuses.
ListVersionOfContents(ts, fetched) == <<ts, [s \in Sources |-> fetched[s].content]>>

compute_list_version(ts, fetched) ==
    <<ts, [s \in Sources |-> <<fetched[s].content, fetched[s].status>>]>>

\* ingest_sources never fails for a source: only an "ok" body is parsed, any other
\* source has no names.
IngestSources(ts, replies) ==
    LET fetched == [s \in Sources |-> FetchSource(replies[s])]
        names == [s \in Sources |-> IF fetched[s].status = "ok"
                                    THEN ParseNames(s, fetched[s].content[1]) ELSE {}]
    IN  [version |-> compute_list_version(ts, fetched),
         sets    |-> [s \in Sources |-> normalised_name_set(names[s])],
         status  |-> [s \in Sources |-> fetched[s].status],
         entries |-> [s \in Sources |-> Cardinality(names[s])]]

-----------------------------------------------------------------------------
\* A subject: a name, and whether a country and a date of birth were given.
Subjects == [name : Names, country : BOOLEAN, dob : BOOLEAN]

compute_screening_key(version, subject) == <<version, subject>>

\* An exact hit blocks; else the most similar name of all decides.
Match(norm, sets, alike) ==
    LET hits == {s \in Sources : norm \in sets[s]}
        Score(s) == Max({0} \union {alike[norm, c] : c \in sets[s]})
        best == Max({Score(s) : s \in Sources})
        bestSource == SourceOrder[SelectInSeq(SourceOrder, LAMBDA s : Score(s) = best)]
    IN  IF hits # {}
        THEN [decision |-> "block", hits |-> hits, score |-> 100]
        ELSE IF best >= FuzzyScore
        THEN [decision |-> "review", hits |-> {bestSource}, score |-> best]
        ELSE [decision |-> "allow", hits |-> {}, score |-> best]

Penalty(subject) == (IF subject.country THEN 5 ELSE 0) + (IF subject.dob THEN 5 ELSE 0)

\* What a hit is worth once a country or a date of birth is given.
Lowered(match, subject) ==
    LET capped == IF match.decision = "block" THEN Min({match.score, 85}) ELSE match.score
    IN  Max({0, Min({100, capped - Penalty(subject)})})

\* Mutant of Disambiguate: the lowered score is held against the threshold again.
DisambiguateAgain(match, subject) ==
    IF match.decision = "allow" \/ Penalty(subject) = 0 THEN match
    ELSE [match EXCEPT !.score = Lowered(match, subject),
                       !.decision = IF Lowered(match, subject) >= FuzzyScore
                                    THEN "review" ELSE "allow"]

\* With a country or a date of birth a block becomes a review, and the score of a
\* review drops.
Disambiguate(match, subject) ==
    IF match.decision = "allow" \/ Penalty(subject) = 0 THEN match
    ELSE [match EXCEPT !.decision = "review", !.score = Lowered(match, subject)]

screen_subject_name(subject, sets, alike) ==
    Disambiguate(Match(normalise_name(subject.name), sets, alike), subject)

-----------------------------------------------------------------------------
Bodies == [names : {{}} \union {{n} : n \in Names}, parses : BOOLEAN]
Replies == [raised : {FALSE}, code : {200, 503}, body : Bodies]
           \union {[raised |-> TRUE]}
\* Every reply of one source next to every reply of another; the third is quiet.
ReplySets ==
    LET quiet == [raised |-> TRUE] IN
    {[s \in Sources |-> IF s = a THEN r ELSE IF s = b THEN q ELSE quiet] :
        a \in {"EU", "OFAC"}, b \in {"OFAC", "UN"}, r \in Replies, q \in Replies}
\* Two different names can have any similarity, up to the same trigrams; a name
\* that is empty has none.
Similarities ==
    {[p \in NormalForms \X NormalForms |->
        IF Nothing \in {p[1], p[2]} THEN 0 ELSE IF p[1] = p[2] THEN 100 ELSE v] :
     v \in {0, FuzzyScore - 1, FuzzyScore, 100}}

\* What a screening is stored and found again under determines its result: two
\* ingests with one list version gave the same name sets, whatever the sources
\* answered, so a pack that is found by its key says what a new one would.
KeyDetermines ==
    LET artifacts == {IngestSources(0, replies) : replies \in ReplySets} IN
    \A subject \in Subjects, alike \in Similarities :
        LET keyed == {<<compute_screening_key(a.version, subject),
                        screen_subject_name(subject, a.sets, alike)>> : a \in artifacts}
        IN  Cardinality({k[1] : k \in keyed}) = Cardinality(keyed)

\* Nobody slips through unseen: a subject whose name a source listed is allowed
\* only if the artifact shows that source as failed, or as having no entries, or
\* if nothing of the name is left in Latin letters, or only its first word was
\* taken; nobody is blocked whose name, so read, no source lists, or whose
\* country or date of birth was given.
DecisionExplained ==
    \A replies \in ReplySets, subject \in Subjects :
        LET a == IngestSources(0, replies)
            norm == normalise_name(subject.name)
            Lists(s, n) == ~replies[s].raised /\ n \in replies[s].body.names
            Same(n) == normalise_name(n) = norm
        IN  \A alike \in Similarities :
            LET result == screen_subject_name(subject, a.sets, alike) IN
            /\ result.decision = "allow" =>
                 \A s \in Sources, n \in Names :
                    Lists(s, n) /\ Same(n) =>
                       \/ a.status[s] # "ok" \/ a.entries[s] = 0
                       \/ norm = Nothing
                       \/ (s = "UN" /\ n # FirstName(n))
            /\ result.decision = "block" =>
                 /\ Penalty(subject) = 0
                 /\ \A s \in result.hits : \E n \in Names :
                       Lists(s, n) /\ (Same(n) \/ (s = "UN" /\ Same(FirstName(n))))
=============================================================================
