----------------------------- MODULE Retrieval -----------------------------
(***************************************************************************)
(* How `find` ranks Skills for a task (src/query.rs): one lexical channel  *)
(* without hints, and with hints the ranks of the task alone and of task   *)
(* plus hints fused, with the strongest match of the task protected.       *)
(*                                                                         *)
(* Text is a sequence of tokens, and a token is a number.  An observation  *)
(* is what one content of a Skill declares: [id, content, name, triggers,  *)
(* description, avoid]; `avoid` is what its description says it is not     *)
(* for.  Several contents may share an id, several Skills a name.          *)
(***************************************************************************)
EXTENDS Naturals, Sequences, FiniteSetsExt, SequencesExt

CONSTANTS NameOrder,  \* name -> its place in the order of strings
          PoolLimit   \* MAX_FIND_RESULTS, the pool that is fused

ASSUME RetrievalAssumption == PoolLimit \in Nat \ {0}

Tokens(text) == ToSet(text)
Mentions(text, phrase) == \E i \in 0 .. Len(text) - Len(phrase) : SubSeq(text, i + 1, i + Len(phrase)) = phrase

(* from_task_and_hints: a query is [phrases, positive, excluded]: the task *)
(* and the hints, the tokens of the task, and its clauses of what not to   *)
(* do.                                                                     *)
QueryOf(task, hints) ==
    [phrases |-> {p \in {task.text} \union hints : p # <<>>},
     positive |-> Tokens(task.text), excluded |-> task.excluded]
QueryTokens(query) == UNION {Tokens(p) : p \in query.phrases}
Forbidden(query) == (UNION {Tokens(p) : p \in query.excluded}) \ query.positive

-----------------------------------------------------------------------------
(* One observation.                                                        *)

Declared(o) == Tokens(o.name) \union Tokens(o.triggers) \union Tokens(o.description)
CommonTokens(query, text) == Cardinality(QueryTokens(query) \cap Tokens(text))

(* A Skill that declares what the task excludes is no candidate.           *)
Prohibited(query, o) == Forbidden(query) \cap Declared(o) # {}

SomePhrase(query, text) == text # <<>> /\ \E p \in query.phrases : Mentions(text, p)
PhraseReasons(query, o) ==
    (IF o.name \in query.phrases THEN {"exact_name"}
     ELSE IF SomePhrase(query, o.name) THEN {"name_phrase"} ELSE {})
        \union (IF SomePhrase(query, o.triggers) THEN {"declared_trigger"} ELSE {})
        \union (IF SomePhrase(query, o.description) THEN {"description_phrase"} ELSE {})
        \union (IF \E p \in query.phrases : Cardinality(Tokens(p)) >= 2 /\ Tokens(p) \subseteq Tokens(o.description)
                THEN {"description_token_phrase"} ELSE {})
CountReasons(query, o) ==
    {r \in {<<"name_tokens", CommonTokens(query, o.name)>>, <<"trigger_tokens", CommonTokens(query, o.triggers)>>,
            <<"description_tokens", CommonTokens(query, o.description)>>} : r[2] > 0}

Worth(reason) ==
    CASE reason = "exact_name" -> 100 [] reason = "name_phrase" -> 45 [] reason = "declared_trigger" -> 35
      [] reason = "description_phrase" -> 25 [] OTHER -> 0
Penalty(query, o) == LET n == CommonTokens(query, o.avoid) IN IF n >= 2 THEN 18 * n ELSE 0
Gain(query, o) ==
    24 * CommonTokens(query, o.name) + 18 * CommonTokens(query, o.triggers) + 12 * CommonTokens(query, o.description)
        + 3 * Cardinality(QueryTokens(query) \cap (Declared(o) \union Tokens(o.avoid)))
        + SumSet({Worth(r) : r \in PhraseReasons(query, o)})

(* match_reason_count: the first reason of a kind, in the order of         *)
(* strings; counts have one digit.                                         *)
Counted(match, kind) == LET found == {r \in match.counts : r[1] = kind}
                        IN  IF found = {} THEN 0 ELSE Min({r[2] : r \in found})

Scored(query, o) ==
    [id |-> o.id, content |-> o.content, name |-> o.name, score |-> Gain(query, o) - Penalty(query, o),
     reasons |-> PhraseReasons(query, o), counts |-> CountReasons(query, o)]
Scores(query, observations) ==
    {Scored(query, o) : o \in {o \in observations : ~Prohibited(query, o) /\ Gain(query, o) > Penalty(query, o)}}

Before(a, b) ==
    \/ a.score > b.score
    \/ /\ a.score = b.score
       /\ \/ NameOrder[a.name] < NameOrder[b.name]
          \/ a.name = b.name /\ (a.id < b.id \/ (a.id = b.id /\ a.content < b.content))

(* The best observation of each Skill, then the best Skill of each name.   *)
BestOf(matches, field(_)) == {m \in matches : \A n \in matches \ {m} : field(n) = field(m) => Before(m, n)}
Capabilities(matches) ==
    LET IdOf(m) == m.id
        NameOf(m) == m.name
    IN  SetToSortSeq(BestOf(BestOf(matches, IdOf), NameOf), Before)

(* trim_low_confidence_tail *)
Strong(match) == match.reasons # {} \/ match.counts # {}
Trimmed(matches, least, tokens) ==
    LET kept == SelectSeq(matches, LAMBDA m : 2 * m.score >= matches[1].score /\ m.score >= least)
    IN  IF matches # <<>> /\ kept # <<>> /\ tokens = 1 /\ ~Strong(kept[1])
        THEN SubSeq(kept, 1, Min({3, Len(kept)})) ELSE kept

Prefix(seq, n) == SubSeq(seq, 1, Min({n, Len(seq)}))

(* find_matching *)
Matching(observations, query, limit) ==
    IF query.phrases = {} \/ limit = 0 THEN <<>>
    ELSE Prefix(Trimmed(Capabilities(Scores(query, observations)), 3, Cardinality(QueryTokens(query))), limit)

-----------------------------------------------------------------------------
(* Fusion of the two channels.  Reciprocal ranks are counted in parts of   *)
(* 1/60, exact as long as there are four capabilities.                     *)

Share(rank) == 60 \div (1 + rank)
NoRank == PoolLimit + 1

MetadataReasons == {"exact_name", "name_phrase", "declared_trigger", "description_phrase"}
DirectMetadata(match) == match.reasons \cap MetadataReasons # {}
Protectable(match) ==
    DirectMetadata(match)
        \/ \E kind \in {"name_tokens", "trigger_tokens", "description_tokens"} : Counted(match, kind) >= 2
CompleteName(match) == Counted(match, "name_tokens") = Cardinality(Tokens(match.name))
DirectHint(match) == DirectMetadata(match) \/ CompleteName(match) \/ Counted(match, "trigger_tokens") >= 2

(* has_strong_verified_load_evidence *)
LoadEvidence(match) ==
    match.reasons \cap {"exact_name", "declared_trigger", "description_token_phrase"} # {} \/ CompleteName(match)

SameObservation(a, b) == a.id = b.id /\ a.content = b.content /\ a.name = b.name

Joined(a, b) == [b EXCEPT !.reasons = @ \union a.reasons, !.counts = @ \union a.counts]
OnlyTask(match, rank) ==
    [match |-> match, task |-> rank, augmented |-> NoRank, score |-> Share(rank), keep |-> Protectable(match)]
OnlyAugmented(match, rank) ==
    [match |-> match, task |-> NoRank, augmented |-> rank, score |-> 3 * Share(rank), keep |-> FALSE]
Both(entry, match, rank) ==
    [entry EXCEPT !.match = IF SameObservation(entry.match, match) THEN Joined(entry.match, match) ELSE match,
                  !.augmented = rank, !.score = @ + 3 * Share(rank),
                  !.keep = @ /\ SameObservation(entry.match, match)]

(* Where a match of the second channel joins one of the first: at the same *)
(* Skill, or else at the same name.                                        *)
Partner(entries, match) ==
    LET same == {i \in DOMAIN entries : entries[i].match.id = match.id}
        named == {i \in DOMAIN entries : entries[i].match.name = match.name}
    IN  IF same # {} THEN Min(same) ELSE IF named # {} THEN Min(named) ELSE 0
Join(entries, match, rank) ==
    LET i == Partner(entries, match)
    IN  IF i = 0 THEN Append(entries, OnlyAugmented(match, rank))
        ELSE [entries EXCEPT ![i] = Both(@, match, rank)]
Entries(task, augmented) ==
    LET joined[n \in 0 .. Len(augmented)] ==
            IF n = 0 THEN [i \in DOMAIN task |-> OnlyTask(task[i], i)] ELSE Join(joined[n - 1], augmented[n], n)
    IN  joined[Len(augmented)]

Leads(a, b) ==
    \/ a.score > b.score
    \/ /\ a.score = b.score
       /\ \/ a.augmented < b.augmented
          \/ /\ a.augmented = b.augmented
             /\ \/ a.task < b.task
                \/ a.task = b.task /\ (NameOrder[a.match.name] < NameOrder[b.match.name]
                                       \/ (a.match.name = b.match.name /\ a.match.id < b.match.id))

(* One entry for each Skill and each name. *)
Distinct(entries) ==
    LET kept[n \in 0 .. Len(entries)] ==
            IF n = 0 THEN <<>>
            ELSE IF \E i \in DOMAIN kept[n - 1] : \/ kept[n - 1][i].match.id = entries[n].match.id
                                                  \/ kept[n - 1][i].match.name = entries[n].match.name
                 THEN kept[n - 1] ELSE Append(kept[n - 1], entries[n])
    IN  kept[Len(entries)]

NotPromoted(entries, pool) == entries
(* The strongest match of the task goes to one of the first three places,  *)
(* to the first when a weak match of the hints alone leads.                *)
Promoted(entries, pool) ==
    LET protected == SelectSeq(pool, LAMBDA e : e.task = 1 /\ e.keep)
        weakLead == pool # <<>> /\ pool[1].task = NoRank /\ ~DirectHint(pool[1].match)
        place == IF weakLead THEN 1 ELSE 3
        Is(e) == e.match.name = protected[1].match.name
        restored == IF \E i \in DOMAIN entries : Is(entries[i]) THEN entries ELSE Append(entries, protected[1])
        at == CHOOSE i \in DOMAIN restored : Is(restored[i])
    IN  IF protected = <<>> THEN entries
        ELSE IF at <= place THEN restored
             ELSE InsertAt(RemoveAt(restored, at), place, restored[at])

(* fuse_retrieval_channels *)
TrimmedPool(pool, tokens) ==
    LET asMatches == [i \in DOMAIN pool |-> [pool[i].match EXCEPT !.score = pool[i].score]]
        kept == Trimmed(asMatches, 0, tokens)
    IN  SelectSeq(pool, LAMBDA e : \E i \in DOMAIN kept : kept[i].id = e.match.id)
Fused(task, augmented, tokens, limit) ==
    LET pool == Distinct(SetToSortSeq(ToSet(Entries(task, augmented)), Leads))
        ranked == Promoted(TrimmedPool(pool, tokens), pool)
    IN  Prefix([i \in DOMAIN ranked |-> ranked[i].match], limit)

(* The ranking of find_command: the pool does not depend on the limit.     *)
PoolOf(limit) == PoolLimit
Ranking(observations, task, hints, limit) ==
    IF hints = {} THEN Matching(observations, QueryOf(task, {}), limit)
    ELSE Fused(Matching(observations, QueryOf(task, {}), PoolOf(limit)),
               Matching(observations, QueryOf(task, hints), PoolOf(limit)),
               Cardinality(Tokens(task.text)), limit)

(* find_selection_evidence_blocker: without hints weak evidence passes.    *)
EvidenceBlocks(match, hints) == hints # {} /\ ~LoadEvidence(match)

-----------------------------------------------------------------------------

(* With hints, the strongest match of the task alone stays among the first *)
(* three if its evidence is protectable (docs/product-spec.md:570), unless *)
(* the hints bring up another content of it or of its name.                *)
StrongestTaskMatchStays(observations, task, hints) ==
    LET alone == Matching(observations, QueryOf(task, {}), PoolLimit)
        augmented == ToSet(Matching(observations, QueryOf(task, hints), PoolLimit))
        first == alone[1]
    IN  /\ alone # <<>> /\ Protectable(first)
        /\ \A m \in augmented : m.id = first.id \/ m.name = first.name => SameObservation(m, first)
        => \E m \in ToSet(Ranking(observations, task, hints, 3)) : m.name = first.name

=============================================================================
