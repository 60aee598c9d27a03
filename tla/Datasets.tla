------------------------------- MODULE Datasets -------------------------------
(***************************************************************************)
(* The dataset service: app_services/datasets.py with the records of       *)
(* domain/datasets.py.  A source is loaded, every row is mapped, rendered, *)
(* filtered, counted, deduplicated and given a split, and the whole        *)
(* preparation becomes one immutable version.                              *)
(*                                                                         *)
(* A rendered text is its own identity.  Characters, tokens and hashes of  *)
(* a text are given; parsing is the set of items each adapter refuses.     *)
(***************************************************************************)
EXTENDS EvidenceStore

CONSTANTS
    Text,         \* rendered texts
    Characters,   \* len(text)
    Hash,         \* the split hash of a text under a seed
    Source,       \* sources: [adapter, items]
    Preparation,  \* the DatasetImportRequests
    Import        \* the pairs of them that are imported

\* An item is a text, a row without one, or what an adapter may refuse.
Unmapped == {"missing_mapped_field", "mapped_value_not_text", "required_text_empty"}

\* The items that make load() raise; csv.DictReader skips a blank line.
Refused == [json |-> {"scalar", "malformed"},
            jsonl |-> {"scalar", "malformed", "blank"},
            csv |-> {"malformed"},
            hugging_face_rows |-> {"scalar", "malformed"}]

Loads(source) == ToSet(source.items) \cap Refused[source.adapter] = {}

Rows(source) ==
    FoldLeft(LAMBDA rows, item : IF item = "blank" THEN rows ELSE Append(rows, item),
             <<>>, source.items)

\* What SplitPart, SplitRule and the request refuse is not asked; a hash is an
\* unsigned integer.
ASSUME DatasetAssumption ==
    /\ \A source \in Source :
           source.items \in Seq(Text \cup Unmapped \cup {"blank"} \cup Refused[source.adapter])
    /\ \A request \in Preparation :
           LET parts == request.split_rule.parts IN
           /\ parts \in Seq([name : {parts[n].name : n \in DOMAIN parts}, weight : Nat \ {0}])
           /\ parts # <<>>
           /\ \A m, n \in DOMAIN parts : parts[m].name = parts[n].name => m = n
           /\ \A text \in Text : Hash[text][request.split_rule.seed] \in Nat

\* A tokenizer is as its identity says (DeterministicTokenizer): what two of one
\* identity count steadily, they count alike.
ASSUME TokenizerAssumption ==
    \A p, q \in Preparation : \A text \in Text :
        /\ p.tokenizer.identity = q.tokenizer.identity
        /\ p.tokenizer.first[text] = p.tokenizer.second[text]
        /\ q.tokenizer.first[text] = q.tokenizer.second[text]
        => p.tokenizer.first[text] = q.tokenizer.first[text]

-----------------------------------------------------------------------------
(* Preparation of the rows: 0 stands for a bound that is None              *)

Weight(parts, n) == SumFunction([i \in 1 .. n |-> parts[i].weight])

\* _assign_split(): the first part whose boundary is above the hash's bucket.
AssignSplit(text, rule) ==
    LET bucket == Hash[text][rule.seed] % Weight(rule.parts, Len(rule.parts))
        part == Min({n \in DOMAIN rule.parts : bucket < Weight(rule.parts, n)})
    IN  rule.parts[part].name

TooShort(text, filter) == Characters[text] < filter.minimum_characters

TooLong(text, filter) ==
    /\ filter.maximum_characters # 0
    /\ Characters[text] > filter.maximum_characters

\* _count_tokens() asks the tokenizer twice.
Counted(tokenizer, text) ==
    /\ tokenizer.first[text] >= 0
    /\ tokenizer.first[text] = tokenizer.second[text]

TooManyTokens(text, request) ==
    /\ request.filter.maximum_tokens # 0
    /\ request.tokenizer.first[text] > request.filter.maximum_tokens

Receipt(ordinal, phase, reason, retained) ==
    [source_ordinal |-> ordinal, phase |-> phase, reason_code |-> reason,
     retained |-> retained]

\* Mutant: the place among the accepted rows instead of the source ordinal.
RetainedByPlace(done, text) ==
    {i \in DOMAIN done.accepted : done.accepted[i].text = text}

\* retained_by_text: the accepted row that holds this text, if any.
Retained(done, text) ==
    {done.accepted[i].source_ordinal :
        i \in {j \in DOMAIN done.accepted : done.accepted[j].text = text}}

Excluded(done, receipt) == [done EXCEPT !.exclusions = Append(@, receipt)]

\* One turn of the loop of _prepare_candidates().
Disposed(request, rows, done, n) ==
    LET row == rows[n]
        excluded(phase, reason) == Excluded(done, Receipt(n, phase, reason, 0))
    IN  IF done.failed THEN done
        ELSE IF row \in Unmapped THEN excluded("validation", row)
        ELSE IF TooShort(row, request.filter)
             THEN excluded("filtering", "below_minimum_characters")
        ELSE IF TooLong(row, request.filter)
             THEN excluded("filtering", "above_maximum_characters")
        ELSE IF ~Counted(request.tokenizer, row) THEN [done EXCEPT !.failed = TRUE]
        ELSE IF TooManyTokens(row, request)
             THEN excluded("filtering", "above_maximum_tokens")
        ELSE IF Retained(done, row) # {}
             THEN Excluded(done, Receipt(n, "deduplication",
                      "duplicate_rendered_text", Min(Retained(done, row))))
        ELSE [done EXCEPT !.accepted = Append(@, [source_ordinal |-> n,
                  text |-> row, tokens |-> request.tokenizer.first[row]])]

Prepared(request, rows) ==
    LET none == [failed |-> FALSE, accepted |-> <<>>, exclusions |-> <<>>]
    IN  FoldLeftDomain(LAMBDA done, n : Disposed(request, rows, done, n), none, rows)

-----------------------------------------------------------------------------
(* DatasetVersion                                                          *)

Tokens(accepted) == {accepted[i].tokens : i \in DOMAIN accepted}

Statistics(rows, accepted, exclusions, membership, parts) ==
    [source_rows |-> rows,
     accepted_rows |-> Len(accepted),
     excluded_rows |-> Len(exclusions),
     duplicate_rows |-> Cardinality({i \in DOMAIN exclusions :
                                        exclusions[i].phase = "deduplication"}),
     total_tokens |-> SumFunction([i \in DOMAIN accepted |-> accepted[i].tokens]),
     minimum_tokens |-> Min(Tokens(accepted)),
     maximum_tokens |-> Max(Tokens(accepted)),
     split_counts |-> [n \in DOMAIN parts |-> Cardinality(
         {t \in DOMAIN membership : membership[t] = parts[n].name})]]

\* Mutant: the comparison leaves out the seed of the split.
ConfigurationWithoutSeed(source, request) ==
    [adapter |-> source.adapter, filter |-> request.filter,
     tokenizer |-> request.tokenizer.identity,
     split_rule |-> [request.split_rule EXCEPT !.seed = 0],
     preview_limit |-> request.preview_limit]

\* _GOVERNED_CONFIGURATION_FIELDS; mapping and renderer are one in the model.
Configuration(source, request) ==
    [adapter |-> source.adapter, filter |-> request.filter,
     tokenizer |-> request.tokenizer.identity, split_rule |-> request.split_rule,
     preview_limit |-> request.preview_limit]

Selection(accepted, membership, limit) ==
    [i \in 1 .. Min({limit, Len(accepted)}) |->
        [example |-> accepted[i], split |-> membership[accepted[i].text]]]

\* What import_source() makes of its preparation; the rendered bytes are the
\* accepted examples with their splits.
Version(source, request) ==
    LET rows == Rows(source)
        done == Prepared(request, rows)
        texts == {done.accepted[i].text : i \in DOMAIN done.accepted}
        membership == [t \in texts |-> AssignSplit(t, request.split_rule)]
    IN  [type |-> "dataset_version", id |-> request.version_id, refs |-> {},
         body |-> [source_identity |-> source.items, row_count |-> Len(rows),
                   configuration |-> Configuration(source, request),
                   accepted_examples |-> done.accepted,
                   split_membership |-> membership,
                   exclusions |-> done.exclusions,
                   preview_selections |->
                       Selection(done.accepted, membership, request.preview_limit),
                   statistics |-> Statistics(Len(rows), done.accepted,
                       done.exclusions, membership, request.split_rule.parts)]]

InSourceOrder(s) ==
    \A i, j \in DOMAIN s : i < j => s[i].source_ordinal <= s[j].source_ordinal

Ordinals(s) == {s[i].source_ordinal : i \in DOMAIN s}

\* Receipts and examples name every source row once.
DisposesOfEveryRow(v) ==
    /\ Ordinals(v.accepted_examples) \cup Ordinals(v.exclusions) = 1 .. v.row_count
    /\ Len(v.accepted_examples) + Len(v.exclusions) = v.row_count

RetainsAccepted(v) ==
    \A i \in DOMAIN v.exclusions :
        LET x == v.exclusions[i] IN
        x.retained # 0 =>
            /\ x.phase = "deduplication"
            /\ x.retained < x.source_ordinal
            /\ x.retained \in Ordinals(v.accepted_examples)

Partitioned(v) ==
    LET accepted == v.accepted_examples IN
    /\ \A i, j \in DOMAIN accepted :
           accepted[i].text = accepted[j].text => i = j
    /\ DOMAIN v.split_membership = {accepted[i].text : i \in DOMAIN accepted}
    /\ \A t \in DOMAIN v.split_membership :
           \E n \in DOMAIN v.configuration.split_rule.parts :
               v.split_membership[t] = v.configuration.split_rule.parts[n].name

Balanced(v) ==
    /\ v.statistics = Statistics(v.row_count, v.accepted_examples, v.exclusions,
                          v.split_membership, v.configuration.split_rule.parts)
    /\ v.statistics.source_rows =
           v.statistics.accepted_rows + v.statistics.excluded_rows
    /\ v.statistics.duplicate_rows <= v.statistics.excluded_rows
    /\ SumFunction(v.statistics.split_counts) = v.statistics.accepted_rows

\* DatasetVersion.__post_init__
ValidVersion(v) ==
    /\ v.accepted_examples # <<>>
    /\ InSourceOrder(v.accepted_examples) /\ InSourceOrder(v.exclusions)
    /\ Partitioned(v)
    /\ v.preview_selections = Selection(v.accepted_examples, v.split_membership,
                                        v.configuration.preview_limit)
    /\ DisposesOfEveryRow(v) /\ RetainsAccepted(v) /\ Balanced(v)

-----------------------------------------------------------------------------
(* compare_reimport()                                                    *)

TokensOf(v) ==
    [t \in DOMAIN v.split_membership |->
        v.accepted_examples[CHOOSE i \in DOMAIN v.accepted_examples :
            v.accepted_examples[i].text = t].tokens]

\* The keys both have under which they differ: before and after.
Deltas(before, after) ==
    [k \in {x \in DOMAIN before \cap DOMAIN after : before[x] # after[x]} |->
        <<before[k], after[k]>>]

CompareReimport(previous, current) ==
    LET before == DOMAIN previous.split_membership
        after == DOMAIN current.split_membership
    IN  [added_content |-> after \ before,
         removed_content |-> before \ after,
         split_changes |-> Deltas(previous.split_membership, current.split_membership),
         configuration_deltas |-> Deltas(previous.configuration, current.configuration),
         statistics_deltas |-> Deltas(previous.statistics, current.statistics),
         token_count_deltas |-> Deltas(TokensOf(previous), TokensOf(current))]

-----------------------------------------------------------------------------
(* import_source(): the source is loaded again from its bytes and compared;*)
(* a refused preparation, an unsteady tokenizer and a source without       *)
(* accepted rows end the call.  No event is appended.                      *)

Accepts(source, rows, request) ==
    /\ Loads(source) /\ rows = Rows(source)
    /\ request.tokenizer.identity = request.tokenizer.identity_after
    /\ ~Prepared(request, rows).failed
    /\ Prepared(request, rows).accepted # <<>>

ImportSource(s, source, rows, request) ==
    /\ CanCall(s) /\ Accepts(source, rows, request)
    /\ LET v == Version(source, request)
       IN  Called(s, Request("check", <<v>>, {v}, NoEvent))

=============================================================================
