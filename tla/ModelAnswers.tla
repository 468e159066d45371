----------------------------- MODULE ModelAnswers -----------------------------
(***************************************************************************)
(* What this package asks a local model, and what it makes of the answer.  *)
(*                                                                         *)
(* Four calls reach a model server: a post is split into claims, the final *)
(* claims are checked against their post, a crop of a page is inspected,   *)
(* and texts are embedded.  An answer is a proposal: it may not come, may  *)
(* not parse, may be of the wrong length or order, and may be invented.    *)
(* One call is served at a time, and one step is one reply of the server,  *)
(* or one token of the grounding that decides without a model.             *)
(*                                                                         *)
(* Data: a text is the sequence of its meaningful tokens; a printed text   *)
(* in a crop is the set of figures in it; a coordinate is in fiftieths of  *)
(* the page, so that the padding of a crop is one.                         *)
(***************************************************************************)
EXTENDS Integers, Sequences, FiniteSets, SequencesExt, FiniteSetsExt

CONSTANTS
  Protected,    \* the tokens whose change rewrites a claim
  Posts,        \* texts that may be submitted, as their tokens
  ClaimLists,   \* lists of claims a user may submit with a post
  SplitReplies, \* lists of texts the splitter may propose
  CheckLists,   \* lists of checks the entailment verifier may return
  MaxClaims,    \* MAX_PROPOSED_CLAIMS
  Figures,      \* figures that may be printed in a crop
  Within,       \* pairs of figures, the digits of the first inside the second
  RegionLists,  \* sets of intervals <<from, to>> that evidence may cite
  Widths,       \* widths of a page image, in pixels
  MaxPending,   \* bound: texts to embed
  BatchSize     \* embed_batch_size

IsSequence(s) == s \in Seq(ToSet(s))

ASSUME ConstantsAssumption ==
  /\ MaxClaims \in Nat \ {0} /\ MaxPending \in Nat /\ BatchSize \in Nat \ {0}
  /\ \A list \in Posts \union ClaimLists \union SplitReplies \union CheckLists : IsSequence(list)
  /\ \A list \in ClaimLists \union SplitReplies : \A k \in DOMAIN list : IsSequence(list[k])
  /\ \A r \in UNION RegionLists : r \in (0 .. 50) \X (0 .. 50) /\ r[1] <= r[2]
  /\ Widths \subseteq Nat \ {0}

VARIABLES
  request,   \* the call being served, with its arguments
  pc,
  claims,    \* the claims to ground
  grounded,  \* those done, as GroundedClaims
  cursor, matched,  \* of the claim being grounded: where to search from, what was found
  replies,   \* what became of the requests made to the model so far
  checks,    \* the entailment checks received
  crop,      \* the pixels cut out of the page image
  vectors,   \* embeddings stored, in the order of their texts
  result

grounding == <<claims, grounded, cursor, matched>>
vars == <<request, pc, grounding, replies, checks, crop, vectors, result>>

Results == {"none", "validation_error", "unavailable", "no_atomic_claim",
            "too_many_claims", "decomposed", "blocked", "contested", "passed",
            "rejected", "verified", "embedded"}
VisualResults == {"support", "conflict", "illegible", "unrelated"}

\* valid: the caller's text is there, not too long, and names its entity.
\* figure: the claimed value as a set, empty when the claim has none.
Requests ==
  [op : {"decompose"}, valid : BOOLEAN, source : Posts]
  \union [op : {"verify"}, valid : BOOLEAN, source : Posts, submitted : ClaimLists]
  \union [op : {"crop"}, regions : RegionLists, readable : BOOLEAN, width : Widths,
          figure : {{}} \union {{f} : f \in Figures}]
  \union [op : {"embed"}, backend : {"ollama", "llamacpp"}, pending : 0..MaxPending]

Init ==
  /\ request \in Requests
  /\ pc = "start"
  /\ claims = <<>> /\ grounded = <<>> /\ cursor = 1 /\ matched = <<>>
  /\ replies = <<>> /\ checks = <<>> /\ crop = <<>> /\ vectors = <<>>
  /\ result = "none"

Done(r) == pc' = "done" /\ result' = r
Op(o) == request.op = o

-----------------------------------------------------------------------------
(* The protocol of a structured request.                                   *)

Attempts == 2

RetryAnything(reply, sofar) == Len(sofar) + 1 < Attempts

\* ModelClient._structured: a reply that does not fit the schema is asked for
\* once more; a server that fails or answers with no message is not.
MayRetry(reply, sofar) == reply = "invalid" /\ Len(sofar) + 1 < Attempts

\* What a caller makes of a ModelError: a crop is illegible, anything else is
\* refused whole.
OnModelError == IF Op("crop") THEN "rejected" ELSE "unavailable"

UnusableReply(reply) ==
  /\ pc = "ask" /\ ~Op("embed")
  /\ replies' = Append(replies, reply)
  /\ IF MayRetry(reply, replies) THEN UNCHANGED <<pc, result>> ELSE Done(OnModelError)
  /\ UNCHANGED <<request, grounding, checks, crop, vectors>>

UsableReply == pc = "ask" /\ replies' = Append(replies, "valid")

-----------------------------------------------------------------------------
(* Claims of a post: decompose_claims and verify_claims.                   *)

ReceiveText ==
  /\ pc = "start" /\ (Op("decompose") \/ Op("verify"))
  /\ IF ~request.valid THEN Done("validation_error") /\ UNCHANGED claims
     ELSE IF Op("decompose") THEN pc' = "ask" /\ UNCHANGED <<result, claims>>
     ELSE pc' = "ground" /\ claims' = request.submitted /\ UNCHANGED result
  /\ UNCHANGED <<request, grounded, cursor, matched, replies, checks, crop, vectors>>

\* Blank proposals are no proposals.  One of punctuation alone is not blank: it
\* counts, and is refused as an empty claim.
Proposals(split, blank) ==
  LET upto[n \in 0 .. Len(split)] ==
        IF n = 0 THEN <<>>
        ELSE IF n \in blank THEN upto[n - 1]
        ELSE Append(upto[n - 1], split[n])
  IN  upto[Len(split)]

\* decompose_claims, with the splitter's reply.
ReceiveSplit(split) ==
  /\ Op("decompose") /\ UsableReply
  /\ \E blank \in SUBSET {n \in DOMAIN split : split[n] = <<>>} :
       LET proposals == Proposals(split, blank)
       IN  IF proposals = <<>> THEN Done("no_atomic_claim") /\ UNCHANGED claims
           ELSE IF Len(proposals) > MaxClaims THEN Done("too_many_claims") /\ UNCHANGED claims
           ELSE pc' = "ground" /\ claims' = proposals /\ UNCHANGED result
  /\ UNCHANGED <<request, grounded, cursor, matched, checks, crop, vectors>>

\* The claim being grounded, and the token of it to place next.
Current == claims[Len(grounded) + 1]
Token == Current[Len(matched) + 1]

PlacementsAnywhere ==
  {i \in 1 .. Len(request.source) : request.source[i] = Token /\ ~Contains(matched, i)}

\* ground_claim: where in the post the next token may be placed.
Placements == {i \in cursor .. Len(request.source) : request.source[i] = Token}

Grounding == pc = "ground" /\ Len(grounded) < Len(claims)

NextClaim(outcome) ==
  /\ grounded' = Append(grounded, outcome)
  /\ cursor' = 1 /\ matched' = <<>>

PlaceToken ==
  /\ Grounding /\ Len(matched) < Len(Current) /\ Placements # {}
  /\ matched' = Append(matched, Min(Placements))
  /\ cursor' = Min(Placements) + 1
  /\ UNCHANGED <<request, pc, claims, grounded, replies, checks, crop, vectors, result>>

RefuseClaim ==
  /\ Grounding
  /\ \/ /\ Current = <<>>
        /\ NextClaim([grounding |-> "not_grounded", reason |-> "empty_claim", at |-> <<>>])
     \/ /\ Len(matched) < Len(Current) /\ Placements = {}
        /\ NextClaim([grounding |-> "not_grounded", at |-> <<>>,
                      reason |-> IF Token \in Protected THEN "protected_token_changed"
                                 ELSE "token_not_in_source"])
  /\ UNCHANGED <<request, pc, claims, replies, checks, crop, vectors, result>>

AcceptClaim ==
  /\ Grounding /\ Current # <<>> /\ Len(matched) = Len(Current)
  /\ NextClaim([grounding |-> "token_grounded", reason |-> "none", at |-> matched])
  /\ UNCHANGED <<request, pc, claims, replies, checks, crop, vectors, result>>

\* The end of decompose_claims: every proposal is returned, grounded or not.
ReturnDecomposition ==
  /\ Op("decompose") /\ pc = "ground" /\ Len(grounded) = Len(claims)
  /\ Done("decomposed")
  /\ UNCHANGED <<request, grounding, replies, checks, crop, vectors>>

\* verify_claims, from the bounds to the question; verify_entailment answers it
\* itself for one claim whose whole text is the post's.
DecideGrounded(identical) ==
  /\ Op("verify") /\ pc = "ground" /\ Len(grounded) = Len(claims)
  /\ identical => Len(claims) = 1 /\ claims[1] = request.source
  /\ IF claims = <<>> THEN Done("no_atomic_claim")
     ELSE IF Len(claims) > MaxClaims THEN Done("too_many_claims")
     ELSE IF \E c \in DOMAIN grounded : grounded[c].grounding # "token_grounded"
       THEN Done("blocked")
     ELSE IF identical THEN Done("passed")
     ELSE pc' = "ask" /\ UNCHANGED result
  /\ UNCHANGED <<request, grounding, replies, checks, crop, vectors>>

\* by_index: a later check of the same claim replaces an earlier one.
ByIndex(list) ==
  [i \in {check.index : check \in ToSet(list)} |->
     list[Max({k \in DOMAIN list : list[k].index = i})].outcome]

AnswersSome(list) == DOMAIN ByIndex(list) \subseteq 0 .. Len(claims) - 1

\* verify_entailment accepts a batch that answers for exactly these claims.
AnswersThese(list) == DOMAIN ByIndex(list) = 0 .. Len(claims) - 1

ReceiveChecks(list) ==
  /\ Op("verify") /\ UsableReply
  /\ checks' = list
  /\ Done(IF ~AnswersThese(list) THEN "unavailable"
          ELSE IF \A i \in DOMAIN ByIndex(list) : ByIndex(list)[i] = "entailed" THEN "passed"
          ELSE "contested")
  /\ UNCHANGED <<request, grounding, crop, vectors>>

-----------------------------------------------------------------------------
(* A crop: verify_visual.                                                  *)

CropUnpadded(regions, width) ==
  LET first == (Min({r[1] : r \in regions}) * width) \div 50
  IN  <<first, Max({(Max({r[2] : r \in regions}) * width) \div 50, first + 1})>>

\* crop_region, along one axis of the page; the other is alike.
CropBox(regions, width) ==
  LET left  == Max({0, Min({r[1] : r \in regions}) - 1})
      right == Min({50, Max({r[2] : r \in regions}) + 1})
      first == (left * width) \div 50
  IN  <<first, Max({(right * width) \div 50, first + 1})>>

CropRegion ==
  /\ pc = "start" /\ Op("crop")
  /\ IF request.regions = {} \/ ~request.readable
       THEN Done("rejected") /\ UNCHANGED crop
       ELSE /\ crop' = CropBox(request.regions, request.width)
            /\ pc' = "ask" /\ UNCHANGED result
  /\ UNCHANGED <<request, grounding, replies, checks, vectors>>

\* _states_value: the claimed digits occur in what is printed.
StatesValue(visible, figure) == \E g \in visible : g = figure \/ <<figure, g>> \in Within

\* _grade: support and conflict are held to the text the model says it can see.
Grade(finding, figure) ==
  IF /\ finding.result \in {"support", "conflict"}
     /\ \/ finding.visible = {}
        \/ finding.result = "support" /\ \E f \in figure : ~StatesValue(finding.visible, f)
  THEN "illegible" ELSE finding.result

\* visual_status of the candidate: a figure other than the claimed one is evidence too.
StatusOf(grade) == IF grade \in {"support", "conflict"} THEN "verified" ELSE "rejected"

ReceiveFinding(finding) ==
  /\ Op("crop") /\ UsableReply
  /\ Done(StatusOf(Grade(finding, request.figure)))
  /\ UNCHANGED <<request, grounding, checks, crop, vectors>>

-----------------------------------------------------------------------------
(* Embeddings: _embed_pending and embed.                                   *)

\* A vector is of one text, and is usable once cut to the configured dimension,
\* or is too short, not finite, or zero.
Unusable == [of |-> 0, usable |-> FALSE]
VectorOf(text) == [of |-> text, usable |-> TRUE]

\* The texts of the next batch.
Chunk == Len(vectors) + 1 .. Min({Len(vectors) + BatchSize, request.pending})

StartBatch ==
  /\ pc = "start" /\ Op("embed")
  /\ IF Chunk = {} THEN Done("embedded") ELSE pc' = "ask" /\ UNCHANGED result
  /\ UNCHANGED <<request, grounding, replies, checks, crop, vectors>>

\* What a server may send for a batch: it knows which text a vector is of, but may
\* lose, repeat, reorder or misnumber rows, and fail on some texts.
Rows ==
  {[index |-> i, vector |-> v] : i \in {-1, Cardinality(Chunk)}, v \in {Unusable}}
  \union {[index |-> t - Min(Chunk), vector |-> v] : t \in Chunk, v \in {Unusable}}
  \union {[index |-> t - Min(Chunk), vector |-> VectorOf(t)] : t \in Chunk}
RowLists == UNION {[1 .. n -> Rows] : n \in 0 .. Cardinality(Chunk) + 1}

\* llama.cpp numbers its rows; Ollama answers in order.
WellNumbered(rows) ==
  /\ Len(rows) = Cardinality(Chunk)
  /\ request.backend = "llamacpp" =>
       /\ \A k \in DOMAIN rows : rows[k].index \in 0 .. Cardinality(Chunk) - 1
       /\ \A j, k \in DOMAIN rows : rows[j].index = rows[k].index => j = k

OrderedAsSent(rows) == [k \in DOMAIN rows |-> rows[k].vector]

Ordered(rows) ==
  IF request.backend = "ollama" THEN [k \in DOMAIN rows |-> rows[k].vector]
  ELSE [k \in DOMAIN rows |->
          rows[CHOOSE j \in DOMAIN rows : rows[j].index = k - 1].vector]

ReceiveVectors(rows) ==
  /\ Op("embed") /\ pc = "ask"
  /\ request.backend = "ollama" => \A k \in DOMAIN rows : rows[k].index = k - 1
  /\ IF WellNumbered(rows) /\ \A k \in DOMAIN rows : rows[k].vector.usable
       THEN /\ vectors' = vectors \o Ordered(rows)
            /\ pc' = "start" /\ UNCHANGED result
       ELSE Done("unavailable") /\ UNCHANGED vectors
  /\ UNCHANGED <<request, grounding, replies, checks, crop>>

EmbeddingFails ==
  /\ Op("embed") /\ pc = "ask"
  /\ Done("unavailable")
  /\ UNCHANGED <<request, grounding, replies, checks, crop, vectors>>

-----------------------------------------------------------------------------
Findings == [result : VisualResults, visible : SUBSET Figures]

Finished == pc = "done" /\ UNCHANGED vars

Next ==
  \/ \E reply \in {"failed", "no_message", "invalid"} : UnusableReply(reply)
  \/ ReceiveText
  \/ \E split \in SplitReplies : ReceiveSplit(split)
  \/ PlaceToken \/ RefuseClaim \/ AcceptClaim \/ ReturnDecomposition
  \/ \E identical \in BOOLEAN : DecideGrounded(identical)
  \/ \E list \in CheckLists : ReceiveChecks(list)
  \/ CropRegion
  \/ \E finding \in Findings : ReceiveFinding(finding)
  \/ StartBatch
  \/ Op("embed") /\ \E rows \in RowLists : ReceiveVectors(rows)
  \/ EmbeddingFails
  \/ Finished

Spec == Init /\ [][Next]_vars

-----------------------------------------------------------------------------
(* Properties.                                                             *)

\* The definition grounding stands for: the claim's tokens occur in the post in
\* this order.
Embeds(claim, post) ==
  \E e \in [1 .. Len(claim) -> 1 .. Len(post)] :
    /\ \A i \in 1 .. Len(claim) : post[e[i]] = claim[i]
    /\ \A i, j \in 1 .. Len(claim) : i < j => e[i] < e[j]

\* The first token at which a claim stops being a subsequence of the post.
LostAt(claim, post) ==
  Min({n \in 1 .. Len(claim) : ~Embeds(SubSeq(claim, 1, n), post)})

\* ground_claim takes the first place each token fits and never looks back, yet it
\* finds a placement whenever there is one, and blames the token no placement
\* reaches.
GroundingMatchesDefinition ==
  \A c \in DOMAIN grounded :
    IF claims[c] = <<>> THEN grounded[c].reason = "empty_claim"
    ELSE IF Embeds(claims[c], request.source)
      THEN /\ grounded[c].grounding = "token_grounded"
           /\ \A i \in DOMAIN claims[c] : request.source[grounded[c].at[i]] = claims[c][i]
      ELSE /\ grounded[c].grounding = "not_grounded"
           /\ grounded[c].reason = "protected_token_changed" <=>
                claims[c][LostAt(claims[c], request.source)] \in Protected

\* A batch that may be audited was grounded whole, and each claim of it was found
\* entailed by a verifier that spoke about these claims and no others, unless it
\* is the post itself (verify_claims, verify_entailment).
OnlyAssertedClaimsPass ==
  result = "passed" =>
    /\ Len(claims) \in 1 .. MaxClaims
    /\ \A c \in DOMAIN claims : claims[c] # <<>> /\ Embeds(claims[c], request.source)
    /\ \/ checks = <<>> /\ claims = <<request.source>>
       \/ /\ {check.index : check \in ToSet(checks)} = 0 .. Len(claims) - 1
          /\ \A c \in DOMAIN claims : \E check \in ToSet(checks) :
               check.index = c - 1 /\ check.outcome = "entailed"

\* Nothing is concluded from a model that did not answer: what is returned is a
\* refusal, never a smaller result, and a server is asked again only where it sent
\* something that could not be read.
UnusableRepliesFailClosed ==
  /\ \A k \in 1 .. Len(replies) - 1 : replies[k] = "invalid"
  /\ Len(replies) <= 2
  /\ pc = "done" /\ replies # <<>> /\ Last(replies) # "valid" =>
       /\ result \in {"unavailable", "rejected"} /\ checks = <<>>
       /\ result = "rejected" <=> Op("crop")
  /\ result \in {"decomposed", "verified"} => replies # <<>> /\ Last(replies) = "valid"

\* Each text is stored with its own vector whatever order a server answers in, and
\* a batch is stored whole or not at all (embed, _embed_pending).
VectorsFindTheirTexts ==
  Op("embed") =>
  /\ \A t \in DOMAIN vectors : vectors[t] = VectorOf(t)
  /\ result = "embedded" => Len(vectors) = request.pending
  /\ Len(vectors) < request.pending => Len(vectors) % BatchSize = 0

\* The crop a model sees is inside the image and shows every pixel of the cited
\* regions, for an image wide enough to have a pixel of padding (crop_region).
CropShowsRegions ==
  crop # <<>> =>
    /\ 0 <= crop[1] /\ crop[1] < crop[2] /\ crop[2] <= request.width
    /\ request.width >= 50 =>
         \A r \in request.regions :
           /\ crop[1] * 50 <= r[1] * request.width
           /\ crop[2] * 50 >= r[2] * request.width
=============================================================================
