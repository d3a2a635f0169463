------------------------------ MODULE Retrieval ------------------------------
(***************************************************************************)
(* Storing documents and putting them in front of prompts                  *)
(* (internal/rag, internal/gateway/compress.go, routeRequest in proxy.go). *)
(*                                                                         *)
(* /admin/ingest embeds the documents of a batch one by one and stores     *)
(* them with one upsert.  A routed request of a consumer with RAG has what *)
(* a search finds put before its messages, may then be compressed, and     *)
(* goes on to the backends.  Each call to the embedder, Qdrant or the      *)
(* compressor may fail, come late or lose its answer.                      *)
(***************************************************************************)
EXTENDS Integers, SequencesExt

CONSTANTS
  Batches,     \* what clients post to /admin/ingest
  Docs, DocsOf, Text,  \* the documents, those of a batch, the tokens of one
  Collections, Stock,  \* in Qdrant, and the documents others store there
  IngestInto,  \* the collection in the configuration the gateway began with
  Consumers, Confs,    \* configurations a reload may bring
  Default, Off,        \* how they give a consumer no collection, or no RAG
  Requests, Bodies,    \* requests for routed models, what they may ask
  TopK, MaxContext, MinBody,
  MaxPosts     \* bound: how often a batch is posted

ASSUME BatchesAssumption ==
  DocsOf \in [Batches -> SUBSET Docs] /\ \A b \in Batches : DocsOf[b] # {}
ASSUME CollectionsAssumption ==
  /\ {IngestInto, "knowledge_graph"} \subseteq Collections /\ {Default, Off} \cap Collections = {}
  /\ Stock \in [Collections -> SUBSET Docs]
ASSUME ConfsAssumption ==
  Confs \subseteq [rag : [Consumers -> Collections \cup {Default, Off}], compress : BOOLEAN]
ASSUME BoundsAssumption ==
  TopK \in Nat /\ MaxContext \in Nat \ {0} /\ MinBody \in Nat /\ MaxPosts \in Nat

VARIABLES
  post,      \* the call that ingests each batch
  reported,  \* which posts of a batch a client was told are ingested
  wire,      \* upserts on their way, also those nobody waits for any more
  taken,     \* upserts Qdrant has accepted, which it applies later, or never
  index,     \* the points that come of them, where searches find them
  conf,      \* the configuration of the live chain
  request    \* the state of each request

vars == <<post, reported, wire, taken, index, conf, request>>

(* A document's words, its delimiters, and those of the block it goes in.  *)
Words == UNION {{Text[d][i] : i \in DOMAIN Text[d]} : d \in Docs}
Delimiters == {"open", "close"}
Tokens == Words \cup Delimiters \cup {"head", "cut", "blocked", "own"}

ASSUME TextAssumption == \A d \in Docs : Text[d] \in Seq(Words)

(* `chat' when it decodes as a chat request, `extras' what such a request  *)
(* may hold beside model, messages and stream, `more' what a message may   *)
(* hold beside role and content, a null for the content included, `packed' *)
(* once compressed.                                                        *)
Message ==
  [role : {"system", "user", "assistant", "tool"}, content : Seq(Tokens), more : BOOLEAN]
Body == [chat : BOOLEAN, messages : Seq(Message), extras : BOOLEAN, packed : BOOLEAN]
ASSUME BodiesAssumption == Bodies \subseteq Body

Idle == [pc |-> "idle", todo |-> {}, points |-> {}, nr |-> 0]
New == [pc |-> "new"]

IngestTypeOK ==
  /\ post \in [Batches -> [pc : {"idle", "embed", "upsert", "accepted", "refused"},
                           todo : SUBSET Docs, points : SUBSET Docs, nr : 0..MaxPosts]]
  /\ reported \in [Batches -> SUBSET (1..MaxPosts)]
  /\ wire \cup taken \subseteq [docs : SUBSET Docs, batch : Batches, nr : 1..MaxPosts]
  /\ index \subseteq [doc : Docs, batch : Batches, nr : 1..MaxPosts]

Begun ==
  [pc : {"embed", "search", "compress", "sent"}, collection : Collections \cup {Off},
   compress : BOOLEAN, asked : Bodies, body : Body]

TypeOK ==
  /\ IngestTypeOK
  /\ conf \in Confs
  /\ request \in [Requests -> {New} \cup Begun]

Init ==
  /\ post = [b \in Batches |-> Idle]
  /\ reported = [b \in Batches |-> {}]
  /\ wire = {} /\ taken = {} /\ index = {}
  /\ conf \in Confs
  /\ request = [r \in Requests |-> New]

-----------------------------------------------------------------------------
(* Ingestion *)

Ended(x) == [Idle EXCEPT !.nr = x.nr]

(* A client posts a batch, for the first time or again. *)
Post(b) ==
  /\ post[b].pc = "idle" /\ post[b].nr < MaxPosts
  /\ post' = [post EXCEPT ![b] = [pc |-> "embed", todo |-> DocsOf[b], points |-> {}, nr |-> @.nr + 1]]
  /\ UNCHANGED <<reported, wire, taken, index, conf, request>>

Embed(b, d) ==
  /\ post[b].pc = "embed" /\ d \in post[b].todo
  /\ post' = [post EXCEPT ![b].todo = @ \ {d}, ![b].points = @ \cup {d}]
  /\ UNCHANGED <<reported, wire, taken, index, conf, request>>

(* Mutant: a document that cannot be embedded is left out. *)
EmbedSkips(b) ==
  /\ post[b].pc = "embed"
  /\ \E d \in post[b].todo : post' = [post EXCEPT ![b].todo = @ \ {d}]
  /\ UNCHANGED <<reported, wire, taken, index, conf, request>>

(* One document that cannot be embedded, or a client that has gone, ends   *)
(* it with an error.                                                       *)
EmbedFails(b) ==
  /\ post[b].pc = "embed"
  /\ post' = [post EXCEPT ![b] = Ended(@)]
  /\ UNCHANGED <<reported, wire, taken, index, conf, request>>

(* All points go in one PUT. *)
Upsert(b) ==
  /\ post[b].pc = "embed" /\ post[b].todo = {}
  /\ post' = [post EXCEPT ![b].pc = "upsert"]
  /\ wire' = wire \cup {[docs |-> post[b].points, batch |-> b, nr |-> post[b].nr]}
  /\ UNCHANGED <<reported, taken, index, conf, request>>

(* Qdrant answers the call that waits for this upsert, if one still does. *)
Answered(u, pc) ==
  post' = IF post[u.batch].pc = "upsert" /\ post[u.batch].nr = u.nr
          THEN [post EXCEPT ![u.batch].pc = pc] ELSE post

(* Qdrant answers with a status below 300.  The PUT does not ask it to     *)
(* wait, so that this says the upsert is accepted, not that it is applied. *)
Accepts(u) ==
  /\ wire' = wire \ {u}
  /\ taken' = taken \cup {u}
  /\ Answered(u, "accepted")
  /\ UNCHANGED <<reported, index, conf, request>>

(* It answers with an error, and may have accepted the upsert even so. *)
Refuses(u) ==
  /\ wire' = wire \ {u}
  /\ taken' \in {taken, taken \cup {u}}
  /\ Answered(u, "refused")
  /\ UNCHANGED <<reported, index, conf, request>>

(* The upsert never arrives. *)
Drops(u) ==
  /\ wire' = wire \ {u}
  /\ UNCHANGED <<post, reported, taken, index, conf, request>>

(* What Qdrant has accepted it applies, at any time after. *)
Applies(u) ==
  /\ index' = index \cup {[doc |-> d, batch |-> u.batch, nr |-> u.nr] : d \in u.docs}
  /\ UNCHANGED <<post, reported, wire, taken, conf, request>>

(* Qdrant's status decides what the client is told. *)
Report(b) ==
  /\ post[b].pc \in {"accepted", "refused"}
  /\ post' = [post EXCEPT ![b] = Ended(@)]
  /\ reported' = IF post[b].pc = "accepted" THEN [reported EXCEPT ![b] = @ \cup {post[b].nr}] ELSE reported
  /\ UNCHANGED <<wire, taken, index, conf, request>>

(* No answer within 60 s, the connection breaks, or the client has gone:   *)
(* an error, whatever becomes of the upsert.                               *)
GivesUp(b) ==
  /\ post[b].pc \in {"upsert", "accepted"}
  /\ post' = [post EXCEPT ![b] = Ended(@)]
  /\ UNCHANGED <<reported, wire, taken, index, conf, request>>

-----------------------------------------------------------------------------
(* The block put before a prompt *)

(* Mutant: only what would close the block is taken out. *)
SanitizedClosing(t) == [i \in 1..Len(t) |-> IF t[i] = "close" THEN "blocked" ELSE t[i]]

Sanitized(t) == [i \in 1..Len(t) |-> IF t[i] \in Delimiters THEN "blocked" ELSE t[i]]

(* buildContextBlock: ranks and scores are left out, and so are results    *)
(* without text.                                                           *)
Block(found) ==
  <<"open", "head">> \o FlattenSeq([i \in DOMAIN found |-> Sanitized(Text[found[i]])]) \o <<"close">>

(* A cut inside a delimiter leaves no delimiter. *)
Capped(block) ==
  IF Len(block) > MaxContext THEN SubSeq(block, 1, MaxContext) \o <<"close", "cut">> ELSE block

(* prependSystemContext *)
Prepended(ms, block) ==
  IF ms # <<>> /\ ms[1].role = "system"
  THEN [ms EXCEPT ![1].content = block \o @]
  ELSE <<[role |-> "system", content |-> block, more |-> FALSE]>> \o ms

(* Encoded anew, messages and request keep only what chatMessage and       *)
(* chatRequest have fields for.                                            *)
Reencoded(ms) == [i \in DOMAIN ms |-> [ms[i] EXCEPT !.more = FALSE]]

Injected(b, found) ==
  [b EXCEPT !.messages = Prepended(Reencoded(@), Capped(Block(found))), !.extras = FALSE]

(* lastUserMessage, empty when there is none *)
UserText(b) ==
  LET users == {i \in DOMAIN b.messages : b.messages[i].role = "user"}
  IN IF users = {} THEN <<>> ELSE b.messages[Max(users)].content

Size(b) == FoldLeft(LAMBDA n, m : n + Len(m.content), 0, b.messages)

(* Mutant: without a default. *)
CollectionGiven(c) == conf.rag[c]

(* The collection a consumer's requests are searched in. *)
CollectionFor(c) == IF conf.rag[c] = Default THEN "knowledge_graph" ELSE conf.rag[c]

Available(c) == Stock[c] \cup IF c = IngestInto THEN {p.doc : p \in index} ELSE {}

-----------------------------------------------------------------------------
(* Requests *)

To(r, pc) == request' = [request EXCEPT ![r].pc = pc]

(* A request keeps the chain that was live when it came. *)
Arrive(r, b, c) ==
  LET in == CollectionFor(c) IN
  /\ request[r] = New
  /\ request' = [request EXCEPT ![r] =
       [pc |-> IF in # Off /\ b.chat /\ UserText(b) # <<>> THEN "embed" ELSE "compress",
        collection |-> in, compress |-> conf.compress, asked |-> b, body |-> b]]
  /\ UNCHANGED <<post, reported, wire, taken, index, conf>>

(* The user's text is embedded, or that fails or takes more than 10 s. *)
EmbedText(r) ==
  /\ request[r].pc = "embed"
  /\ To(r, "search") \/ To(r, "compress")
  /\ UNCHANGED <<post, reported, wire, taken, index, conf>>

(* Mutant: a search that fails is tried again. *)
SearchAgain(r) ==
  /\ request[r].pc = "search"
  /\ To(r, "embed")
  /\ UNCHANGED <<post, reported, wire, taken, index, conf>>

(* The search fails, takes more than 5 s, or finds nothing. *)
SearchFails(r) ==
  /\ request[r].pc = "search"
  /\ To(r, "compress")
  /\ UNCHANGED <<post, reported, wire, taken, index, conf>>

(* It finds up to TopK points; a document may have been stored twice. *)
Search(r) ==
  /\ request[r].pc = "search"
  /\ \E found \in SeqOf(Available(request[r].collection), TopK) \ {<<>>} :
       request' = [request EXCEPT ![r].pc = "compress", ![r].body = Injected(@, found)]
  /\ UNCHANGED <<post, reported, wire, taken, index, conf>>

(* CompressBody, and on to the backends; the compressor's body replaces    *)
(* the request's only when it says so.                                     *)
Compress(r) ==
  /\ request[r].pc = "compress"
  /\ \/ To(r, "sent")
     \/ /\ request[r].compress /\ Size(request[r].body) >= MinBody
        /\ request' = [request EXCEPT ![r].pc = "sent", ![r].body.packed = TRUE]
  /\ UNCHANGED <<post, reported, wire, taken, index, conf>>

(* SIGHUP, for the chain alone: the ingester keeps what it began with. *)
Reload ==
  /\ conf' \in Confs
  /\ UNCHANGED <<post, reported, wire, taken, index, request>>

Ingests(b) ==
  (\E d \in Docs : Embed(b, d)) \/ EmbedFails(b) \/ Upsert(b) \/ Report(b) \/ GivesUp(b)
Handles(r) == EmbedText(r) \/ Search(r) \/ SearchFails(r) \/ Compress(r)

Next ==
  \/ \E b \in Batches : Post(b) \/ Ingests(b)
  \/ \E u \in wire : Accepts(u) \/ Refuses(u) \/ Drops(u)
  \/ \E u \in taken : Applies(u)
  \/ \E r \in Requests, b \in Bodies, c \in Consumers : Arrive(r, b, c)
  \/ \E r \in Requests : Handles(r)
  \/ Reload

Spec == Init /\ [][Next]_vars

(* Every call has a time limit, so that its handler goes on. *)
FairSpec ==
  /\ Spec
  /\ \A b \in Batches : WF_vars(Ingests(b))
  /\ \A r \in Requests : WF_vars(Handles(r))

-----------------------------------------------------------------------------
Stored(b, n) == {d \in Docs : [doc |-> d, batch |-> b, nr |-> n] \in index}

(* A post is stored whole or not at all, and when its client was told that *)
(* it is ingested, Qdrant has accepted the whole of it: what fails, comes  *)
(* late, is applied long after or is posted again never leaves a part of a *)
(* batch where prompts are searched for.  Whether Qdrant then applies what *)
(* it accepted nobody asks.                                                *)
WholeBatches ==
  \A b \in Batches, n \in 1..MaxPosts :
    /\ Stored(b, n) \in {{}, DocsOf[b]}
    /\ n \in reported[b] => [docs |-> DocsOf[b], batch |-> b, nr |-> n] \in taken

(* What a client sent in its first message, if that is the one augmented. *)
OwnSystem(b) ==
  IF b.messages # <<>> /\ b.messages[1].role = "system" THEN b.messages[1].content ELSE <<>>

(* `open' is its first token and nothing else; `close' its last, or the    *)
(* last but one when it was cut, and nothing else.                         *)
IsSealed(block) ==
  LET last == IF block[Len(block)] = "cut" THEN Len(block) - 1 ELSE Len(block) IN
  \A i \in DOMAIN block : (block[i] = "open" <=> i = 1) /\ (block[i] = "close" <=> i = last)

(* What is sent is what was asked, re-encoded, behind one block: the same  *)
(* roles and contents in the same order, and nothing else of a message.    *)
Augmented(asked, sent) ==
  LET first == sent.messages[1].content
      block == SubSeq(first, 1, Len(first) - Len(OwnSystem(asked)))
  IN /\ sent.messages = Prepended(Reencoded(asked.messages), block)
     /\ Len(block) \in 2..(MaxContext + 2)
     /\ IsSealed(block)

(* A request goes on as it came, or re-encoded with one block before all   *)
(* its messages, no longer than the cap allows, which opens and closes once    *)
(* and holds whatever the documents say in between, however they are cut.  *)
ContextSealed ==
  \A r \in Requests : request[r] # New =>
    LET asked == request[r].asked
        sent == request[r].body
    IN sent \in {asked, [asked EXCEPT !.packed = TRUE]} \/ Augmented(asked, sent)

(* Every request goes on to the backends, and every post is answered,      *)
(* whatever the embedder, Qdrant and the compressor do.                    *)
EveryCallEnds ==
  /\ \A r \in Requests : request[r].pc # "new" ~> request[r].pc = "sent"
  /\ \A b \in Batches : post[b].pc # "idle" ~> post[b].pc = "idle"
=============================================================================
