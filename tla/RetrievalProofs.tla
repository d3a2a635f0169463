--------------------------- MODULE RetrievalProofs ---------------------------
(* Proofs about Retrieval, for any batches, documents, configurations,     *)
(* requests and bounds: first of what is stored, then of what is put in    *)
(* front of prompts.                                                       *)
EXTENDS Retrieval, SequenceTheorems, WellFoundedInduction, TLAPS

(* The inductive invariant: an upsert, on its way or accepted, carries its *)
(* whole batch, since none is sent before the last document is embedded,   *)
(* and Qdrant has accepted what it said it has.                            *)
Whole(b, n) == [docs |-> DocsOf[b], batch |-> b, nr |-> n]
BatchOK(b) ==
  /\ post[b].pc = "embed" => post[b].points \cup post[b].todo = DocsOf[b]
  /\ post[b].pc # "idle" => post[b].nr \in 1..MaxPosts
  /\ post[b].pc = "accepted" => Whole(b, post[b].nr) \in taken
WireOK == \A u \in wire \cup taken : u.docs = DocsOf[u.batch]
IngestInv == IngestTypeOK /\ (\A b \in Batches : BatchOK(b)) /\ WireOK /\ WholeBatches

ingestVars == <<post, reported, wire, taken, index>>

LEMMA InitIngestInv == Init => IngestInv
  BY BoundsAssumption
  DEF Init, Idle, IngestInv, IngestTypeOK, BatchOK, WireOK, WholeBatches, Stored

(* A call that only moves on, without anything stored or reported. *)
LEMMA PostMoves ==
  ASSUME IngestInv, NEW b \in Batches, UNCHANGED <<reported, wire, taken, index>>,
         post' \in [Batches -> [pc : {"idle", "embed", "upsert", "accepted", "refused"},
                                todo : SUBSET Docs, points : SUBSET Docs, nr : 0..MaxPosts]],
         \A a \in Batches \ {b} : post'[a] = post[a],
         post'[b].pc = "embed" => post'[b].points \cup post'[b].todo = DocsOf[b],
         post'[b].pc # "idle" => post'[b].nr \in 1..MaxPosts,
         post'[b].pc # "accepted"
  PROVE  IngestInv'
<1>1. IngestTypeOK'
  BY DEF IngestInv, IngestTypeOK
<1>2. ASSUME NEW a \in Batches PROVE BatchOK(a)'
  <2>1. CASE a = b
    BY <2>1 DEF BatchOK
  <2>2. CASE a # b
    BY <2>2 DEF IngestInv, BatchOK, Stored
  <2>. QED BY <2>1, <2>2
<1>. QED BY <1>1, <1>2 DEF IngestInv, WireOK, WholeBatches, Stored

(* Giving up, in any way, touches nothing but the call. *)
LEMMA CallEnds ==
  ASSUME IngestInv, NEW b \in Batches, post' = [post EXCEPT ![b] = Ended(@)],
         UNCHANGED <<reported, wire, taken, index>>
  PROVE  IngestInv'
<1>1. Ended(post[b]) = [pc |-> "idle", todo |-> {}, points |-> {}, nr |-> post[b].nr]
  BY DEF Ended, Idle
<1>. QED BY <1>1, PostMoves DEF IngestInv, IngestTypeOK

LEMMA PostStep ==
  ASSUME IngestInv, NEW b \in Batches, Post(b)
  PROVE  IngestInv'
<1>1. /\ post' = [post EXCEPT ![b] = [pc |-> "embed", todo |-> DocsOf[b], points |-> {}, nr |-> post[b].nr + 1]]
      /\ UNCHANGED <<reported, wire, taken, index>>
  BY DEF Post
<1>2. post[b].nr \in 0..MaxPosts /\ post[b].nr < MaxPosts
  BY DEF IngestInv, IngestTypeOK, Post
<1>3. post[b].nr + 1 \in 1..MaxPosts /\ post[b].nr + 1 \in 0..MaxPosts
  BY <1>2, BoundsAssumption
<1>4. DocsOf[b] \in SUBSET Docs
  BY BatchesAssumption
<1>. QED BY <1>1, <1>3, <1>4, PostMoves DEF IngestInv, IngestTypeOK

LEMMA EmbedStep ==
  ASSUME IngestInv, NEW b \in Batches, NEW d \in Docs, Embed(b, d)
  PROVE  IngestInv'
<1>1. /\ post' = [post EXCEPT ![b] = [post[b] EXCEPT !.todo = post[b].todo \ {d}, !.points = post[b].points \cup {d}]]
      /\ d \in post[b].todo /\ post[b].pc = "embed" /\ UNCHANGED <<reported, wire, taken, index>>
  BY DEF Embed, IngestInv, IngestTypeOK
<1>2. /\ post[b].points \cup post[b].todo = DocsOf[b] /\ post[b].nr \in 1..MaxPosts
  BY <1>1 DEF IngestInv, BatchOK
<1>3. /\ post' \in [Batches -> [pc : {"idle", "embed", "upsert", "accepted", "refused"},
                                todo : SUBSET Docs, points : SUBSET Docs, nr : 0..MaxPosts]]
      /\ \A a \in Batches \ {b} : post'[a] = post[a]
      /\ post'[b].pc = "embed" /\ post'[b].nr = post[b].nr
      /\ post'[b].points \cup post'[b].todo = post[b].points \cup post[b].todo
  BY <1>1 DEF IngestInv, IngestTypeOK
<1>. QED BY <1>1, <1>2, <1>3, PostMoves

LEMMA UpsertStep ==
  ASSUME IngestInv, NEW b \in Batches, Upsert(b)
  PROVE  IngestInv'
<1>. DEFINE u == [docs |-> post[b].points, batch |-> b, nr |-> post[b].nr]
<1>1. /\ post' = [post EXCEPT ![b] = [post[b] EXCEPT !.pc = "upsert"]] /\ wire' = wire \cup {u}
      /\ UNCHANGED <<reported, taken, index>> /\ post[b].pc = "embed" /\ post[b].todo = {}
  BY DEF Upsert, IngestInv, IngestTypeOK
<1>2. post[b].points = DocsOf[b] /\ post[b].nr \in 1..MaxPosts /\ post[b].points \in SUBSET Docs
  BY <1>1 DEF IngestInv, BatchOK, IngestTypeOK
<1>3. IngestTypeOK'
  BY <1>1, <1>2 DEF IngestInv, IngestTypeOK
<1>4. WireOK'
  BY <1>1, <1>2 DEF IngestInv, WireOK
<1>5. ASSUME NEW a \in Batches PROVE BatchOK(a)'
  BY <1>1, <1>2 DEF IngestInv, IngestTypeOK, BatchOK, Stored
<1>. QED BY <1>1, <1>3, <1>4, <1>5 DEF IngestInv, WholeBatches, Stored

LEMMA ReportStep ==
  ASSUME IngestInv, NEW b \in Batches, Report(b)
  PROVE  IngestInv'
<1>1. post' = [post EXCEPT ![b] = Ended(@)] /\ UNCHANGED <<wire, taken, index>>
  BY DEF Report
<1>2. CASE UNCHANGED reported
  BY <1>1, <1>2, CallEnds
<1>3. CASE reported' = [reported EXCEPT ![b] = @ \cup {post[b].nr}] /\ post[b].pc = "accepted"
  <2>1. post[b].nr \in 1..MaxPosts /\ Whole(b, post[b].nr) \in taken
    BY <1>3 DEF IngestInv, BatchOK
  <2>2. Ended(post[b]) = [pc |-> "idle", todo |-> {}, points |-> {}, nr |-> post[b].nr]
    BY DEF Ended, Idle
  <2>3. IngestTypeOK'
    BY <1>1, <1>3, <2>1, <2>2 DEF IngestInv, IngestTypeOK
  <2>4. ASSUME NEW a \in Batches PROVE BatchOK(a)'
    BY <1>1, <2>2 DEF IngestInv, IngestTypeOK, BatchOK
  <2>5. WholeBatches'
    BY <1>1, <1>3, <2>1 DEF IngestInv, IngestTypeOK, WholeBatches, Stored, Whole
  <2>. QED BY <1>1, <2>3, <2>4, <2>5 DEF IngestInv, WireOK
<1>. QED BY <1>2, <1>3 DEF Report

(* What Qdrant's answer does to the calls. *)
LEMMA AnswerMoves ==
  ASSUME IngestInv, NEW u \in wire, NEW pc \in {"accepted", "refused"}, Answered(u, pc)
  PROVE  /\ post' \in [Batches -> [pc : {"idle", "embed", "upsert", "accepted", "refused"},
                                   todo : SUBSET Docs, points : SUBSET Docs, nr : 0..MaxPosts]]
         /\ \A a \in Batches :
              \/ post'[a] = post[a]
              \/ a = u.batch /\ post[a].nr = u.nr /\ post[a].pc = "upsert"
                 /\ post'[a].nr = u.nr /\ post'[a].pc = pc
<1>1. u.batch \in Batches
  BY DEF IngestInv, IngestTypeOK
<1>2. CASE post' = post
  BY <1>2 DEF IngestInv, IngestTypeOK
<1>3. CASE /\ post' = [post EXCEPT ![u.batch] = [post[u.batch] EXCEPT !.pc = pc]]
           /\ post[u.batch].pc = "upsert" /\ post[u.batch].nr = u.nr
  BY <1>1, <1>3 DEF IngestInv, IngestTypeOK
<1>. QED BY <1>2, <1>3 DEF Answered

(* Qdrant takes an upsert, or not, and says so to the call, or not. *)
LEMMA AcceptsStep ==
  ASSUME IngestInv, NEW u \in wire, Accepts(u) \/ Refuses(u) \/ Drops(u)
  PROVE  IngestInv'
<1>1. /\ wire' = wire \ {u} /\ UNCHANGED <<reported, index>>
      /\ taken \subseteq taken' /\ taken' \subseteq taken \cup {u}
      /\ Accepts(u) => u \in taken'
  BY DEF Accepts, Refuses, Drops
<1>2. /\ u = Whole(u.batch, u.nr) /\ u \in [docs : SUBSET Docs, batch : Batches, nr : 1..MaxPosts]
      /\ u.docs = DocsOf[u.batch]
  BY DEF IngestInv, WireOK, IngestTypeOK, Whole
<1>3. /\ post' \in [Batches -> [pc : {"idle", "embed", "upsert", "accepted", "refused"},
                                todo : SUBSET Docs, points : SUBSET Docs, nr : 0..MaxPosts]]
      /\ \A b \in Batches :
           \/ post'[b] = post[b]
           \/ /\ post[b].pc = "upsert" /\ post[b].nr = u.nr /\ b = u.batch /\ post'[b].nr = post[b].nr
              /\ post'[b].pc = "refused" \/ (post'[b].pc = "accepted" /\ u \in taken')
  <2>1. CASE Refuses(u)
    BY <2>1, AnswerMoves DEF Refuses
  <2>2. CASE Drops(u)
    BY <2>2 DEF Drops, IngestInv, IngestTypeOK
  <2>3. CASE Accepts(u)
    BY <1>1, <2>3, AnswerMoves DEF Accepts
  <2>. QED BY <2>1, <2>2, <2>3
<1>4. IngestTypeOK'
  BY <1>1, <1>2, <1>3 DEF IngestInv, IngestTypeOK
<1>5. ASSUME NEW b \in Batches PROVE BatchOK(b)'
  <2>1. BatchOK(b)
    BY DEF IngestInv
  <2>. QED BY <1>1, <1>2, <1>3, <2>1 DEF BatchOK
<1>6. WireOK' /\ WholeBatches'
  BY <1>1, <1>2 DEF IngestInv, WireOK, WholeBatches, Stored
<1>. QED BY <1>4, <1>5, <1>6 DEF IngestInv

(* What Qdrant has accepted it applies whole. *)
LEMMA AppliesStep ==
  ASSUME IngestInv, NEW u \in taken, Applies(u)
  PROVE  IngestInv'
<1>1. /\ index' = index \cup {[doc |-> d, batch |-> u.batch, nr |-> u.nr] : d \in u.docs}
      /\ UNCHANGED <<post, reported, wire, taken>>
  BY DEF Applies
<1>2. u.docs = DocsOf[u.batch] /\ u.batch \in Batches /\ u.nr \in 1..MaxPosts /\ u.docs \subseteq Docs
  BY DEF IngestInv, WireOK, IngestTypeOK
<1>3. ASSUME NEW b \in Batches, NEW n \in 1..MaxPosts
      PROVE  Stored(b, n)' = IF b = u.batch /\ n = u.nr THEN DocsOf[b] ELSE Stored(b, n)
  <2>1. CASE b = u.batch /\ n = u.nr
    <3>1. Stored(b, n) \subseteq DocsOf[b]
      BY BatchesAssumption DEF IngestInv, WholeBatches
    <3>. QED BY <1>1, <1>2, <2>1, <3>1 DEF Stored
  <2>2. CASE ~(b = u.batch /\ n = u.nr)
    BY <1>1, <2>2 DEF Stored
  <2>. QED BY <2>1, <2>2
<1>4. IngestTypeOK'
  BY <1>1, <1>2 DEF IngestInv, IngestTypeOK
<1>5. WholeBatches'
  BY <1>1, <1>3 DEF IngestInv, WholeBatches
<1>. QED BY <1>1, <1>4, <1>5 DEF IngestInv, WireOK, BatchOK

LEMMA IngestInvKept == IngestInv /\ [Next]_vars => IngestInv'
<1>. SUFFICES ASSUME IngestInv, [Next]_vars PROVE IngestInv'
  OBVIOUS
<1>1. ASSUME NEW b \in Batches, Post(b) \/ Ingests(b) PROVE IngestInv'
  <2>1. CASE Post(b)
    BY <2>1, PostStep
  <2>2. CASE \E d \in Docs : Embed(b, d)
    BY <2>2, EmbedStep
  <2>3. CASE EmbedFails(b) \/ GivesUp(b)
    BY <2>3, CallEnds DEF EmbedFails, GivesUp
  <2>4. CASE Upsert(b)
    BY <2>4, UpsertStep
  <2>5. CASE Report(b)
    BY <2>5, ReportStep
  <2>. QED BY <1>1, <2>1, <2>2, <2>3, <2>4, <2>5 DEF Ingests
<1>2. ASSUME NEW u \in wire, Accepts(u) \/ Refuses(u) \/ Drops(u) PROVE IngestInv'
  BY <1>2, AcceptsStep
<1>8. ASSUME NEW u \in taken, Applies(u) PROVE IngestInv'
  BY <1>8, AppliesStep
<1>3. CASE UNCHANGED ingestVars
  BY <1>3 DEF ingestVars, IngestInv, IngestTypeOK, BatchOK, WireOK, WholeBatches, Stored
<1>4. ASSUME NEW r \in Requests, Handles(r) PROVE UNCHANGED ingestVars
  BY <1>4 DEF Handles, EmbedText, Search, SearchFails, Compress, ingestVars
<1>5. ASSUME NEW r \in Requests, NEW b \in Bodies, NEW c \in Consumers, Arrive(r, b, c)
      PROVE  UNCHANGED ingestVars
  BY <1>5 DEF Arrive, ingestVars
<1>6. Reload => UNCHANGED ingestVars
  BY DEF Reload, ingestVars
<1>7. CASE UNCHANGED vars
  BY <1>3, <1>7 DEF vars, ingestVars
<1>. QED BY <1>1, <1>2, <1>3, <1>4, <1>5, <1>6, <1>7, <1>8 DEF Next

(* What is searched for prompts never holds a part of a batch: each post   *)
(* is stored whole or not at all, and was accepted whole when it was       *)
(* reported, whatever the embedder and Qdrant do, however late an accepted *)
(* upsert is applied, and however often a client posts again.              *)
THEOREM WholeBatchesTheorem == Spec => []WholeBatches
<1>1. IngestInv => WholeBatches
  BY DEF IngestInv
<1>. QED BY <1>1, InitIngestInv, IngestInvKept, PTL DEF Spec

-----------------------------------------------------------------------------
(***************************************************************************)
(* Induction over an interval, from the library's theorem that the natural *)
(* numbers are well founded: a step that fails would fail first somewhere. *)
(***************************************************************************)
LEMMA Least ==
  ASSUME NEW T, T \subseteq Nat, T # {}
  PROVE  \E x \in T : \A y \in T : x <= y
<1>. DEFINE R == OpToRel(<, Nat)
<1>1. ASSUME NEW x \in Nat, NEW y \in Nat, y < x PROVE <<y, x>> \in R
  <2>1. <<y, x>> \in Nat \X Nat /\ <<y, x>>[1] < <<y, x>>[2]
    BY <1>1
  <2>. QED BY <2>1, Zenon DEF OpToRel
<1>2. \E x \in T : \A y \in T : ~ (<<y, x>> \in R)
  BY WFMin, NatLessThanWellFounded, Zenon
<1>3. \E x \in T : \A y \in T : ~ (y < x)
  <2>. HIDE DEF R
  <2>. QED BY <1>1, <1>2
<1>. QED BY <1>3

LEMMA Upwards ==
  ASSUME NEW n \in Nat, NEW S, 1 \in S, \A i \in 1..n : i \in S /\ i < n => i + 1 \in S
  PROVE  \A i \in 1..n : i \in S
<1>. DEFINE T == {i \in 1..n : i \notin S}
<1>. SUFFICES ASSUME T # {} PROVE FALSE
  OBVIOUS
<1>1. PICK k \in T : \A j \in T : k <= j
  <2>1. T \subseteq Nat
    OBVIOUS
  <2>. HIDE DEF T
  <2>. QED BY <2>1, Least
<1>2. k \in 1..n /\ k \notin S /\ k # 1
  OBVIOUS
<1>3. k - 1 \in 1..n /\ k - 1 < n /\ k - 1 \in S
  BY <1>1, <1>2
<1>. QED BY <1>2, <1>3

(* What FlattenSeq adds up, part by part. *)
Adds(f, ss, n) == \A i \in 1..n : f[i] = IF i = 1 THEN ss[i] ELSE f[i-1] \o ss[i]

LEMMA FlattensUp ==
  ASSUME NEW T, NEW n \in Nat \ {0}, NEW ss \in [1..n -> Seq(T)]
  PROVE  \E f \in [1..n -> Seq(T)] : Adds(f, ss, n)
<1>. DEFINE Can(k) == \E f \in [1..k -> Seq(T)] : Adds(f, ss, k)
            S == {k \in 1..n : Can(k)}
<1>1. Can(1)
  <2>. DEFINE f == [i \in 1..1 |-> ss[1]]
  <2>1. f \in [1..1 -> Seq(T)]
    OBVIOUS
  <2>2. Adds(f, ss, 1)
    BY DEF Adds
  <2>. HIDE DEF f
  <2>. QED BY <2>1, <2>2
<1>2. ASSUME NEW k \in 1..n, Can(k), k < n PROVE Can(k + 1)
  <2>1. PICK f \in [1..k -> Seq(T)] : Adds(f, ss, k)
    BY <1>2, Zenon
  <2>. DEFINE v == f[k] \o ss[k+1]
              g == [i \in 1..(k+1) |-> IF i = k + 1 THEN v ELSE f[i]]
  <2>2. f[k] \in Seq(T) /\ ss[k+1] \in Seq(T)
    BY <1>2
  <2>3. v \in Seq(T)
    BY <2>2
  <2>4. g \in [1..(k+1) -> Seq(T)]
    <3>. HIDE DEF v
    <3>. QED BY <2>3
  <2>5. Adds(g, ss, k + 1)
    <3>. SUFFICES ASSUME NEW i \in 1..(k+1)
         PROVE g[i] = IF i = 1 THEN ss[i] ELSE g[i-1] \o ss[i]
      BY Zenon DEF Adds
    <3>1. CASE i = k + 1
      <4>1. g[i] = f[k] \o ss[k+1] /\ g[i-1] = f[k] /\ i # 1
        BY <3>1
      <4>. HIDE DEF g
      <4>. QED BY <3>1, <4>1
    <3>2. CASE i # k + 1
      <4>1. i \in 1..k /\ g[i] = f[i] /\ (i # 1 => g[i-1] = f[i-1])
        BY <3>2
      <4>. HIDE DEF g
      <4>. QED BY <4>1, <2>1 DEF Adds
    <3>. QED BY <3>1, <3>2
  <2>. HIDE DEF g
  <2>. QED BY <2>4, <2>5
<1>. HIDE DEF Can
<1>3. 1 \in S
  BY <1>1
<1>4. ASSUME NEW i \in 1..n, i \in S, i < n PROVE i + 1 \in S
  BY <1>2, <1>4
<1>5. n \in S
  <2>. HIDE DEF S
  <2>1. n \in Nat /\ n \in 1..n
    OBVIOUS
  <2>2. \A i \in 1..n : i \in S
    BY <1>3, <1>4, <2>1, Upwards, Zenon
  <2>. QED BY <2>1, <2>2
<1>. QED BY <1>5 DEF Can

(* Sequences over T, one after another, are a sequence over T. *)
LEMMA Flattened ==
  ASSUME NEW T, NEW ss \in Seq(Seq(T))
  PROVE  FlattenSeq(ss) \in Seq(T)
<1>1. PICK n \in Nat : n = Len(ss) /\ ss \in [1..n -> Seq(T)]
  OBVIOUS
<1>. DEFINE D(g) == [i \in 1..n |-> IF i = 1 THEN ss[i] ELSE g[i-1] \o ss[i]]
            flatten == CHOOSE g : g = D(g)
<1>2. CASE n = 0
  BY <1>1, <1>2 DEF FlattenSeq
<1>3. CASE n # 0
  <2>0. n \in Nat \ {0} /\ n \in 1..n
    BY <1>3
  <2>1. PICK f \in [1..n -> Seq(T)] : Adds(f, ss, n)
    BY <1>1, <2>0, FlattensUp, Zenon
  <2>2. f = D(f)
    BY <2>1 DEF Adds
  <2>3. flatten = D(flatten)
    <3>. HIDE DEF D
    <3>. QED BY <2>2, Zenon
  <2>4. \A i \in 1..n : flatten[i] = IF i = 1 THEN ss[i] ELSE flatten[i-1] \o ss[i]
    <3>. HIDE DEF flatten
    <3>. QED BY <2>3
  <2>5. FlattenSeq(ss) = flatten[n]
    BY <1>1, <1>3 DEF FlattenSeq
  <2>. DEFINE S == {i \in 1..n : flatten[i] \in Seq(T)}
  <2>. HIDE DEF flatten
  <2>6. 1 \in S
    BY <2>4, <1>1, <1>3
  <2>7. ASSUME NEW i \in 1..n, i \in S, i < n PROVE i + 1 \in S
    <3>1. i + 1 \in 1..n /\ i + 1 # 1 /\ (i + 1) - 1 = i
      BY <2>7, <1>1
    <3>2. flatten[i+1] = flatten[i] \o ss[i+1]
      BY <2>4, <3>1
    <3>3. flatten[i+1] \in Seq(T)
      BY <2>7, <3>1, <3>2, <1>1
    <3>. QED BY <3>1, <3>3
  <2>8. n \in S
    <3>. HIDE DEF S
    <3>1. \A i \in 1..n : i \in S
      BY <2>6, <2>7, <1>1, Upwards, Zenon
    <3>. QED BY <2>0, <3>1
  <2>. QED BY <2>5, <2>8
<1>. QED BY <1>2, <1>3

-----------------------------------------------------------------------------
(* What a document's text can hold once it is sanitised. *)
Plain == Tokens \ Delimiters

LEMMA SanitizedPlain ==
  ASSUME NEW d \in Docs
  PROVE  Sanitized(Text[d]) \in Seq(Plain)
<1>1. Text[d] \in Seq(Words)
  BY TextAssumption
<1>2. Words \subseteq Tokens /\ "blocked" \in Plain
  BY DEF Tokens, Plain, Delimiters
<1>. DEFINE said(i) == IF Text[d][i] \in Delimiters THEN "blocked" ELSE Text[d][i]
<1>3. Len(Text[d]) \in Nat /\ \A i \in 1..Len(Text[d]) : said(i) \in Plain
  BY <1>1, <1>2 DEF Plain
<1>4. Sanitized(Text[d]) = [i \in 1..Len(Text[d]) |-> said(i)]
  BY DEF Sanitized
<1>. HIDE DEF said
<1>. QED BY <1>3, <1>4

LEMMA BlockShape ==
  ASSUME NEW found \in Seq(Docs)
  PROVE  \E said \in Seq(Plain) : Block(found) = <<"open", "head">> \o said \o <<"close">>
<1>. DEFINE parts == [i \in DOMAIN found |-> Sanitized(Text[found[i]])]
<1>1. parts \in Seq(Seq(Plain))
  <2>1. DOMAIN found = 1..Len(found) /\ Len(found) \in Nat
    OBVIOUS
  <2>2. \A i \in 1..Len(found) : Sanitized(Text[found[i]]) \in Seq(Plain)
    BY SanitizedPlain
  <2>. QED BY <2>1, <2>2
<1>. HIDE DEF parts
<1>2. FlattenSeq(parts) \in Seq(Plain)
  BY <1>1, Flattened
<1>. QED BY <1>2 DEF Block, parts

(* One block: its first token opens it and its last, or the last before    *)
(* the mark of a cut, closes it.                                           *)
LEMMA CappedSealed ==
  ASSUME NEW found \in Seq(Docs)
  PROVE  /\ Capped(Block(found)) \in Seq(Tokens)
         /\ Len(Capped(Block(found))) \in 2..(MaxContext + 2)
         /\ IsSealed(Capped(Block(found)))
<1>. DEFINE b == Block(found)
<1>1. PICK said \in Seq(Plain) : b = <<"open", "head">> \o said \o <<"close">>
  BY BlockShape
<1>. DEFINE n == Len(said) + 3
<1>. HIDE DEF b
<1>2. n \in Nat /\ Len(b) = n /\ b[1] = "open" /\ b[2] = "head" /\ b[n] = "close"
  BY <1>1
<1>3. ASSUME NEW i \in 2..(n-1) PROVE b[i] \in Plain
  <2>1. CASE i = 2
    BY <2>1, <1>2 DEF Plain, Tokens, Delimiters
  <2>2. CASE i # 2
    <3>1. i - 2 \in 1..Len(said) /\ b[i] = said[i-2]
      BY <1>1, <2>2
    <3>. QED BY <3>1
  <2>. QED BY <2>1, <2>2
<1>4. \A t \in Plain : t \in Tokens /\ t # "open" /\ t # "close"
  BY DEF Plain, Delimiters
<1>5. b \in Seq(Tokens)
  <2>1. \A i \in 1..n : b[i] \in Tokens
    BY <1>2, <1>3, <1>4 DEF Tokens, Delimiters
  <2>2. b = [i \in 1..n |-> b[i]]
    BY <1>1, <1>2
  <2>. QED BY <1>2, <2>1, <2>2
<1>. DEFINE c == Capped(b)
<1>6. CASE n <= MaxContext
  <2>1. c = b
    BY <1>2, <1>6, BoundsAssumption DEF Capped
  <2>2. IsSealed(b)
    BY <1>2, <1>3, <1>4, <1>5 DEF IsSealed
  <2>. QED BY <1>2, <1>5, <1>6, <2>1, <2>2, BoundsAssumption DEF b
<1>7. CASE n > MaxContext
  <2>. DEFINE m == MaxContext
  <2>1. c = SubSeq(b, 1, m) \o <<"close", "cut">> /\ m \in Nat /\ m >= 1
    BY <1>2, <1>7, BoundsAssumption DEF Capped
  <2>. HIDE DEF m, c
  <2>2. c \in Seq(Tokens) /\ Len(c) = m + 2 /\ c[m+1] = "close" /\ c[m+2] = "cut"
    BY <1>2, <1>5, <1>7, <2>1 DEF Tokens, Delimiters, m
  <2>3. \A i \in 1..m : c[i] = b[i]
    BY <1>2, <1>5, <1>7, <2>1 DEF m
  <2>4. IsSealed(c)
    BY <1>2, <1>3, <1>4, <1>7, <2>1, <2>2, <2>3 DEF IsSealed, m
  <2>. QED BY <2>1, <2>2, <2>4 DEF b, c, m
<1>. QED BY <1>2, <1>6, <1>7, BoundsAssumption

(* Re-encoded, as many messages with the same roles and contents. *)
LEMMA ReencodedMessages ==
  ASSUME NEW ms \in Seq(Message)
  PROVE  /\ Reencoded(ms) \in Seq(Message)
         /\ Reencoded(ms) = <<>> <=> ms = <<>>
         /\ ms # <<>> => Reencoded(ms)[1].role = ms[1].role /\ Reencoded(ms)[1].content = ms[1].content
<1>. DEFINE new(i) == [ms[i] EXCEPT !.more = FALSE]
<1>1. \A i \in 1..Len(ms) : /\ ms[i] \in Message /\ new(i) \in Message
                            /\ new(i).role = ms[i].role /\ new(i).content = ms[i].content
  <2>1. ASSUME NEW m \in Message
        PROVE  /\ [m EXCEPT !.more = FALSE] \in Message
               /\ [m EXCEPT !.more = FALSE].role = m.role /\ [m EXCEPT !.more = FALSE].content = m.content
    BY DEF Message
  <2>. QED BY <2>1
<1>2. Reencoded(ms) = [i \in 1..Len(ms) |-> new(i)] /\ Len(ms) \in Nat
  BY DEF Reencoded
<1>. HIDE DEF new
<1>3. Reencoded(ms) \in Seq(Message) /\ Len(Reencoded(ms)) = Len(ms)
  BY <1>1, <1>2
<1>4. ms # <<>> => 1 \in 1..Len(ms) /\ Reencoded(ms)[1] = new(1)
  BY <1>2
<1>. QED BY <1>1, <1>3, <1>4

LEMMA InjectedAugmented ==
  ASSUME NEW b \in Body, NEW found \in Seq(Docs)
  PROVE  Injected(b, found) \in Body /\ Augmented(b, Injected(b, found))
<1>. DEFINE B == Capped(Block(found))
            ms == Reencoded(b.messages)
            sent == Prepended(ms, B)
<1>1. B \in Seq(Tokens) /\ Len(B) \in 2..(MaxContext + 2) /\ IsSealed(B)
  BY CappedSealed
<1>. HIDE DEF B
<1>2. ms \in Seq(Message) /\ Injected(b, found) = [b EXCEPT !.messages = sent, !.extras = FALSE]
  <2>1. ms \in Seq(Message)
    BY ReencodedMessages DEF Body
  <2>2. Injected(b, found) = [[b EXCEPT !.messages = sent] EXCEPT !.extras = FALSE]
    BY DEF Injected, B
  <2>. QED BY <2>1, <2>2
<1>6. OwnSystem(b) = IF ms # <<>> /\ ms[1].role = "system" THEN ms[1].content ELSE <<>>
  <2>1. b.messages \in Seq(Message)
    BY DEF Body
  <2>2. /\ ms = <<>> <=> b.messages = <<>>
        /\ b.messages # <<>> => ms[1].role = b.messages[1].role /\ ms[1].content = b.messages[1].content
    BY <2>1, ReencodedMessages
  <2>. HIDE DEF ms
  <2>. QED BY <2>2 DEF OwnSystem
<1>. HIDE DEF ms
<1>3. Len(B) \in Nat /\ SubSeq(B, 1, Len(B)) = B
  BY <1>1
<1>4. CASE ms # <<>> /\ ms[1].role = "system"
  <2>. DEFINE own == ms[1].content
  <2>1. ms[1] \in Message /\ own \in Seq(Tokens) /\ Len(ms) >= 1
    <3>1. Len(ms) >= 1
      BY <1>2, <1>4
    <3>2. ms[1] \in Message
      BY <1>2, <3>1
    <3>. QED BY <3>1, <3>2 DEF Message
  <2>2. sent = [ms EXCEPT ![1].content = B \o own]
    BY <1>4 DEF Prepended
  <2>3. B \o own \in Seq(Tokens) /\ Len(B \o own) = Len(B) + Len(own) /\ Len(own) \in Nat
    BY <1>1, <2>1
  <2>4. SubSeq(B \o own, 1, Len(B)) = B
    <3>. HIDE DEF own
    <3>. QED BY <1>1, <1>3, <2>1, <2>3, SubSeqOfConcat1
  <2>5. [ms[1] EXCEPT !.content = B \o own] \in Message
    BY <2>1, <2>3 DEF Message
  <2>6. sent \in Seq(Message) /\ sent[1].content = B \o own
    BY <1>2, <2>1, <2>2, <2>5 DEF Message
  <2>7. OwnSystem(b) = own
    BY <1>4, <1>6
  <2>. HIDE DEF own, sent
  <2>8. Injected(b, found) \in Body /\ Injected(b, found).messages = sent
    BY <1>2, <2>6 DEF Body
  <2>9. SubSeq(sent[1].content, 1, Len(sent[1].content) - Len(OwnSystem(b))) = B
    BY <1>3, <2>3, <2>4, <2>6, <2>7
  <2>. QED BY <1>1, <2>8, <2>9 DEF Augmented, sent, ms
<1>5. CASE ~(ms # <<>> /\ ms[1].role = "system")
  <2>. DEFINE block == [role |-> "system", content |-> B, more |-> FALSE]
  <2>1. sent = <<block>> \o ms
    BY <1>5 DEF Prepended
  <2>2. block \in Message
    BY <1>1 DEF Message
  <2>3. sent \in Seq(Message) /\ sent[1] = block
    <3>. HIDE DEF block
    <3>. QED BY <1>2, <2>1, <2>2
  <2>4. OwnSystem(b) = <<>>
    BY <1>5, <1>6
  <2>5. sent[1].content = B
    BY <2>3
  <2>. HIDE DEF sent
  <2>6. Injected(b, found) \in Body /\ Injected(b, found).messages = sent
    BY <1>2, <2>3 DEF Body
  <2>7. SubSeq(sent[1].content, 1, Len(sent[1].content) - Len(OwnSystem(b))) = B
    BY <1>3, <2>4, <2>5
  <2>. QED BY <1>1, <2>6, <2>7 DEF Augmented, sent, ms
<1>. QED BY <1>4, <1>5
-----------------------------------------------------------------------------
(* A request is what its client asked until a search finds something,      *)
(* which only one with a collection of Qdrant's gets to; from then on it   *)
(* carries one sealed block, which compression keeps.                      *)
RequestOK(q) ==
  /\ q.pc \in {"embed", "search"} => q.body = q.asked /\ q.collection \in Collections
  /\ q.body \in {q.asked, [q.asked EXCEPT !.packed = TRUE]} \/ Augmented(q.asked, q.body)
RequestInv ==
  /\ conf \in Confs
  /\ request \in [Requests -> {New} \cup Begun]
  /\ \A r \in Requests : request[r] # New => RequestOK(request[r])

LEMMA RequestMoves ==
  ASSUME RequestInv, NEW r \in Requests, NEW q \in Begun, RequestOK(q),
         request' = [request EXCEPT ![r] = q], UNCHANGED conf
  PROVE  RequestInv'
<1>1. \A s \in Requests : request'[s] = IF s = r THEN q ELSE request[s]
  BY DEF RequestInv
<1>. QED BY <1>1 DEF RequestInv

(* What is known of a request that is being handled. *)
LEMMA Handled ==
  ASSUME RequestInv, NEW r \in Requests, request[r].pc # "new"
  PROVE  request[r] \in Begun /\ RequestOK(request[r])
  BY DEF RequestInv, New

(* A step to a later place, with the body as it was. *)
LEMMA OnlyMoves ==
  ASSUME RequestInv, NEW r \in Requests, request[r].pc # "new", NEW pc \in {"search", "compress", "sent"},
         pc = "search" => request[r].pc = "embed", To(r, pc), UNCHANGED conf
  PROVE  RequestInv'
<1>. DEFINE q == [request[r] EXCEPT !.pc = pc]
<1>1. request[r] \in Begun /\ RequestOK(request[r])
  BY Handled
<1>2. q \in Begun /\ RequestOK(q)
  BY <1>1 DEF Begun, RequestOK
<1>3. request' = [request EXCEPT ![r] = q]
  BY DEF To
<1>. HIDE DEF q
<1>. QED BY <1>2, <1>3, RequestMoves

LEMMA ArriveStep ==
  ASSUME RequestInv, NEW r \in Requests, NEW b \in Bodies, NEW c \in Consumers, Arrive(r, b, c)
  PROVE  RequestInv'
<1>. DEFINE in == CollectionFor(c)
            pc == IF in # Off /\ b.chat /\ UserText(b) # <<>> THEN "embed" ELSE "compress"
            q == [pc |-> pc, collection |-> in, compress |-> conf.compress, asked |-> b, body |-> b]
<1>1. in \in Collections \cup {Off} /\ conf.compress \in BOOLEAN
  BY ConfsAssumption, CollectionsAssumption DEF RequestInv, CollectionFor
<1>2. pc \in {"embed", "compress"} /\ (pc = "embed" => in # Off)
  OBVIOUS
<1>3. request' = [request EXCEPT ![r] = q] /\ UNCHANGED conf
  BY DEF Arrive
<1>. HIDE DEF in, pc
<1>4. q \in Begun /\ RequestOK(q)
  BY <1>1, <1>2, BodiesAssumption DEF Begun, RequestOK
<1>. HIDE DEF q
<1>. QED BY <1>3, <1>4, RequestMoves

LEMMA SearchStep ==
  ASSUME IngestTypeOK, RequestInv, NEW r \in Requests, Search(r)
  PROVE  RequestInv'
<1>. DEFINE o == request[r]
<1>1. PICK found \in SeqOf(Available(o.collection), TopK) :
             request' = [request EXCEPT ![r] = [[o EXCEPT !.pc = "compress"] EXCEPT !.body = Injected(o.body, found)]]
  <2>1. o \in Begun
    BY Handled DEF Search
  <2>. QED BY <2>1 DEF Search, RequestInv, Begun
<1>2. o \in Begun /\ RequestOK(o) /\ o.pc = "search" /\ UNCHANGED conf
  BY Handled DEF Search
<1>3. o.body = o.asked /\ o.collection \in Collections /\ o.body \in Body
  BY <1>2 DEF RequestOK, Begun
<1>4. found \in Seq(Docs)
  <2>1. Available(o.collection) \subseteq Docs
    BY <1>3, CollectionsAssumption DEF Available, IngestTypeOK
  <2>2. PICK n \in 0..TopK : found \in [1..n -> Available(o.collection)]
    BY DEF SeqOf
  <2>. QED BY <2>1, <2>2, BoundsAssumption
<1>. DEFINE q == [[o EXCEPT !.pc = "compress"] EXCEPT !.body = Injected(o.body, found)]
<1>5. Injected(o.body, found) \in Body /\ Augmented(o.body, Injected(o.body, found))
  BY <1>3, <1>4, InjectedAugmented
<1>6. q \in Begun /\ q.asked = o.asked /\ q.body = Injected(o.body, found) /\ q.pc = "compress"
  BY <1>2, <1>5 DEF Begun
<1>. HIDE DEF q
<1>7. RequestOK(q)
  BY <1>3, <1>5, <1>6 DEF RequestOK
<1>. QED BY <1>1, <1>2, <1>6, <1>7, RequestMoves DEF q

LEMMA CompressStep ==
  ASSUME RequestInv, NEW r \in Requests, Compress(r)
  PROVE  RequestInv'
<1>. DEFINE o == request[r]
            q == [[o EXCEPT !.pc = "sent"] EXCEPT !.body = [o.body EXCEPT !.packed = TRUE]]
<1>1. o \in Begun /\ RequestOK(o) /\ o.pc = "compress" /\ UNCHANGED conf
  BY Handled DEF Compress
<1>2. CASE To(r, "sent")
  BY <1>1, <1>2, OnlyMoves
<1>3. CASE request' = [request EXCEPT ![r].pc = "sent", ![r].body.packed = TRUE]
  <2>1. request' = [request EXCEPT ![r] = q]
    BY <1>1, <1>3 DEF RequestInv, Begun
  <2>2. o.body \in Body /\ o.asked \in Body
    BY <1>1, BodiesAssumption DEF Begun
  <2>. DEFINE packed == [o.body EXCEPT !.packed = TRUE]
  <2>3. /\ packed \in Body /\ packed.messages = o.body.messages
        /\ o.body \in {o.asked, [o.asked EXCEPT !.packed = TRUE]} => packed = [o.asked EXCEPT !.packed = TRUE]
    BY <2>2 DEF Body
  <2>4. q \in Begun /\ q.asked = o.asked /\ q.body = packed /\ q.pc = "sent"
    BY <1>1, <2>3 DEF Begun
  <2>5. Augmented(o.asked, o.body) => Augmented(o.asked, packed)
    BY <2>3 DEF Augmented
  <2>. HIDE DEF packed, q
  <2>6. RequestOK(q)
    BY <1>1, <2>3, <2>4, <2>5 DEF RequestOK
  <2>. QED BY <1>1, <2>1, <2>4, <2>6, RequestMoves
<1>. QED BY <1>2, <1>3 DEF Compress

LEMMA RequestInvKept == IngestTypeOK /\ RequestInv /\ [Next]_vars => RequestInv'
<1>. SUFFICES ASSUME IngestTypeOK, RequestInv, [Next]_vars PROVE RequestInv'
  OBVIOUS
<1>1. CASE UNCHANGED <<conf, request>>
  BY <1>1 DEF RequestInv
<1>2. ASSUME NEW r \in Requests, Handles(r) PROVE RequestInv'
  <2>1. CASE EmbedText(r) \/ SearchFails(r)
    BY <2>1, OnlyMoves DEF EmbedText, SearchFails
  <2>. QED BY <1>2, <2>1, SearchStep, CompressStep DEF Handles
<1>3. CASE Reload
  BY <1>3 DEF Reload, RequestInv
<1>4. ASSUME NEW b \in Batches, Post(b) \/ Ingests(b) PROVE UNCHANGED <<conf, request>>
  BY <1>4 DEF Post, Ingests, Embed, EmbedFails, Upsert, Report, GivesUp
<1>5. ASSUME NEW u \in wire \cup taken, Accepts(u) \/ Refuses(u) \/ Drops(u) \/ Applies(u)
      PROVE  UNCHANGED <<conf, request>>
  BY <1>5 DEF Accepts, Refuses, Drops, Applies
<1>6. CASE UNCHANGED vars
  BY <1>1, <1>6 DEF vars
<1>. QED BY <1>1, <1>2, <1>3, <1>4, <1>5, <1>6, ArriveStep DEF Next

LEMMA RequestInvHolds == Spec => [](IngestTypeOK /\ RequestInv)
<1>1. Init => IngestInv /\ RequestInv
  BY InitIngestInv DEF Init, RequestInv
<1>2. IngestInv => IngestTypeOK
  BY DEF IngestInv
<1>. QED BY <1>1, <1>2, IngestInvKept, RequestInvKept, PTL DEF Spec

(* Whatever the embedder, Qdrant, the compressor and reloads do, a request *)
(* in flight is a request the gateway knows, with a body it can send.      *)
THEOREM RetrievalTypeCorrect == Spec => []TypeOK
<1>1. IngestTypeOK /\ RequestInv => TypeOK
  BY DEF RequestInv, TypeOK
<1>. QED BY <1>1, RequestInvHolds, PTL

(* Whatever words and delimiters the documents hold, however many of them  *)
(* a search finds and wherever the cap cuts them: what goes on is what was *)
(* asked, or that re-encoded behind one block that opens and closes once.  *)
THEOREM ContextSealedTheorem == Spec => []ContextSealed
<1>1. RequestInv => ContextSealed
  BY DEF RequestInv, RequestOK, ContextSealed
<1>. QED BY <1>1, RequestInvHolds, PTL
=============================================================================
