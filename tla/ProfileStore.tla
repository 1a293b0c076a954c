------------------------------ MODULE ProfileStore ------------------------------
(***************************************************************************)
(* The profile the daemon holds and the requests that change it.  A        *)
(* request reads the document, derives the next one and hands it to        *)
(* applyProfile in one step here (ConfigApply takes that apart), except    *)
(* where a download lies between reading and applying.                     *)
(***************************************************************************)
EXTENDS ProfileDocument, TLC

CONSTANTS
  Settings,    \* routing, DNS, inbounds, ...
  Imports,     \* sequences of nodes that a client imports
  Feeds,       \* Feeds[p]: what a download for p may bring, as parsed links
  Upserts,     \* nodes that a client writes
  Documents,   \* documents that a client applies as a whole
  TotalChunks, \* totalBatches of an import in chunks
  MaxNodes,    \* bound on the nodes of a document
  MaxPending   \* bound on what is under way: downloads, batches, previews

ASSUME ProfileStoreAssumption ==
  /\ \A d \in Documents : d.nodes \in Seq(ToSet(d.nodes))
  /\ \A nodes \in Imports \cup UNION {Feeds[p] : p \in Providers} :
       nodes \in Seq({n \in ToSet(nodes) : IsNode(n)})

VARIABLES
  doc,      \* the profile in d.cfg
  reload,   \* the reload flag of a mutation that just succeeded, or "none"
  fetch,    \* the download under way, with the document read before it
  batch,    \* ImportBatchStore, for one batch id
  preview   \* SubscriptionPreviewCache, for one preview id

vars == <<doc, reload, fetch, batch, preview>>

NoFetch == [kind |-> "none"]
NoBatch == [total |-> 0, chunks |-> <<>>, expired |-> FALSE]
NoPreview == [kind |-> "none"]

MayBegin ==
  Cardinality({x \in {"fetch", "batch", "preview"} :
    CASE x = "fetch" -> fetch # NoFetch
      [] x = "batch" -> batch # NoBatch
      [] OTHER -> preview # NoPreview}) < MaxPending

\* A step that applies nothing.
Quiet == UNCHANGED doc /\ reload' = "none"

-----------------------------------------------------------------------------
(* applyProfile                                                            *)

\* applyProfileContext: a refused document changes nothing; one that passes may
\* still meet a busy runtime, a write that fails or a cancelled request.
Apply(next, reloads) ==
  /\ Len(next.nodes) <= MaxNodes
  /\ \/ ~Refused(next) /\ doc' = Normalize(next) /\ reload' = reloads
     \/ Quiet

Flag(b) == IF b THEN "reload" ELSE "keep"

\* A request without a wait.  The model bounds the changes that one download can
\* miss to one.
Change(next, r) ==
  /\ fetch.kind = "refresh" => doc = fetch.base
  /\ Apply(next, Flag(r))
  /\ UNCHANGED <<fetch, batch, preview>>

-----------------------------------------------------------------------------
(* Requests that change the document at once                               *)

ProfileApply == \E d \in Documents, r \in BOOLEAN : Change(d, r)

\* DecodeImportNodesParams, DecodeImportNodesBatchParams: an imported node is a
\* live node of the user, whatever the client says.
Manual(nodes) ==
  [i \in DOMAIN nodes |-> [nodes[i] EXCEPT !.source = "manual", !.stale = FALSE]]

ImportNodes ==
  \E nodes \in Imports, r \in BOOLEAN : Change(MergeNodes(doc, Manual(nodes)).doc, r)

\* ProfileSetActiveNode; asking for the active node is a no-op.
ChooseNode ==
  \E id \in Ids(doc.nodes), r \in BOOLEAN :
    /\ Live(doc.nodes, id) /\ id # doc.active
    /\ Change(SetActiveNode(doc, id), r)

\* ProfilePatch with a null activeNodeId
ClearActive ==
  /\ doc.active # NoId
  /\ \E r \in BOOLEAN : Change([doc EXCEPT !.active = NoId], r)

\* ProfilePatch, ProfileRoutingPatch, ProfileDNSPatch, ProfileInboundPatch
PatchSettings ==
  \E s \in Settings, r \in BOOLEAN : Change([doc EXCEPT !.settings = s], r)

NodeUpsert(node, r) ==
  LET u == UpsertNode(doc, node)
      c == CompareUpsert([doc EXCEPT !.nodes = u.caller], u.doc, node.id)
  IN IF r THEN Change(c.next, ~c.only) ELSE Change(u.doc, FALSE)

NodeRemove ==
  \E id \in Ids(doc.nodes), r \in BOOLEAN : Change(RemoveNode(doc, id), r)

-----------------------------------------------------------------------------
(* Import in chunks                                                        *)

\* cleanupLocked
Batch == IF batch.expired THEN NoBatch ELSE batch

\* Mutant: the store is not cleaned up first.
AddToAnyBatch(nodes) ==
  /\ Len(batch.chunks) < TotalChunks /\ (batch # NoBatch \/ MayBegin)
  /\ batch' = [total |-> TotalChunks, expired |-> FALSE,
               chunks |-> Append(batch.chunks, [nodes |-> Manual(nodes), old |-> FALSE])]
  /\ Quiet /\ UNCHANGED <<fetch, preview>>

\* ProfileImportNodesBatch: chunks have no number; old says that the batch of a
\* chunk has expired.
AddChunk(nodes) ==
  /\ Len(Batch.chunks) < TotalChunks /\ (batch # NoBatch \/ MayBegin)
  /\ batch' = [total |-> TotalChunks, expired |-> FALSE,
               chunks |-> Append(Batch.chunks, [nodes |-> Manual(nodes), old |-> FALSE])]
  /\ Quiet /\ UNCHANGED <<fetch, preview>>

\* ProfileCommitImportBatch: the batch is gone whatever becomes of the document.
CommitBatch ==
  /\ Batch # NoBatch /\ Len(Batch.chunks) = Batch.total
  /\ LET nodes == FlattenSeq([i \in DOMAIN batch.chunks |-> batch.chunks[i].nodes])
     IN \E r \in BOOLEAN : Apply(MergeNodes(doc, nodes).doc, Flag(r))
  /\ batch' = NoBatch
  /\ UNCHANGED <<fetch, preview>>

\* importBatchTTL passes without a chunk.
BatchExpires ==
  /\ batch # NoBatch /\ ~batch.expired
  /\ batch' = [batch EXCEPT !.expired = TRUE,
                            !.chunks = [i \in DOMAIN @ |-> [@[i] EXCEPT !.old = TRUE]]]
  /\ Quiet /\ UNCHANGED <<fetch, preview>>

-----------------------------------------------------------------------------
(* Subscriptions                                                           *)

\* SubscriptionRefresh and SubscriptionPreview read the document and download.
StartFetch ==
  /\ fetch = NoFetch /\ MayBegin
  /\ \E p \in Providers, k \in {"refresh", "preview"} :
       fetch' = [kind |-> k, provider |-> p, base |-> IF k = "refresh" THEN doc ELSE <<>>]
  /\ Quiet /\ UNCHANGED <<batch, preview>>

FetchFails ==
  /\ fetch # NoFetch
  /\ fetch' = NoFetch
  /\ Quiet /\ UNCHANGED <<batch, preview>>

\* ParseSubscription: links that point to a local server are rejected.
Accepted(feed) == Those(feed, {i \in DOMAIN feed : feed[i].out \notin LocalOuts})

\* subscriptionRefreshReloadDefault
ReloadDefault(current, next) ==
  LET At(d) == SelectInSeq(d.nodes, LAMBDA n : n.id = current.active)
  IN \/ current.active = NoId
     \/ next.active # current.active
     \/ At(current) = 0 \/ At(next) = 0
     \/ ~SameProjection(current.nodes[At(current)], next.nodes[At(next)])

\* ApplyPreview and the reload that the client leaves to the daemon.  A feed of
\* nothing but rejected links is ErrNoSupportedNodes.
ApplyFeed(base, p, feed) ==
  /\ Accepted(feed) # <<>> \/ feed = <<>>
  /\ \E m \in {ApplyPreview(base, p, Accepted(feed))} :
       Apply(m.doc, Flag(ReloadDefault([base EXCEPT !.nodes = m.caller], m.doc)))

\* What is applied derives from the document read before the download.
Refresh(feed) ==
  /\ fetch.kind = "refresh" /\ feed \in Feeds[fetch.provider]
  /\ ApplyFeed(fetch.base, fetch.provider, feed)
  /\ fetch' = NoFetch
  /\ UNCHANGED <<batch, preview>>

PutPreview(feed) ==
  /\ fetch.kind = "preview" /\ feed \in Feeds[fetch.provider]
  /\ preview' = [kind |-> "cached", provider |-> fetch.provider, feed |-> feed]
  /\ fetch' = NoFetch
  /\ Quiet /\ UNCHANGED batch

\* SubscriptionCommitPreview: a preview is taken once.
CommitPreview ==
  /\ preview # NoPreview
  /\ ApplyFeed(doc, preview.provider, preview.feed)
  /\ preview' = NoPreview
  /\ UNCHANGED <<fetch, batch>>

\* subscriptionPreviewTTL passes, or the commit ends in an error.
PreviewGone ==
  /\ preview # NoPreview
  /\ preview' = NoPreview
  /\ Quiet /\ UNCHANGED <<fetch, batch>>

-----------------------------------------------------------------------------
\* A first start: storage.go writes the default profile.
Init ==
  /\ \E s \in Settings \ BadSettings : doc = EmptyDocument(s)
  /\ reload = "none"
  /\ fetch = NoFetch
  /\ batch = NoBatch
  /\ preview = NoPreview

Next ==
  \/ ProfileApply \/ ImportNodes \/ ChooseNode \/ ClearActive \/ PatchSettings
  \/ \E node \in Upserts, r \in BOOLEAN : NodeUpsert(node, r)
  \/ NodeRemove
  \/ \E nodes \in Imports : AddChunk(nodes)
  \/ CommitBatch \/ BatchExpires
  \/ StartFetch \/ FetchFails
  \/ \E p \in Providers : \E feed \in Feeds[p] : Refresh(feed) \/ PutPreview(feed)
  \/ CommitPreview \/ PreviewGone

Spec == Init /\ [][Next]_vars

-----------------------------------------------------------------------------
(* Properties                                                              *)

\* What is stored is a document the daemon would load again: ids are unique, the
\* active node is there and live, only nodes of known subscriptions are stale,
\* and the subscriptions count their nodes.
DocumentSound ==
  /\ ~Refused(doc)
  /\ doc.active # NoId => Live(doc.nodes, doc.active)
  /\ \A p \in DOMAIN doc.subs :
       /\ doc.subs[p].live = Count(doc.nodes, p, FALSE)
       /\ doc.subs[p].gone = Count(doc.nodes, p, TRUE)

Refreshed(feed) == reload' # "none" /\ Refresh(feed)
SomeFeed == UNION {Feeds[p] : p \in Providers}

\* A refresh works in the scope of its provider: the nodes of the user and of
\* other providers, in the document it read, come out as they were.
RefreshKeepsOthers ==
  [][\A feed \in SomeFeed : Refreshed(feed) =>
       Others(doc'.nodes, fetch.provider) = Others(fetch.base.nodes, fetch.provider)]_vars

\* Whatever the document, a refresh is accepted, and the same refresh once more
\* changes nothing: ids made unique stay what they are.  (It is about the
\* document alone, so one state with each document is enough.)
RefreshSettles ==
  fetch = NoFetch /\ batch = NoBatch /\ preview = NoPreview =>
  \A p \in Providers : \A feed \in Feeds[p] :
    \A first \in {ApplyPreview(doc, p, Accepted(feed)).doc} :
      \A once \in {Normalize(first)} :
        \A again \in {ApplyPreview(once, p, Accepted(feed)).doc} :
          ~Refused(first) /\ Normalize(again) = once

\* Chunks of an import that expired are never imported with those of a new one.
NoMixedBatch ==
  [][CommitBatch /\ reload' # "none" =>
       \A i \in DOMAIN batch.chunks : ~batch.chunks[i].old]_vars

=============================================================================
