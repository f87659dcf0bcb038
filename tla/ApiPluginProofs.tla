---------------------------- MODULE ApiPluginProofs ----------------------------
(***************************************************************************)
(* Proofs about the api plugin: what a refresh has read is in the          *)
(* catalogue, an answer is one stream of one model, and the conversation   *)
(* keeps no question that nobody will answer.                              *)
(***************************************************************************)
EXTENDS
  ApiPlugin, SequenceTheorems, FiniteSetTheorems, WellFoundedInduction, TLAPS

----------------------------------------------------------------------------
(* The catalogue, as the refresh sees it. *)

\* The records keep their fields.
EndpointShaped(e) == e = [f \in {"stored", "checked", "alive", "cooling"} |-> e[f]]
IngestShaped(w) == w = [f \in {"at", "posts", "n", "i", "new"} |-> w[f]]

\* What the tables are, whoever writes them.
TablesInv ==
  /\ offer \in Offers /\ published \in 0..MaxPosts
  /\ endpoint = [k \in Keys |-> endpoint[k]] /\ \A k \in Keys : EndpointShaped(endpoint[k])
  /\ flags = [row \in Rows |-> flags[row]]
  /\ ingest = [w \in Workers |-> ingest[w]]

\* The first n mentions of a post are in the table.
Marked(p, n) == \A j \in 1..n : offer[p].mentions[j].flag
                                  \in flags[<<offer[p].key, offer[p].mentions[j].model>>]

\* What the refresh has read so far is stored.
AtPost == {"find", "insert", "mark", "cursor", "advance"}
Storing(w) ==
  /\ w.at \in AtPost \cup {"idle", "sweep"}
  /\ w.at # "idle" => w.posts \in Seq(Posts)
  /\ w.at \in AtPost => w.n \in 1..Len(w.posts) /\ \A j \in 1..(w.n - 1) : Applied(w.posts[j])
  /\ w.at = "insert" => w.i = 1
  /\ w.at = "mark" => LET p == w.posts[w.n]
                      IN /\ endpoint[offer[p].key].stored
                         /\ w.i \in 1..Len(offer[p].mentions) /\ Marked(p, w.i - 1)
  /\ w.at \in {"cursor", "advance"} => Applied(w.posts[w.n])
  /\ w.at = "sweep" => \A j \in 1..Len(w.posts) : Applied(w.posts[j])
RefreshInv ==
  /\ TablesInv
  /\ IngestShaped(ingest[Refresh]) /\ Storing(ingest[Refresh])

\* The tables only grow, in what they say of the channel.
EndpointsGrow ==
  /\ endpoint' = [k \in Keys |-> endpoint'[k]] /\ \A k \in Keys : EndpointShaped(endpoint'[k])
  /\ \A k \in Keys : endpoint[k].stored => endpoint'[k].stored
FlagsGrow ==
  /\ flags' = [row \in Rows |-> flags'[row]]
  /\ \A row \in Rows : flags[row] \subseteq flags'[row]
Grow == offer' = offer /\ EndpointsGrow /\ FlagsGrow

\* What the channel offers in a post is a key and rows of the catalogue.
LEMMA PostOffered ==
  ASSUME TablesInv, NEW p \in Posts
  PROVE  /\ offer[p].key \in Keys /\ offer[p].mentions \in Seq([model : Models, flag : Flags])
         /\ \A j \in 1..Len(offer[p].mentions) :
              <<offer[p].key, offer[p].mentions[j].model>> \in Rows
<1>1. offer[p].key \in Keys /\ offer[p].mentions \in Seq([model : Models, flag : Flags])
  BY ApiCatalogAssumption DEF TablesInv
<1>2. ASSUME NEW j \in 1..Len(offer[p].mentions) PROVE offer[p].mentions[j].model \in Models
  <2>1. offer[p].mentions[j] \in [model : Models, flag : Flags] BY <1>1, <1>2, ElementOfSeq
  <2> QED BY <2>1
<1> QED BY <1>1, <1>2 DEF Rows

\* A post is in the catalogue when its key is stored and all of its mentions are marked.
LEMMA AppliedIs ==
  ASSUME TablesInv, NEW p \in Posts
  PROVE  Applied(p) <=> /\ endpoint[offer[p].key].stored
                        /\ Marked(p, Len(offer[p].mentions))
<1>1. ToSet(offer[p].mentions) = {offer[p].mentions[j] : j \in 1..Len(offer[p].mentions)}
  BY PostOffered DEF ToSet
<1> QED BY <1>1 DEF Applied, Marked

\* _mark_models() ORs its flags: what was marked stays marked.
LEMMA MarkedGrows ==
  ASSUME TablesInv, Grow, NEW p \in Posts, NEW n \in Nat, n <= Len(offer[p].mentions),
         Marked(p, n)
  PROVE  Marked(p, n)'
<1>1. ASSUME NEW j \in 1..n
      PROVE  offer'[p].mentions[j].flag \in flags'[<<offer'[p].key,
          offer'[p].mentions[j].model>>]
  <2>1. j \in 1..Len(offer[p].mentions) BY PostOffered
  <2>2. <<offer[p].key, offer[p].mentions[j].model>> \in Rows BY <2>1, PostOffered
  <2>3. offer[p].mentions[j].flag \in flags[<<offer[p].key, offer[p].mentions[j].model>>]
    BY DEF Marked
  <2> QED BY <2>2, <2>3 DEF Grow, EndpointsGrow, FlagsGrow
<1> QED BY <1>1 DEF Marked

\* What is in the catalogue stays there.
LEMMA AppliedGrows ==
  ASSUME TablesInv, TablesInv', Grow, NEW p \in Posts, Applied(p) PROVE Applied(p)'
<1>1. endpoint[offer[p].key].stored /\ Marked(p, Len(offer[p].mentions)) BY AppliedIs
<1>2. Len(offer[p].mentions) \in Nat /\ Len(offer[p].mentions) <= Len(offer[p].mentions)
  BY PostOffered, LenProperties
<1>3. Marked(p, Len(offer[p].mentions))'
  BY <1>1, <1>2, MarkedGrows DEF Grow, EndpointsGrow, FlagsGrow
<1>4. endpoint'[offer[p].key].stored BY <1>1, PostOffered DEF Grow, EndpointsGrow, FlagsGrow
<1>5. ToSet(offer[p].mentions) = {offer[p].mentions[j] : j \in 1..Len(offer[p].mentions)}
  BY PostOffered DEF ToSet
<1> QED BY <1>3, <1>4, <1>5 DEF Applied, Marked, Grow, EndpointsGrow, FlagsGrow

\* What the refresh has stored stays stored when the tables grow.
LEMMA StoringGrows ==
  ASSUME TablesInv, TablesInv', Grow, NEW w, Storing(w) PROVE Storing(w)'
<1>2. ASSUME w.posts \in Seq(Posts), NEW j \in 1..Len(w.posts), Applied(w.posts[j])
      PROVE  Applied(w.posts[j])'
  <2>1. w.posts[j] \in Posts BY <1>2
  <2> QED BY <1>2, <2>1, AppliedGrows
<1>3. CASE w.at \in AtPost
  <2>1. w.n \in 1..Len(w.posts) /\ w.posts \in Seq(Posts) /\ w.posts[w.n] \in Posts
    BY <1>3 DEF Storing, AtPost
  <2>2. ASSUME NEW j \in 1..(w.n - 1) PROVE Applied(w.posts[j])'
    <3>1. j \in 1..Len(w.posts) BY <2>1
    <3>2. Applied(w.posts[j]) BY <1>3 DEF Storing
    <3> QED BY <1>2, <2>1, <3>1, <3>2
  <2>3. w.at \in {"cursor", "advance"} => Applied(w.posts[w.n])'
    BY <1>2, <2>1 DEF Storing
  <2>4. CASE w.at = "mark"
    <3> DEFINE p == w.posts[w.n]
    <3>1. /\ endpoint[offer[p].key].stored
          /\ w.i \in 1..Len(offer[p].mentions) /\ Marked(p, w.i - 1)
      BY <2>4 DEF Storing
    <3>2. w.i - 1 \in Nat /\ w.i - 1 <= Len(offer[p].mentions) BY <3>1
    <3>3. Marked(p, w.i - 1)' BY <2>1, <3>1, <3>2, MarkedGrows
    <3>4. endpoint'[offer'[p].key].stored
      BY <2>1, <3>1, PostOffered DEF Grow, EndpointsGrow, FlagsGrow
    <3>5. w.i \in 1..Len(offer'[p].mentions) BY <3>1 DEF Grow, EndpointsGrow, FlagsGrow
    <3> QED BY <2>1, <2>2, <2>4, <3>3, <3>4, <3>5 DEF Storing, AtPost
  <2>5. CASE w.at # "mark" BY <1>3, <2>1, <2>2, <2>3, <2>5 DEF Storing, AtPost
  <2> QED BY <2>4, <2>5
<1>4. CASE w.at = "sweep"
  <2>1. \A j \in 1..Len(w.posts) : Applied(w.posts[j])' BY <1>2, <1>4 DEF Storing
  <2> QED BY <1>4, <2>1 DEF Storing, AtPost
<1>5. CASE w.at = "idle"
  BY <1>5 DEF Storing, AtPost
<1> QED BY <1>3, <1>4, <1>5 DEF Storing

\* Storing of the record that the refresh is after the step.
LEMMA StoringThere ==
  ASSUME NEW w, w = ingest'[Refresh], Storing(w)' PROVE Storing(ingest[Refresh])'
BY DEF Storing, Applied, Marked, AtPost, ToSet

\* One endpoint is written, and stays stored.
LEMMA EndpointWritten ==
  ASSUME TablesInv, NEW k, NEW e, k \in Keys => EndpointShaped(e),
         k \in Keys /\ endpoint[k].stored => e.stored, endpoint' = [endpoint EXCEPT ![k] = e]
  PROVE  EndpointsGrow
BY DEF TablesInv, EndpointsGrow

\* Tables that are not written have not shrunk.
LEMMA EndpointKept == ASSUME TablesInv, UNCHANGED endpoint PROVE EndpointsGrow
BY DEF TablesInv, EndpointsGrow

\* Nor have the flags of the rows.
LEMMA FlagsKept == ASSUME TablesInv, UNCHANGED flags PROVE FlagsGrow
BY DEF TablesInv, FlagsGrow

\* A row is given a flag.
LEMMA FlagAdded ==
  ASSUME TablesInv, NEW row, NEW f, flags' = [flags EXCEPT ![row] = @ \cup {f}]
  PROVE  FlagsGrow /\ (row \in Rows => f \in flags'[row])
BY DEF TablesInv, FlagsGrow

\* _penalize() and a refusal set a cooldown and leave the rest of the row.
LEMMA EndpointCooled ==
  ASSUME TablesInv, NEW k, NEW v, endpoint' = [endpoint EXCEPT ![k].cooling = v]
  PROVE  EndpointsGrow
<1> DEFINE e == [endpoint[k] EXCEPT !.cooling = v]
<1>1. k \in Keys => EndpointShaped(e) /\ e.stored = endpoint[k].stored
  BY DEF TablesInv, EndpointShaped
<1>2. endpoint' = [endpoint EXCEPT ![k] = e] OBVIOUS
<1> HIDE DEF e
<1> QED BY <1>1, <1>2, EndpointWritten

\* upsert_post() stores a key.
LEMMA EndpointStored ==
  ASSUME TablesInv, NEW k, endpoint' = [endpoint EXCEPT ![k].stored = TRUE]
  PROVE  EndpointsGrow /\ (k \in Keys => endpoint'[k].stored)
<1> DEFINE e == [endpoint[k] EXCEPT !.stored = TRUE]
<1>1. k \in Keys => EndpointShaped(e) /\ e.stored
  BY DEF TablesInv, EndpointShaped
<1>2. endpoint' = [endpoint EXCEPT ![k] = e] OBVIOUS
<1> HIDE DEF e
<1> QED BY <1>1, <1>2, EndpointWritten DEF TablesInv

\* mark_checked() writes the verdict on a key.
LEMMA EndpointChecked ==
  ASSUME TablesInv, NEW k, NEW v,
         endpoint' = [endpoint EXCEPT ![k].checked = TRUE, ![k].alive = v]
  PROVE  EndpointsGrow
<1> DEFINE e == [endpoint[k] EXCEPT !.checked = TRUE, !.alive = v]
<1>1. k \in Keys => EndpointShaped(e) /\ e.stored = endpoint[k].stored
  BY DEF TablesInv, EndpointShaped
<1>2. endpoint' = [endpoint EXCEPT ![k] = e] BY DEF TablesInv
<1> HIDE DEF e
<1> QED BY <1>1, <1>2, EndpointWritten

----------------------------------------------------------------------------
\* Who else writes leaves the refresh alone.
WritesOnly(x) ==
  /\ ingest' = [w \in Workers |-> ingest'[w]]
  /\ \A w \in Workers : w # x => ingest'[w] = ingest[w]

\* A step that writes one record of ingest leaves the others.
LEMMA OneWorker ==
  ASSUME TablesInv, NEW x, NEW v, ingest' = [ingest EXCEPT ![x] = v] PROVE WritesOnly(x)
BY DEF TablesInv, WritesOnly

\* Where nobody writes posts, nobody does.
LEMMA NoWorker ==
  ASSUME TablesInv, NEW x, UNCHANGED ingest PROVE WritesOnly(x)
BY DEF TablesInv, WritesOnly

\* The channel itself is left alone.
Quiet == UNCHANGED <<offer, published>>

\* _ingest() and _scan() go on to the next post of their own list.
LEMMA StoredMoves == 
  ASSUME TablesInv, NEW x, Stored(x) PROVE WritesOnly(x)
BY DEF TablesInv, WritesOnly, Stored

\* The steps of upsert_post() and advance_cursor(), whoever takes them.
LEMMA LooksMoves ==
  ASSUME TablesInv, NEW x, NEW to, Looks(x, to) PROVE WritesOnly(x) /\ Grow /\ Quiet
<1>1. UNCHANGED <<offer, published, endpoint, flags>> BY DEF Looks, others
<1>2. WritesOnly(x) BY DEF Looks, TablesInv, WritesOnly
<1> QED BY <1>1, <1>2, EndpointKept, FlagsKept DEF Grow, Quiet

\* Inserts adds a key.
LEMMA InsertsMoves ==
  ASSUME TablesInv, NEW x, Inserts(x) PROVE WritesOnly(x) /\ Grow /\ Quiet
<1>1. UNCHANGED <<offer, published, flags>> BY DEF Inserts, others
<1>2. WritesOnly(x) BY DEF Inserts, Fails, Goes, TablesInv, WritesOnly
<1>3. EndpointsGrow BY EndpointKept, EndpointStored DEF Inserts
<1> QED BY <1>1, <1>2, <1>3, FlagsKept DEF Grow, Quiet

\* Marks adds a flag.
LEMMA MarksMoves ==
  ASSUME TablesInv, NEW x, Marks(x) PROVE WritesOnly(x) /\ Grow /\ Quiet
<1>1. UNCHANGED <<offer, published, endpoint>> BY DEF Marks, others
<1>2. WritesOnly(x) BY DEF Marks, TablesInv, WritesOnly
<1>3. FlagsGrow BY FlagAdded DEF Marks
<1> QED BY <1>1, <1>2, <1>3, EndpointKept DEF Grow, Quiet

\* The cursor is none of the tables that matter here.
LEMMA CursorMoves ==
  ASSUME TablesInv, NEW x, ReadsCursor(x) \/ AdvancesCursor(x)
    PROVE WritesOnly(x) /\ Grow /\ Quiet
<1>1. UNCHANGED <<offer, published, endpoint, flags>>
  BY DEF ReadsCursor, AdvancesCursor, others
<1>2. CASE Stored(x) BY <1>1, <1>2, StoredMoves, EndpointKept, FlagsKept DEF Grow, Quiet
<1>3. CASE Goes(x, "advance")
  BY <1>1, <1>3, OneWorker, EndpointKept, FlagsKept
  DEF Grow, Quiet, Goes, WritesOnly, TablesInv
<1> QED BY <1>2, <1>3 DEF ReadsCursor, AdvancesCursor

\* So whoever stores a post writes its own record and lets the tables grow.
LEMMA IngestingMoves ==
  ASSUME TablesInv, NEW x, Ingesting(x) PROVE WritesOnly(x) /\ Grow /\ Quiet
BY LooksMoves, InsertsMoves, MarksMoves, CursorMoves DEF Ingesting, Finds

\* The validations write endpoints and rows and no post.
LEMMA ValidatingMoves ==
  ASSUME TablesInv, NEW s, Validating(s) PROVE UNCHANGED ingest /\ Grow /\ Quiet
<1>1. UNCHANGED <<offer, published, ingest>>
  BY DEF Validating, Acquire, Lists, Chooses, Pings, MarkChecked, InsertsListed, ping
<1>2. CASE Acquire(s) \/ Chooses(s)
  BY <1>1, <1>2, EndpointKept, FlagsKept DEF Acquire, Chooses, Grow, Quiet
<1>3. CASE Lists(s)
  <2>1. EndpointsGrow BY <1>3, EndpointKept, EndpointCooled DEF Lists
  <2>2. UNCHANGED flags BY <1>3 DEF Lists
  <2> QED BY <1>1, <2>1, <2>2, FlagsKept DEF Grow, Quiet
<1>4. CASE Pings(s)
  <2>1. EndpointsGrow BY <1>4, EndpointKept, EndpointCooled DEF Pings
  <2>2. UNCHANGED flags BY <1>4 DEF Pings
  <2> QED BY <1>1, <2>1, <2>2, FlagsKept DEF Grow, Quiet
<1>5. CASE MarkChecked(s)
  <2>1. EndpointsGrow BY <1>5, EndpointChecked DEF MarkChecked
  <2>2. UNCHANGED flags BY <1>5 DEF MarkChecked
  <2> QED BY <1>1, <2>1, <2>2, FlagsKept DEF Grow, Quiet
<1>6. CASE InsertsListed(s)
  <2>1. FlagsGrow BY <1>6, FlagAdded DEF InsertsListed
  <2>2. UNCHANGED endpoint BY <1>6 DEF InsertsListed
  <2> QED BY <1>1, <2>1, <2>2, EndpointKept DEF Grow, Quiet
<1> QED BY <1>2, <1>3, <1>4, <1>5, <1>6 DEF Validating

\* The commands cool endpoints and rows, and nothing else of the catalogue.
LEMMA ProgressMoves ==
  ASSUME TablesInv, NEW r \in Requests, Progress(r) PROVE UNCHANGED ingest /\ Grow /\ Quiet
<1>1. CASE Working(r) /\ UNCHANGED catalog
  BY <1>1, EndpointKept, FlagsKept DEF catalog, Grow, Quiet
<1>2. CASE Asking(r) /\ UNCHANGED elsewhere
  <2>1. UNCHANGED <<offer, published, ingest, flags>> BY <1>2 DEF elsewhere
  <2>2. EndpointsGrow
    <3>1. ASSUME NEW row, NEW error, Penalized(row, error) PROVE EndpointsGrow
      <4> DEFINE v == endpoint[row[1]].cooling \/ error = "endpoint"
      <4>1. endpoint' = [endpoint EXCEPT ![row[1]].cooling = v] BY <3>1 DEF Penalized
      <4> HIDE DEF v
      <4> QED BY <4>1, EndpointCooled
    <3>2. CASE UNCHANGED endpoint BY <3>2, EndpointKept
    <3>3. CASE StreamBreaks(r) BY <3>1, <3>3 DEF StreamBreaks
    <3>4. CASE Finishes(r) \/ TryRole(r)
      BY <3>2, <3>4 DEF Finishes, TryRole, RecordSuccess, NothingRecorded
    <3>5. CASE Attempt(r) BY <3>1, <3>2, <3>5 DEF Attempt, RecordSuccess
    <3>6. CASE Tests(r) BY <3>1, <3>2, <3>6 DEF Tests, RecordSuccess
    <3> QED BY <1>2, <3>3, <3>4, <3>5, <3>6 DEF Asking
  <2> QED BY <2>1, <2>2, FlagsKept DEF Grow, Quiet
<1> QED BY <1>1, <1>2 DEF Progress

\* The refresh at a post of its list.
LEMMA AtAPost ==
  ASSUME RefreshInv, NEW v, v = ingest[Refresh], v.at \in AtPost
  PROVE  LET p == v.posts[v.n]
         IN /\ v.posts \in Seq(Posts) /\ p \in Posts /\ v.n \in 1..Len(v.posts)
            /\ Post(Refresh) = p /\ KeyOf(Refresh) = offer[p].key
            /\ Mentions(Refresh) = offer[p].mentions
            /\ offer[p].key \in Keys /\ Len(offer[p].mentions) \in Nat
            /\ \A j \in 1..(v.n - 1) : Applied(v.posts[j])
<1>1. v.posts \in Seq(Posts) /\ v.n \in 1..Len(v.posts)
  BY DEF RefreshInv, Storing, AtPost
<1>2. v.posts[v.n] \in Posts BY <1>1
<1>3. offer[v.posts[v.n]].key \in Keys /\ Len(offer[v.posts[v.n]].mentions) \in Nat
  BY <1>2, PostOffered, LenProperties DEF RefreshInv
<1> QED BY <1>1, <1>2, <1>3 DEF RefreshInv, Storing, Post, KeyOf, Mentions

\* upsert_post() asks whether the key is known.
LEMMA RefreshLooks ==
  ASSUME RefreshInv, TablesInv', Grow, Finds(Refresh), NEW v, v = ingest[Refresh],
         NEW w, w = ingest'[Refresh]
  PROVE  Storing(w)' /\ IngestShaped(w)
<1> DEFINE p == v.posts[v.n]
           known == endpoint[offer[p].key].stored
           to == IF known THEN IF offer[p].mentions = <<>> THEN "cursor" ELSE "mark"
                          ELSE "insert"
<1>1. v.at = "find" /\ v.at \in AtPost BY DEF Finds, Looks, AtPost
<1>2. w = [v EXCEPT !.at = to, !.i = 1, !.new = ~known]
  BY <1>1, AtAPost DEF Finds, Looks, RefreshInv, TablesInv, ToMark, Workers
<1>3. /\ IngestShaped(w) /\ w.at = to /\ w.i = 1 /\ w.posts = v.posts /\ w.n = v.n
  <2> HIDE DEF to, known
  <2>1. IngestShaped(v) BY DEF RefreshInv
  <2> QED BY <1>2, <2>1 DEF IngestShaped
<1>4. Storing(v)' BY StoringGrows DEF RefreshInv
<1>5. p \in Posts /\ offer' = offer /\ Len(offer[p].mentions) \in Nat
  BY <1>1, AtAPost DEF Grow
<1>6. Marked(p, 0)' BY DEF Marked
<1>7. known => endpoint'[offer[p].key].stored
  BY <1>1, AtAPost DEF Grow, EndpointsGrow
<1>8. w.at = "mark" => 1 \in 1..Len(offer[p].mentions)
  <2>1. offer[p].mentions \in Seq([model : Models, flag : Flags])
    BY <1>5, PostOffered DEF RefreshInv
  <2>2. w.at = "mark" => offer[p].mentions # <<>> BY <1>3
  <2>3. offer[p].mentions # <<>> => Len(offer[p].mentions) # 0 BY <2>1, EmptySeq
  <2> QED BY <1>5, <2>2, <2>3
<1>9. w.at = "cursor" => Applied(p)'
  <2>1. ASSUME w.at = "cursor" PROVE Applied(p)
    <3>1. known /\ offer[p].mentions = <<>> BY <1>3, <2>1
    <3>2. ToSet(offer[p].mentions) = {} BY <3>1 DEF ToSet
    <3> QED BY <3>1, <3>2 DEF Applied
  <2> QED BY <1>5, <2>1, AppliedGrows DEF RefreshInv
<1>10. w.at \in {"cursor", "mark", "insert"} /\ (w.at = "mark" => known) BY <1>3
<1> HIDE DEF to, known
<1>11. w.at \in AtPost BY <1>10 DEF AtPost
<1> QED BY <1>1, <1>3, <1>4, <1>5, <1>6, <1>7, <1>8, <1>9, <1>10, <1>11 DEF Storing

\* upsert_post() inserts it, unless somebody else has: then the refresh has failed.
LEMMA RefreshInserts ==
  ASSUME RefreshInv, TablesInv', Grow, Inserts(Refresh), NEW v, v = ingest[Refresh],
         NEW w, w = ingest'[Refresh]
  PROVE  Storing(w)' /\ IngestShaped(w)
<1> DEFINE p == v.posts[v.n]
           to == IF offer[p].mentions = <<>> THEN "cursor" ELSE "mark"
<1>1. v.at = "insert" /\ v.at \in AtPost BY DEF Inserts, AtPost
<1>2. CASE w = Resting
  BY <1>2 DEF Resting, IngestShaped, Storing, AtPost
<1>3. CASE w # Resting
  <2>1. w = [v EXCEPT !.at = to]
    /\ endpoint' = [endpoint EXCEPT ![offer[p].key].stored = TRUE]
    BY <1>1, <1>3, AtAPost DEF Inserts, Fails, Goes, RefreshInv, TablesInv, ToMark, Workers
  <2>2. IngestShaped(w) /\ w.at = to /\ w.i = v.i /\ w.posts = v.posts /\ w.n = v.n
    <3> HIDE DEF to
    <3>1. IngestShaped(v) BY DEF RefreshInv
    <3> QED BY <2>1, <3>1 DEF IngestShaped
  <2>3. w.i = 1 BY <1>1, <2>2 DEF RefreshInv, Storing
  <2>4. Storing(v)' BY StoringGrows DEF RefreshInv
  <2>5. p \in Posts /\ offer' = offer /\ Len(offer[p].mentions) \in Nat
    BY <1>1, AtAPost DEF Grow
  <2>6. Marked(p, 0)' BY DEF Marked
  <2>7. endpoint'[offer[p].key].stored
    BY <1>1, <2>1, AtAPost, EndpointStored DEF RefreshInv
  <2>8. w.at = "mark" => 1 \in 1..Len(offer[p].mentions)
    <3>1. offer[p].mentions \in Seq([model : Models, flag : Flags])
      BY <2>5, PostOffered DEF RefreshInv
    <3>2. w.at = "mark" => offer[p].mentions # <<>> BY <2>2
    <3>3. offer[p].mentions # <<>> => Len(offer[p].mentions) # 0 BY <3>1, EmptySeq
    <3> QED BY <2>5, <3>2, <3>3
  <2>9. w.at = "cursor" => Applied(p)'
    <3>1. ASSUME w.at = "cursor" PROVE Applied(p)'
      <4>1. offer[p].mentions = <<>> BY <2>2, <3>1
      <4>2. ToSet(offer[p].mentions) = {} BY <4>1 DEF ToSet
      <4> QED BY <2>5, <2>7, <4>2 DEF Applied
    <3> QED BY <3>1
  <2>10. w.at \in {"cursor", "mark"} BY <2>2
  <2> HIDE DEF to
  <2>11. w.at \in AtPost BY <2>10 DEF AtPost
  <2> QED BY <1>1, <2>2, <2>3, <2>4, <2>5, <2>6, <2>7, <2>8, <2>9, <2>10, <2>11 DEF Storing
<1> QED BY <1>2, <1>3

\* _mark_models() writes one mention.
LEMMA RefreshMarks ==
  ASSUME RefreshInv, TablesInv', Grow, Marks(Refresh), NEW v, v = ingest[Refresh],
         NEW w, w = ingest'[Refresh]
  PROVE  Storing(w)' /\ IngestShaped(w)
<1> DEFINE p == v.posts[v.n]
           row == <<offer[p].key, offer[p].mentions[v.i].model>>
           flag == offer[p].mentions[v.i].flag
           to == IF v.i = Len(offer[p].mentions) THEN "cursor" ELSE "mark"
<1>1. v.at = "mark" /\ v.at \in AtPost BY DEF Marks, AtPost
<1>2. w = [v EXCEPT !.i = v.i + 1, !.at = to]
  /\ flags' = [flags EXCEPT ![row] = @ \cup {flag}]
  BY <1>1, AtAPost DEF Marks, RefreshInv, TablesInv, Workers
<1>3. IngestShaped(w) /\ w.at = to /\ w.i = v.i + 1 /\ w.posts = v.posts /\ w.n = v.n
  <2> HIDE DEF to
  <2>1. IngestShaped(v) BY DEF RefreshInv
  <2> QED BY <1>2, <2>1 DEF IngestShaped
<1>4. Storing(v)' BY StoringGrows DEF RefreshInv
<1>5. p \in Posts /\ offer' = offer /\ Len(offer[p].mentions) \in Nat
  BY <1>1, AtAPost DEF Grow
<1>6. /\ endpoint'[offer[p].key].stored /\ v.i \in 1..Len(offer[p].mentions)
      /\ Marked(p, v.i - 1)'
  BY <1>1, <1>4, <1>5 DEF Storing
<1>7. Marked(p, v.i)'
  <2>1. row \in Rows BY <1>5, <1>6, PostOffered DEF RefreshInv
  <2>2. flag \in flags'[row] BY <1>2, <2>1, FlagAdded DEF RefreshInv
  <2>3. ASSUME NEW j \in 1..v.i
        PROVE  offer'[p].mentions[j].flag
                 \in flags'[<<offer'[p].key, offer'[p].mentions[j].model>>]
    <3>1. j = v.i \/ j \in 1..(v.i - 1) BY <1>5, <1>6
    <3> QED BY <1>5, <1>6, <2>2, <3>1 DEF Marked
  <2> QED BY <2>3 DEF Marked
<1>8. w.at = "cursor" => Applied(p)'
  <2>1. ASSUME w.at = "cursor" PROVE Applied(p)'
    <3>1. v.i = Len(offer[p].mentions) BY <1>3, <2>1
    <3>2. ToSet(offer[p].mentions) = {offer[p].mentions[j] : j \in 1..Len(offer[p].mentions)}
      BY <1>5, PostOffered DEF ToSet, RefreshInv
    <3> QED BY <1>5, <1>6, <1>7, <3>1, <3>2 DEF Applied, Marked
  <2> QED BY <2>1
<1>9. w.at = "mark" => w.i \in 1..Len(offer[p].mentions) /\ w.i - 1 = v.i
  BY <1>3, <1>5, <1>6
<1>10. w.at \in {"cursor", "mark"} BY <1>3
<1> HIDE DEF to
<1>11. w.at \in AtPost BY <1>10 DEF AtPost
<1> HIDE DEF row, flag
<1> QED BY <1>1, <1>3, <1>4, <1>5, <1>6, <1>7, <1>8, <1>9, <1>10, <1>11 DEF Storing

\* The post is done: the refresh goes to the next one, or reports.
LEMMA RefreshStores ==
  ASSUME RefreshInv, TablesInv', Grow, Stored(Refresh), NEW v, v = ingest[Refresh],
         v.at \in {"cursor", "advance"}, NEW w, w = ingest'[Refresh]
  PROVE  Storing(w)' /\ IngestShaped(w)
<1> DEFINE p == v.posts[v.n]
<1>1. v.at \in AtPost BY DEF AtPost
<1>2. \/ v.n < Len(v.posts) /\ w = [v EXCEPT !.at = "find", !.n = v.n + 1]
      \/ ~(v.n < Len(v.posts)) /\ w = [v EXCEPT !.at = "sweep"]
  BY DEF Stored, RefreshInv, TablesInv, Workers
<1>3. /\ IngestShaped(w) /\ w.posts = v.posts
      /\ \/ v.n < Len(v.posts) /\ w.at = "find" /\ w.n = v.n + 1
         \/ ~(v.n < Len(v.posts)) /\ w.at = "sweep"
  <2>1. IngestShaped(v) BY DEF RefreshInv
  <2> QED BY <1>2, <2>1 DEF IngestShaped
<1>4. Storing(v)' BY StoringGrows DEF RefreshInv
<1>5. v.n \in 1..Len(v.posts) /\ Len(v.posts) \in Nat BY <1>1, AtAPost, LenProperties
<1>6. ASSUME NEW j \in 1..v.n PROVE Applied(v.posts[j])'
  <2>1. j = v.n \/ j \in 1..(v.n - 1) BY <1>5
  <2> QED BY <1>1, <1>4, <2>1 DEF Storing
<1>7. CASE v.n < Len(v.posts)
  <2>1. w.at = "find" /\ w.n = v.n + 1 /\ w.n \in 1..Len(v.posts) /\ w.n - 1 = v.n
    BY <1>3, <1>5, <1>7
  <2> QED BY <1>1, <1>3, <1>4, <1>6, <2>1 DEF Storing, AtPost
<1>8. CASE ~(v.n < Len(v.posts))
  <2>1. w.at = "sweep" /\ v.n = Len(v.posts) BY <1>3, <1>5, <1>8
  <2> QED BY <1>1, <1>3, <1>4, <1>6, <2>1 DEF Storing, AtPost
<1> QED BY <1>7, <1>8

\* advance_cursor() of the refresh.
LEMMA RefreshAdvances ==
  ASSUME RefreshInv, TablesInv', Grow, ReadsCursor(Refresh) \/ AdvancesCursor(Refresh),
         NEW v, v = ingest[Refresh], NEW w, w = ingest'[Refresh]
  PROVE  Storing(w)' /\ IngestShaped(w)
<1>1. v.at \in {"cursor", "advance"} BY DEF ReadsCursor, AdvancesCursor
<1>2. CASE Stored(Refresh) BY <1>1, <1>2, RefreshStores
<1>3. CASE ReadsCursor(Refresh) /\ Goes(Refresh, "advance")
  <2>1. v.at = "cursor" /\ w = [v EXCEPT !.at = "advance"]
    BY <1>3 DEF ReadsCursor, Goes, RefreshInv, TablesInv, Workers
  <2>2. IngestShaped(w) /\ w.posts = v.posts /\ w.at = "advance" /\ w.n = v.n
    <3>1. IngestShaped(v) BY DEF RefreshInv
    <3> QED BY <2>1, <3>1 DEF IngestShaped
  <2>3. Storing(v)' BY StoringGrows DEF RefreshInv
  <2> QED BY <2>1, <2>2, <2>3 DEF Storing, AtPost
<1> QED BY <1>2, <1>3 DEF ReadsCursor, AdvancesCursor

\* _refresh() reads the latest posts.
LEMMA RefreshBegins ==
  ASSUME RefreshInv, RefreshReads, NEW w, w = ingest'[Refresh], ingest' # ingest
  PROVE  Storing(w)' /\ IngestShaped(w)
<1>1. \/ Latest = <<>> /\ w = [Resting EXCEPT !.at = "sweep"]
      \/ Latest # <<>> /\ w = Reads(Latest)
  BY DEF RefreshReads, RefreshInv, TablesInv, Workers
<1>2. Latest \in Seq(Posts)
  <2> DEFINE all == [q \in 1..published |-> q]
  <2>1. published \in 0..MaxPosts /\ MaxPosts \in Nat /\ ScanLimit \in Nat \ {0}
    BY ApiCatalogAssumption DEF RefreshInv, TablesInv
  <2>2. all \in Seq(Posts) /\ Len(all) = published
    <3>1. \A q \in 1..published : q \in Posts BY <2>1 DEF Posts
    <3> QED BY <2>1, <3>1
  <2>3. published > ScanLimit
    => SubSeq(all, published - ScanLimit + 1, published) \in Seq(Posts)
    BY <2>1, <2>2, SubSeqProperties
  <2> QED BY <2>1, <2>2, <2>3 DEF Latest
<1>3. CASE Latest = <<>> /\ w = [Resting EXCEPT !.at = "sweep"]
  <2>1. IngestShaped(w) /\ w.at = "sweep" /\ w.posts = <<>> BY <1>3 DEF Resting, IngestShaped
  <2>2. w.posts \in Seq(Posts) /\ Len(w.posts) = 0 BY <2>1
  <2> QED BY <2>1, <2>2 DEF Storing, AtPost
<1>4. CASE Latest # <<>> /\ w = Reads(Latest)
  <2>1. IngestShaped(w) /\ w.at = "find" /\ w.posts = Latest /\ w.n = 1
    BY <1>4 DEF Resting, Reads, IngestShaped
  <2>2. w.n \in 1..Len(w.posts) /\ w.n - 1 = 0 BY <1>2, <1>4, <2>1, EmptySeq, LenProperties
  <2> QED BY <1>2, <2>1, <2>2 DEF Storing, AtPost
<1> QED BY <1>1, <1>3, <1>4

\* A step of somebody else.
LEMMA RefreshRests ==
  ASSUME RefreshInv, TablesInv', Grow, ingest'[Refresh] = ingest[Refresh]
  PROVE  RefreshInv'
<1>1. ASSUME NEW w, w = ingest'[Refresh] PROVE Storing(ingest[Refresh])'
  <2>1. Storing(w) BY <1>1 DEF RefreshInv
  <2>2. Storing(w)' BY <2>1, StoringGrows DEF RefreshInv
  <2> QED BY <1>1, <2>2, StoringThere
<1> QED BY <1>1 DEF RefreshInv

\* A step of the refresh.
LEMMA RefreshTakes ==
  ASSUME RefreshInv, TablesInv',
         \A w : w = ingest'[Refresh] => Storing(w)' /\ IngestShaped(w)
  PROVE  RefreshInv'
<1>1. ASSUME NEW w, w = ingest'[Refresh] PROVE Storing(ingest[Refresh])' /\ IngestShaped(w)
  BY <1>1, StoringThere
<1>2. Storing(ingest[Refresh])' /\ IngestShaped(ingest'[Refresh]) BY <1>1
<1> QED BY <1>2 DEF RefreshInv

\* A step of whoever writes posts.
LEMMA RefreshIngests ==
  ASSUME RefreshInv, NEW x \in Workers, Ingesting(x) PROVE RefreshInv'
<1>1. WritesOnly(x) /\ Grow /\ Quiet BY IngestingMoves DEF RefreshInv
<1>2. TablesInv'
  BY <1>1 DEF RefreshInv, TablesInv, WritesOnly, Grow, EndpointsGrow, FlagsGrow, Quiet
<1>3. CASE x # Refresh BY <1>1, <1>2, <1>3, RefreshRests DEF WritesOnly, Workers
<1>4. CASE x = Refresh
  <2>1. CASE Finds(Refresh) BY <1>1, <1>2, <2>1, RefreshLooks, RefreshTakes
  <2>2. CASE Inserts(Refresh) BY <1>1, <1>2, <2>2, RefreshInserts, RefreshTakes
  <2>3. CASE Marks(Refresh) BY <1>1, <1>2, <2>3, RefreshMarks, RefreshTakes
  <2>4. CASE ReadsCursor(Refresh) \/ AdvancesCursor(Refresh)
    BY <1>1, <1>2, <2>4, RefreshAdvances, RefreshTakes
  <2> QED BY <1>4, <2>1, <2>2, <2>3, <2>4 DEF Ingesting
<1> QED BY <1>3, <1>4

\* Nothing of the tables changes, and the refresh at most begins or ends.
LEMMA RefreshAlone ==
  ASSUME RefreshInv, UNCHANGED <<offer, endpoint, flags>>, published' \in 0..MaxPosts,
         ingest' = [w \in Workers |-> ingest'[w]],
         \/ ingest'[Refresh] = ingest[Refresh]
         \/ ingest'[Refresh] = Resting
         \/ RefreshReads
  PROVE  RefreshInv'
<1>1. Grow BY EndpointKept, FlagsKept DEF Grow, RefreshInv
<1>2. TablesInv' BY <1>1 DEF RefreshInv, TablesInv
<1>3. CASE ingest'[Refresh] = ingest[Refresh] BY <1>1, <1>2, <1>3, RefreshRests
<1>4. CASE ingest'[Refresh] = Resting
  <2>1. ASSUME NEW w, w = ingest'[Refresh] PROVE Storing(w)' /\ IngestShaped(w)
    BY <1>4, <2>1 DEF Resting, IngestShaped, Storing, AtPost
  <2> QED BY <1>2, <2>1, RefreshTakes
<1>5. CASE RefreshReads /\ ingest'[Refresh] # ingest[Refresh]
  <2>1. ASSUME NEW w, w = ingest'[Refresh] PROVE Storing(w)' /\ IngestShaped(w)
    BY <1>5, <2>1, RefreshBegins
  <2> QED BY <1>2, <2>1, RefreshTakes
<1> QED BY <1>3, <1>4, <1>5

\* Every step of the plugin keeps it.
LEMMA RefreshStep == RefreshInv /\ [Next]_apiVars => RefreshInv'
<1> SUFFICES ASSUME RefreshInv, [Next]_apiVars PROVE RefreshInv' OBVIOUS
<1>0. Refresh \in Workers /\ Refresh # Boot /\ Refresh \notin Posts
  BY ApiCatalogAssumption DEF Refresh, Workers, Boot, Posts
<1> USE DEF RefreshInv, TablesInv
<1>1. CASE UNCHANGED apiVars
  BY <1>1, RefreshAlone DEF apiVars, catalog
<1>2. CASE \E r \in Requests : Progress(r)
  <2>1. UNCHANGED ingest /\ Grow /\ Quiet BY <1>2, ProgressMoves
  <2>2. TablesInv' BY <2>1 DEF Grow, EndpointsGrow, FlagsGrow, Quiet
  <2> QED BY <2>1, <2>2, RefreshRests
<1>3. CASE UNCHANGED catalog
  BY <1>3, RefreshAlone DEF catalog
<1>4. CASE CatalogNext
  <2>1. CASE Publish
    <3>1. published' \in 0..MaxPosts BY <2>1, ApiCatalogAssumption DEF Publish
    <3> QED BY <2>1, <3>1, RefreshAlone DEF Publish, database
  <2>2. CASE \E p \in Posts : OnChannelPost(p) \/ Lost(p)
    BY <1>0, <2>2, RefreshAlone DEF OnChannelPost, Lost, database
  <2>3. CASE \E w \in Workers : Ingesting(w) BY <2>3, RefreshIngests
  <2>4. CASE Booting
    BY <1>0, <2>4, RefreshAlone
    DEF Booting, Setup, Resolve, Listen, Scan, Sweep, Moves, database
  <2>5. CASE RefreshReads BY <2>5, RefreshAlone DEF RefreshReads, database
  <2>6. CASE RefreshSweeps BY <1>0, <2>6, RefreshAlone DEF RefreshSweeps, others
  <2>7. CASE \E s \in Slots : Validating(s)
    <3>1. UNCHANGED ingest /\ Grow /\ Quiet BY <2>7, ValidatingMoves
    <3>2. TablesInv' BY <3>1 DEF Grow, EndpointsGrow, FlagsGrow, Quiet
    <3> QED BY <3>1, <3>2, RefreshRests
  <2>8. CASE Restart BY <1>0, <2>8, RefreshAlone DEF Restart, database
  <2> QED BY <1>4, <2>1, <2>2, <2>3, <2>4, <2>5, <2>6, <2>7, <2>8 DEF CatalogNext
<1> QED BY <1>1, <1>2, <1>3, <1>4 DEF Next

\* Nobody has read a post yet.
LEMMA RefreshStart == Init => RefreshInv
<1> SUFFICES ASSUME Init PROVE RefreshInv OBVIOUS
<1>0. Refresh \in Workers BY DEF Workers
<1>1. /\ offer \in Offers /\ published \in 0..MaxPosts
      /\ flags = [row \in Rows |-> flags[row]] /\ ingest = [w \in Workers |-> ingest[w]]
  BY ApiCatalogAssumption DEF Init, CatalogInit
<1>2. endpoint = [k \in Keys |-> endpoint[k]] /\ \A k \in Keys : EndpointShaped(endpoint[k])
  BY DEF Init, CatalogInit, Unknown, EndpointShaped
<1>3. IngestShaped(ingest[Refresh]) /\ Storing(ingest[Refresh])
  <2>1. ingest[Refresh] = Resting BY <1>0 DEF Init, CatalogInit
  <2> QED BY <2>1 DEF Resting, IngestShaped, Storing, AtPost
<1> QED BY <1>1, <1>2, <1>3 DEF RefreshInv, TablesInv

\* RefreshApplies: when a refresh reports, every post that it read is in the catalogue, whatever
\* the live handler, the first scan, the validations and the commands wrote meanwhile.
THEOREM RefreshesApply == Spec => []RefreshApplies
<1>1. RefreshInv => RefreshApplies
  <2> SUFFICES ASSUME RefreshInv, ingest[Refresh].at = "sweep",
    NEW p \in ToSet(ingest[Refresh].posts)
               PROVE  Applied(p)
    BY DEF RefreshApplies
  <2> DEFINE posts == ingest[Refresh].posts
  <2>1. posts \in Seq(Posts) /\ \A j \in 1..Len(posts) : Applied(posts[j])
    BY DEF RefreshInv, Storing
  <2>2. PICK j \in 1..Len(posts) : p = posts[j] BY <2>1 DEF ToSet
  <2> QED BY <2>1, <2>2
<1> QED BY <1>1, RefreshStart, RefreshStep, PTL DEF Spec

----------------------------------------------------------------------------
(* The commands. *)

\* The record of a command keeps its fields.
CommandFields ==
  {"at", "kind", "plan", "cands", "tried", "stream", "content", "thought", "answered",
      "again",
   "got", "then", "cut"}
CommandShaped(q) == q = [f \in CommandFields |-> q[f]]

\* Where a command may have streamed something, and where a message may lead.
MayStream == {"stream", "finish", "keep", "forget", "say", "delete", "error", "done",
    "unlink"}
Thens == {"done", "forget", "keep", "delete", "unlink"}

\* A command's content is of one stream, of the one it reads while it reads one.
CommandOK(q) ==
  /\ CommandShaped(q)
  /\ q.at = "say" => q.then \in Thens
  /\ q.cut = "no" \/ (q.cut = "inside" /\ q.at \in {"delete", "forget"}) \/ q.at = "done"
  /\ q.at \notin MayStream => q.content = {}
  /\ q.at = "stream" => q.content \subseteq {q.stream}
  /\ \E s : q.content \subseteq {s}
CommandsInv == req = [r \in Requests |-> req[r]] /\ \A r \in Requests : CommandOK(req[r])

\* The question of the command stands in the conversation, and the command will answer it or
\* take it out again.
Pending(q) ==
  \/ q.at = "show" /\ q.stream > 0
  \/ q.at \in {"stream", "finish", "keep", "forget"}
  \/ q.at = "say" /\ q.then \in {"keep", "forget"}
  \/ q.at = "delete" /\ q.cut = "inside"

\* A step of a command that is at work.
Steps(r) ==
  /\ req' = [req EXCEPT ![r] = req'[r]] /\ CommandOK(req'[r])
  /\ req[r].at \notin {"none", "done"} /\ req'[r].at # "none"
\* What it leaves of a question that stands: the command is still pending, or it was cancelled
\* outside the try of _chat().
KeepsWord(r) ==
  ("telegram" \notin world /\ Pending(req[r])) => Pending(req'[r]) \/ req'[r].cut = "outside"

\* A command is what its step makes of it.
LEMMA Becoming ==
  ASSUME CommandsInv, NEW r \in Requests, NEW q, Is(r, q), CommandShaped(q), q.at # "none",
         q.at # "done" => CommandOK(q), req[r].at \notin {"none", "done"}
  PROVE  /\ Steps(r) /\ req'[r].at = q.at /\ req'[r].cut = q.cut
         /\ q.at # "done" => req'[r] = q
<1>1. CASE q.at = "done"
  <2> DEFINE o == Over(q)
  <2>1. req' = [req EXCEPT ![r] = o] BY <1>1 DEF Is
  <2>2. CommandShaped(o) /\ o.at = "done" /\ o.content = {} /\ o.cut = q.cut
    BY DEF Over, Blank, CommandShaped, CommandFields
  <2> HIDE DEF o
  <2>3. CommandOK(o) BY <2>2 DEF CommandOK, MayStream
  <2>4. req'[r] = o BY <2>1 DEF CommandsInv
  <2> QED BY <1>1, <2>1, <2>2, <2>3, <2>4 DEF Steps
<1>2. CASE q.at # "done"
  <2>1. req' = [req EXCEPT ![r] = q] BY <1>2 DEF Is
  <2>2. req'[r] = q BY <2>1 DEF CommandsInv
  <2> QED BY <1>2, <2>1, <2>2 DEF Steps
<1> QED BY <1>1, <1>2

\* What is said with a record stays the record of a command.
LEMMA AtChanged ==
  ASSUME NEW v, CommandShaped(v), NEW at, NEW q, q = [v EXCEPT !.at = at]
  PROVE  /\ CommandShaped(q) /\ q.at = at /\ q.content = v.content /\ q.cut = v.cut
         /\ q.stream = v.stream /\ q.then = v.then
BY DEF CommandShaped, CommandFields

\* A message that is due changes where the command is and where it goes on.
LEMMA SayingIs ==
  ASSUME NEW v, CommandShaped(v), NEW then, NEW q, q = Saying(v, then)
  PROVE  /\ CommandShaped(q) /\ q.at = "say" /\ q.content = v.content /\ q.cut = v.cut
         /\ q.then = then
BY DEF CommandShaped, CommandFields, Saying

\* A step that only moves on.
LEMMA GoesOn ==
  ASSUME CommandsInv, NEW r \in Requests, NEW at, To(r, at),
         req[r].at \notin {"none", "done"}, at # "none", at \notin {"stream", "say"},
         req[r].at \in MayStream => at \in MayStream,
         req[r].cut = "no" \/ at = "done" \/ (req[r].cut = "inside" /\ at = "forget")
  PROVE  /\ Steps(r) /\ req'[r].at = at /\ req'[r].cut = req[r].cut
         /\ at # "done" => req'[r].stream = req[r].stream
<1> DEFINE q == [req[r] EXCEPT !.at = at]
<1>1. Is(r, q) BY DEF To
<1>2. CommandOK(req[r]) BY DEF CommandsInv
<1>3. /\ CommandShaped(q) /\ q.at = at /\ q.content = req[r].content /\ q.cut = req[r].cut
      /\ q.stream = req[r].stream
  BY <1>2, AtChanged DEF CommandOK
<1> HIDE DEF q
<1>4. at # "done" => CommandOK(q) BY <1>2, <1>3 DEF CommandOK, MayStream
<1> QED BY <1>1, <1>3, <1>4, Becoming

\* A step that ends in a message.
LEMMA Says ==
  ASSUME CommandsInv, NEW r \in Requests, NEW then \in Thens, Is(r, Saying(req[r], then)),
         req[r].at \notin {"none", "done"}, req[r].cut = "no"
  PROVE  /\ Steps(r) /\ req'[r].at = "say" /\ req'[r].then = then
<1> DEFINE q == Saying(req[r], then)
<1>2. CommandOK(req[r]) BY DEF CommandsInv
<1>3. /\ CommandShaped(q) /\ q.at = "say" /\ q.content = req[r].content /\ q.cut = req[r].cut
      /\ q.then = then
  BY <1>2, SayingIs DEF CommandOK
<1>1. Is(r, q) OBVIOUS
<1> HIDE DEF q
<1>4. CommandOK(q) BY <1>2, <1>3 DEF CommandOK, MayStream
<1> QED BY <1>1, <1>3, <1>4, Becoming

\* What a command that was never cut short, before any stream, goes on as.
Early(v) == CommandShaped(v) /\ v.content = {} /\ v.cut = "no"

\* Before any stream every command is in order.
LEMMA EarlyOK ==
  ASSUME NEW q, Early(q), q.at = "say" => q.then \in Thens PROVE CommandOK(q)
BY DEF Early, CommandOK

\* Such is a command that is where nothing can have been streamed.
LEMMA EarlyIs ==
  ASSUME CommandsInv, NEW r \in Requests, req[r].at \notin MayStream PROVE Early(req[r])
BY DEF CommandsInv, CommandOK, Early, MayStream

\* _try_role() and what its caller makes of the outcome.
LEMMA EarlySaying ==
  ASSUME NEW v, Early(v), NEW then PROVE Early(Saying(v, then)) /\ Saying(v, then).at = "say"
                                         /\ Saying(v, then).then = then
BY SayingIs DEF Early

\* The next role of a media command.
LEMMA EarlyRole ==
  ASSUME NEW v, Early(v), NEW at, NEW plan, NEW q,
         q = [v EXCEPT !.at = at, !.plan = plan, !.tried = 0]
  PROVE  Early(q) /\ q.at = at
BY DEF Early, CommandShaped, CommandFields

\* A media command notes that a role gave something.
LEMMA EarlyGot ==
  ASSUME NEW v, Early(v), NEW got, NEW q, q = [v EXCEPT !.got = got] PROVE Early(q)
BY DEF Early, CommandShaped, CommandFields

\* What a media command is after a role.
Told(q) == Early(q) /\ q.at \in {"role", "say", "drop", "footer"}
           /\ (q.at = "say" => q.then \in {"delete", "unlink"})

\* The helpers of the media commands lead to a role, a message, a question or the footer.
LEMMA EnoughTold == ASSUME NEW v, Told(v) PROVE Told(Enough(v))
BY EarlySaying DEF Enough, Told

\* NextRole leads to a role.
LEMMA NextRoleTold == ASSUME NEW v, Early(v) PROVE Told(NextRole(v))
<1> DEFINE plan == Tail(v.plan)
<1>1. NextRole(v) = [v EXCEPT !.at = "role", !.plan = plan, !.tried = 0] BY DEF NextRole
<1> HIDE DEF plan
<1>2. Early(NextRole(v)) /\ NextRole(v).at = "role" BY <1>1, EarlyRole
<1> QED BY <1>2 DEF Told

\* So does the last role of a video.
LEMMA ChatRoleTold ==
  ASSUME NEW v, Early(v), NEW plan
    PROVE Told([v EXCEPT !.at = "role", !.plan = plan, !.tried = 0])
<1> DEFINE q == [v EXCEPT !.at = "role", !.plan = plan, !.tried = 0]
<1>1. Early(q) /\ q.at = "role" BY DEF Early, CommandShaped, CommandFields
<1>2. q.at = "say" => q.then \in {"delete", "unlink"} BY <1>1
<1> QED BY <1>1, <1>2 DEF Told

\* A role that nobody served leads to a message or to the next role.
LEMMA RoleFailsTold == ASSUME NEW v, Early(v) PROVE Told(RoleFails(v))
<1>1. Told(Saying(v, "delete")) BY EarlySaying DEF Told
<1>2. Told(Enough(NextRole(v))) BY NextRoleTold, EnoughTold
<1>3. Told([v EXCEPT !.at = "role", !.plan = <<"chat">>, !.tried = 0]) BY ChatRoleTold
<1> QED BY <1>1, <1>2, <1>3, EnoughTold DEF RoleFails

\* A role that was served leads on.
LEMMA RoleServedTold ==
  ASSUME NEW v, Early(v), NEW some PROVE Told(RoleServed(v, some))
<1>1. Told(Saying(v, "unlink")) BY EarlySaying DEF Told
<1>2. ASSUME NEW at \in {"drop", "footer"} PROVE Told([v EXCEPT !.at = at])
  BY AtChanged DEF Early, Told
<1>3. Told(Enough(NextRole([v EXCEPT !.got = @ \/ some])))
  <2> DEFINE got == v.got \/ some
  <2>1. [v EXCEPT !.got = @ \/ some] = [v EXCEPT !.got = got] OBVIOUS
  <2> HIDE DEF got
  <2> QED BY <2>1, EarlyGot, NextRoleTold, EnoughTold
<1> QED BY <1>1, <1>2, <1>3 DEF RoleServed

\* A step of a command that has streamed nothing, to a state where it has not either.
LEMMA StaysEarly ==
  ASSUME CommandsInv, NEW r \in Requests, req[r].at \notin MayStream \cup {"none"}, NEW q,
         Is(r, q),
         Early(q), q.at # "none", q.at = "say" => q.then \in Thens
  PROVE  Steps(r) /\ req'[r].at = q.at /\ (q.at # "done" => req'[r] = q)
<1>1. CommandShaped(q) /\ CommandOK(q) BY EarlyOK DEF Early
<1> QED BY <1>1, Becoming DEF MayStream

\* A command whose question does not stand has no word to keep.
LEMMA NoWord ==
  ASSUME NEW r,
         req[r].at \notin {"show", "stream", "finish", "keep", "forget", "say", "delete"}
  PROVE  KeepsWord(r)
BY DEF KeepsWord, Pending

\* The steps of a command, one by one: messages and the placeholder.
LEMMA SaySteps ==
  ASSUME CommandsInv, NEW r \in Requests, Say(r) PROVE Steps(r) /\ KeepsWord(r)
<1>1. req[r].at = "say" /\ req[r].then \in Thens /\ req[r].cut = "no"
  BY DEF Say, CommandsInv, CommandOK
<1>2. CASE To(r, req[r].then)
  <2> DEFINE at == req[r].then
  <2>1. at \in Thens /\ at \notin {"none", "stream", "say"} /\ at \in MayStream
    BY <1>1 DEF Thens, MayStream
  <2>2. Steps(r) /\ req'[r].at = at BY <1>1, <1>2, <2>1, GoesOn
  <2> QED BY <1>1, <2>2 DEF KeepsWord, Pending
<1>3. CASE "telegram" \in world /\ To(r, "error")
  <2>1. Steps(r) BY <1>1, <1>3, GoesOn DEF MayStream
  <2> QED BY <1>3, <2>1 DEF KeepsWord
<1> QED BY <1>2, <1>3 DEF Say

\* The except of _command() ends the command.
LEMMA ErrorSteps ==
  ASSUME CommandsInv, NEW r \in Requests, Error(r) PROVE Steps(r) /\ KeepsWord(r)
BY GoesOn, NoWord DEF Error, MayStream

\* The placeholder stands: a stream, a download or a role is next.
LEMMA ShowsSteps ==
  ASSUME CommandsInv, NEW r \in Requests, Shows(r) PROVE Steps(r) /\ KeepsWord(r)
<1>1. req[r].at = "show" /\ Early(req[r]) BY EarlyIs DEF Shows, MayStream
<1>2. CASE "telegram" \in world /\ To(r, "error")
  <2>1. Steps(r) BY <1>1, <1>2, GoesOn DEF MayStream, Early
  <2> QED BY <1>2, <2>1 DEF KeepsWord
<1>3. CASE req[r].stream > 0 /\ To(r, "stream")
  <2> DEFINE q == [req[r] EXCEPT !.at = "stream"]
  <2>1. Early(q) /\ q.at = "stream" BY <1>1, AtChanged DEF Early
  <2>2. Is(r, q) BY <1>3 DEF To
  <2> HIDE DEF q
  <2>3. Steps(r) /\ req'[r].at = "stream" BY <1>1, <2>1, <2>2, StaysEarly DEF MayStream
  <2> QED BY <2>3 DEF KeepsWord, Pending
<1>4. CASE ~(req[r].stream > 0) /\ (To(r, "role") \/ To(r, "download"))
  <2>1. Steps(r) BY <1>1, <1>4, GoesOn DEF MayStream, Early
  <2> QED BY <1>1, <1>4, <2>1 DEF KeepsWord, Pending
<1> QED BY <1>2, <1>3, <1>4 DEF Shows

\* The placeholder goes; what was cut short still has its question to take out.
LEMMA DeletesSteps ==
  ASSUME CommandsInv, NEW r \in Requests, Deletes(r) PROVE Steps(r) /\ KeepsWord(r)
<1>1. req[r].at = "delete" BY DEF Deletes
<1>2. req[r].cut \in {"no", "inside"} BY <1>1 DEF CommandsInv, CommandOK
<1>3. CASE req[r].cut = "inside"
  <2>1. To(r, "forget") BY <1>3 DEF Deletes
  <2>2. Steps(r) /\ req'[r].at = "forget" BY <1>1, <1>3, <2>1, GoesOn DEF MayStream
  <2> QED BY <2>2 DEF KeepsWord, Pending
<1>4. CASE req[r].cut # "inside"
  <2>1. To(r, "done") BY <1>4 DEF Deletes
  <2>2. Steps(r) BY <1>1, <1>2, <1>4, <2>1, GoesOn DEF MayStream
  <2> QED BY <1>1, <1>4, <2>2 DEF KeepsWord, Pending
<1> QED BY <1>3, <1>4

\* _chat() before its first stream.
LEMMA ChatCandidatesSteps ==
  ASSUME CommandsInv, NEW r \in Requests, ChatCandidates(r) PROVE Steps(r) /\ KeepsWord(r)
<1>1. req[r].at = "candidates" /\ Early(req[r]) BY EarlyIs DEF ChatCandidates, MayStream
<1>2. CASE Is(r, Saying(req[r], "done"))
  BY <1>1, <1>2, Says, NoWord DEF Thens, Early
<1>3. ASSUME NEW cands, Is(r, [req[r] EXCEPT !.at = "remember", !.cands = cands])
      PROVE  Steps(r)
  <2> DEFINE q == [req[r] EXCEPT !.at = "remember", !.cands = cands]
  <2>1. Early(q) /\ q.at = "remember" BY <1>1 DEF Early, CommandShaped, CommandFields
  <2>2. Is(r, q) BY <1>3
  <2> HIDE DEF q
  <2> QED BY <1>1, <2>1, <2>2, StaysEarly DEF MayStream
<1> QED BY <1>1, <1>2, <1>3, NoWord DEF ChatCandidates

\* The question is written before anybody is asked.
LEMMA RemembersQuestionSteps ==
  ASSUME CommandsInv, NEW r \in Requests, RemembersQuestion(r)
  PROVE  Steps(r) /\ Pending(req'[r]) /\ req[r].at = "remember"
<1>1. req[r].at = "remember" /\ Early(req[r]) BY EarlyIs DEF RemembersQuestion, MayStream
<1> DEFINE q == [req[r] EXCEPT !.at = "show", !.tried = 1, !.stream = 1]
<1>2. Early(q) /\ q.at = "show" /\ q.stream = 1
  BY <1>1 DEF Early, CommandShaped, CommandFields
<1>3. Is(r, q) BY DEF RemembersQuestion
<1> HIDE DEF q
<1>4. Steps(r) /\ req'[r] = q BY <1>1, <1>2, <1>3, StaysEarly DEF MayStream
<1> QED BY <1>1, <1>2, <1>4 DEF Pending

\* A piece is of the stream that is read.
LEMMA PieceSteps ==
  ASSUME CommandsInv, NEW r \in Requests, Piece(r) PROVE Steps(r) /\ KeepsWord(r)
<1> DEFINE v == req[r]
<1>1. v.at = "stream" /\ v.content \subseteq {v.stream} /\ v.cut = "no" /\ CommandShaped(v)
  BY DEF Piece, CommandsInv, CommandOK
<1>2. PICK content, thought :
        /\ Is(r, [v EXCEPT !.content = content, !.thought = thought])
        /\ content \subseteq {v.stream}
  <2>1. CASE Is(r, [v EXCEPT !.content = @ \cup {v.stream}])
    <3>1. [v EXCEPT !.content = @ \cup {v.stream}]
            = [v EXCEPT !.content = v.content \cup {v.stream}, !.thought = v.thought]
      BY <1>1 DEF CommandShaped, CommandFields
    <3> QED BY <1>1, <2>1, <3>1
  <2>2. CASE Is(r, [v EXCEPT !.thought = TRUE])
    <3>1. [v EXCEPT !.thought = TRUE] = [v EXCEPT !.content = v.content, !.thought = TRUE]
      BY <1>1 DEF CommandShaped, CommandFields
    <3> QED BY <1>1, <2>2, <3>1
  <2> QED BY <2>1, <2>2 DEF Piece
<1> DEFINE q == [v EXCEPT !.content = content, !.thought = thought]
<1>3. /\ CommandShaped(q) /\ q.at = "stream" /\ q.content = content /\ q.cut = "no"
      /\ q.stream = v.stream
  BY <1>1 DEF CommandShaped, CommandFields
<1>4. Is(r, q) BY <1>2
<1> HIDE DEF q
<1>5. CommandOK(q) BY <1>2, <1>3 DEF CommandOK, MayStream
<1>6. Steps(r) /\ req'[r].at = "stream" BY <1>1, <1>3, <1>4, <1>5, Becoming
<1> QED BY <1>6 DEF KeepsWord, Pending

\* A stream ends without content, and the next one may be read.
LEMMA NextCandidateOK ==
  ASSUME NEW v, CommandOK(v), v.at = "stream", v.content = {}
  PROVE  /\ CommandOK(NextCandidate(v)) /\ NextCandidate(v).at \in {"stream", "finish"}
<1>1. CommandShaped(v) /\ v.cut = "no" BY DEF CommandOK
<1>2. CASE NextCandidate(v) = [v EXCEPT !.at = "finish"]
  <2> DEFINE q == [v EXCEPT !.at = "finish"]
  <2>1. CommandShaped(q) /\ q.at = "finish" /\ q.content = v.content /\ q.cut = v.cut
    BY <1>1, AtChanged
  <2>2. NextCandidate(v) = q BY <1>2
  <2> HIDE DEF q
  <2> QED BY <1>1, <2>1, <2>2 DEF CommandOK, MayStream
<1>3. CASE NextCandidate(v)
             = [v EXCEPT !.tried = @ + 1, !.stream = @ + 1, !.again = FALSE]
  <2> DEFINE q == [v EXCEPT !.tried = @ + 1, !.stream = @ + 1, !.again = FALSE]
  <2>1. CommandShaped(q) /\ q.at = v.at /\ q.content = v.content /\ q.cut = v.cut
    BY <1>1 DEF CommandShaped, CommandFields
  <2>2. NextCandidate(v) = q BY <1>3
  <2> HIDE DEF q
  <2> QED BY <1>1, <2>1, <2>2 DEF CommandOK, MayStream
<1> QED BY <1>2, <1>3 DEF NextCandidate

\* A stream breaks: content ends the loop, without any another stream begins.
LEMMA AfterErrorOK ==
  ASSUME NEW v, CommandOK(v), v.at = "stream", NEW soon
  PROVE  /\ CommandOK(AfterError(v, soon)) /\ AfterError(v, soon).at \in {"stream", "finish"}
<1>1. CommandShaped(v) /\ v.cut = "no" BY DEF CommandOK
<1>2. CASE v.content # {}
  <2> DEFINE q == [v EXCEPT !.at = "finish"]
  <2>1. CommandShaped(q) /\ q.at = "finish" /\ q.content = v.content /\ q.cut = v.cut
    BY <1>1, AtChanged
  <2>2. AfterError(v, soon) = q BY <1>2 DEF AfterError
  <2> HIDE DEF q
  <2> QED BY <1>1, <2>1, <2>2 DEF CommandOK, MayStream
<1>3. CASE v.content = {} /\ soon /\ ~v.again
  <2> DEFINE q == [v EXCEPT !.stream = @ + 1, !.again = TRUE]
  <2>1. CommandShaped(q) /\ q.at = v.at /\ q.content = v.content /\ q.cut = v.cut
    BY <1>1 DEF CommandShaped, CommandFields
  <2>2. AfterError(v, soon) = q BY <1>3 DEF AfterError
  <2> HIDE DEF q
  <2> QED BY <1>1, <1>3, <2>1, <2>2 DEF CommandOK, MayStream
<1>4. CASE v.content = {} /\ ~(soon /\ ~v.again)
  BY <1>4, NextCandidateOK DEF AfterError
<1> QED BY <1>2, <1>3, <1>4

\* What a stream leads to.
LEMMA Streams ==
  ASSUME CommandsInv, NEW r \in Requests, req[r].at = "stream", NEW q, Is(r, q), CommandOK(q),
         q.at \in {"stream", "finish"}
  PROVE  Steps(r) /\ KeepsWord(r)
<1>1. Steps(r) /\ req'[r].at = q.at BY Becoming DEF CommandOK
<1> QED BY <1>1 DEF KeepsWord, Pending

\* A stream ends, or breaks off.
LEMMA StreamEndsSteps ==
  ASSUME CommandsInv, NEW r \in Requests, StreamEnds(r) PROVE Steps(r) /\ KeepsWord(r)
<1> DEFINE v == req[r]
<1>1. v.at = "stream" /\ CommandOK(v) BY DEF StreamEnds, CommandsInv
<1>2. CASE Is(r, [v EXCEPT !.answered = v.tried, !.at = "finish"])
  <2> DEFINE q == [v EXCEPT !.answered = v.tried, !.at = "finish"]
  <2>1. CommandShaped(q) /\ q.at = "finish" /\ q.content = v.content /\ q.cut = v.cut
    BY <1>1 DEF CommandOK, CommandShaped, CommandFields
  <2>2. Is(r, q) BY <1>2
  <2> HIDE DEF q
  <2>3. CommandOK(q) BY <1>1, <2>1 DEF CommandOK, MayStream
  <2> QED BY <1>1, <2>1, <2>2, <2>3, Streams
<1>3. CASE v.content = {} /\ Is(r, NextCandidate(v))
  BY <1>1, <1>3, NextCandidateOK, Streams
<1> QED BY <1>2, <1>3 DEF StreamEnds

\* An ApiError in the middle of a stream.
LEMMA StreamBreaksSteps ==
  ASSUME CommandsInv, NEW r \in Requests, StreamBreaks(r) PROVE Steps(r) /\ KeepsWord(r)
<1>1. req[r].at = "stream" /\ CommandOK(req[r]) BY DEF StreamBreaks, CommandsInv
<1>2. PICK soon : Is(r, AfterError(req[r], soon)) BY DEF StreamBreaks
<1> QED BY <1>1, <1>2, AfterErrorOK, Streams

\* _chat() after the last stream: an answer is kept, without one the question is forgotten.
LEMMA FinishesSteps ==
  ASSUME CommandsInv, NEW r \in Requests, Finishes(r) PROVE Steps(r) /\ KeepsWord(r)
<1>1. req[r].at = "finish" /\ req[r].cut = "no" BY DEF Finishes, CommandsInv, CommandOK
<1>2. PICK then \in {"forget", "keep"} : Is(r, Saying(req[r], then)) BY DEF Finishes
<1>3. Steps(r) /\ req'[r].at = "say" /\ req'[r].then = then BY <1>1, <1>2, Says DEF Thens
<1> QED BY <1>2, <1>3 DEF KeepsWord, Pending

\* The answer is written.
LEMMA RemembersAnswerSteps ==
  ASSUME CommandsInv, NEW r \in Requests, RemembersAnswer(r)
  PROVE  Steps(r) /\ req[r].at = "keep"
<1>1. req[r].at = "keep" /\ req[r].cut = "no" BY DEF RemembersAnswer, CommandsInv, CommandOK
<1>2. CASE Is(r, Saying(req[r], "delete")) BY <1>1, <1>2, Says DEF Thens
<1>3. CASE To(r, "delete") BY <1>1, <1>3, GoesOn DEF MayStream
<1> QED BY <1>1, <1>2, <1>3 DEF RemembersAnswer, To

\* _forget() is the last thing that is done about a question.
LEMMA ForgetsSteps ==
  ASSUME CommandsInv, NEW r \in Requests, Forgets(r)
  PROVE  Steps(r) /\ req[r].at = "forget"
<1>1. req[r].at = "forget" BY DEF Forgets, ForgetsNewest
<1>2. req[r].cut \in {"no", "inside"} BY <1>1 DEF CommandsInv, CommandOK
<1> QED BY <1>1, <1>2, GoesOn DEF Forgets, MayStream

\* /ub api reset, use, models and keys.
LEMMA ReportSteps ==
  ASSUME CommandsInv, NEW r \in Requests, Resets(r) \/ Reports(r) \/ Uses(r)
  PROVE  Steps(r) /\ KeepsWord(r)
<1>1. req[r].at \in {"reset", "list", "use"} /\ Is(r, Saying(req[r], "done"))
  BY DEF Resets, Reports, Uses
<1>2. Early(req[r]) BY <1>1, EarlyIs DEF MayStream
<1> QED BY <1>1, <1>2, Says, NoWord DEF Thens, Early

\* The steps of a media command.
LEMMA DownloadsSteps ==
  ASSUME CommandsInv, NEW r \in Requests, Downloads(r) PROVE Steps(r) /\ KeepsWord(r)
<1>1. req[r].at = "download" /\ Early(req[r]) BY EarlyIs DEF Downloads, MayStream
<1>2. CASE Is(r, Saying(req[r], "delete")) BY <1>1, <1>2, Says, NoWord DEF Thens, Early
<1>3. CASE To(r, "extract") \/ To(r, "role")
  BY <1>1, <1>3, GoesOn, NoWord DEF MayStream, Early
<1> QED BY <1>1, <1>2, <1>3, NoWord DEF Downloads

\* ffmpeg ends.
LEMMA ExtractsSteps ==
  ASSUME CommandsInv, NEW r \in Requests, Extracts(r) PROVE Steps(r) /\ KeepsWord(r)
<1>1. req[r].at = "extract" /\ Early(req[r]) BY EarlyIs DEF Extracts, MayStream
<1>2. PICK plan : Is(r, [req[r] EXCEPT !.at = "role", !.plan = plan]) BY DEF Extracts
<1> DEFINE q == [req[r] EXCEPT !.at = "role", !.plan = plan]
<1>3. Early(q) /\ q.at = "role" BY <1>1 DEF Early, CommandShaped, CommandFields
<1>4. Is(r, q) BY <1>2
<1> HIDE DEF q
<1> QED BY <1>1, <1>3, <1>4, StaysEarly, NoWord DEF MayStream

\* A media command after a role.
LEMMA TellsSteps ==
  ASSUME CommandsInv, NEW r \in Requests, Early(req[r]), req[r].at \in {"role", "attempt"},
         NEW q,
         Told(q), Is(r, q)
  PROVE  Steps(r)
<1>1. Early(q) /\ q.at # "none" /\ (q.at = "say" => q.then \in Thens) BY DEF Told, Thens
<1> QED BY <1>1, StaysEarly DEF MayStream

\* The candidates of a role are looked up.
LEMMA TryRoleSteps ==
  ASSUME CommandsInv, NEW r \in Requests, TryRole(r) PROVE Steps(r) /\ KeepsWord(r)
<1>1. req[r].at = "role" /\ Early(req[r]) BY EarlyIs DEF TryRole, MayStream
<1>2. CASE Is(r, RoleFails(req[r])) BY <1>1, <1>2, RoleFailsTold, TellsSteps, NoWord
<1>3. ASSUME NEW cands, Is(r, [req[r] EXCEPT !.at = "attempt", !.cands = cands, !.tried = 1])
      PROVE  Steps(r)
  <2> DEFINE q == [req[r] EXCEPT !.at = "attempt", !.cands = cands, !.tried = 1]
  <2>1. Early(q) /\ q.at = "attempt" BY <1>1 DEF Early, CommandShaped, CommandFields
  <2>2. Is(r, q) BY <1>3
  <2> HIDE DEF q
  <2> QED BY <1>1, <2>1, <2>2, StaysEarly DEF MayStream
<1> QED BY <1>1, <1>2, <1>3, NoWord DEF TryRole

\* Another candidate is tried.
LEMMA TriedIs ==
  ASSUME NEW v, Early(v), NEW q, q = [v EXCEPT !.tried = @ + 1] PROVE Early(q) /\ q.at = v.at
BY DEF Early, CommandShaped, CommandFields

\* A candidate answers or fails.
LEMMA AttemptSteps ==
  ASSUME CommandsInv, NEW r \in Requests, Attempt(r) PROVE Steps(r) /\ KeepsWord(r)
<1>1. req[r].at = "attempt" /\ Early(req[r]) BY EarlyIs DEF Attempt, MayStream
<1>2. ASSUME NEW some, Is(r, RoleServed(req[r], some)) PROVE Steps(r)
  BY <1>1, <1>2, RoleServedTold, TellsSteps
<1>3. CASE Is(r, RoleFails(req[r])) BY <1>1, <1>3, RoleFailsTold, TellsSteps, NoWord
<1>4. CASE Is(r, [req[r] EXCEPT !.tried = @ + 1])
  <2> DEFINE q == [req[r] EXCEPT !.tried = @ + 1]
  <2>1. Early(q) /\ q.at = "attempt" BY <1>1, TriedIs
  <2>2. Is(r, q) BY <1>4
  <2> HIDE DEF q
  <2> QED BY <1>1, <2>1, <2>2, StaysEarly, NoWord DEF MayStream
<1> QED BY <1>1, <1>2, <1>3, <1>4, NoWord DEF Attempt

\* A recording with a question becomes a question.
LEMMA DropsSteps ==
  ASSUME CommandsInv, NEW r \in Requests, Drops(r) PROVE Steps(r) /\ KeepsWord(r)
<1>1. req[r].at = "drop" /\ Early(req[r]) BY EarlyIs DEF Drops, MayStream
<1> DEFINE q == [req[r] EXCEPT !.at = "candidates", !.tried = 0]
<1>2. Early(q) /\ q.at = "candidates" BY <1>1 DEF Early, CommandShaped, CommandFields
<1>3. Is(r, q) BY DEF Drops
<1> HIDE DEF q
<1> QED BY <1>1, <1>2, <1>3, StaysEarly, NoWord DEF MayStream

\* _media_footer().
LEMMA FooterSteps ==
  ASSUME CommandsInv, NEW r \in Requests, Footer(r) PROVE Steps(r) /\ KeepsWord(r)
<1>1. req[r].at \in {"footer", "mark"} BY DEF Footer
<1>2. Early(req[r]) BY <1>1, EarlyIs DEF MayStream
<1>3. CASE Is(r, Saying(req[r], "delete")) BY <1>1, <1>2, <1>3, Says, NoWord DEF Thens, Early
<1>4. CASE To(r, "mark") BY <1>1, <1>2, <1>4, GoesOn, NoWord DEF MayStream, Early
<1> QED BY <1>1, <1>3, <1>4, NoWord DEF Footer, To

\* The image is removed.
LEMMA UnlinksSteps ==
  ASSUME CommandsInv, NEW r \in Requests, Unlinks(r) PROVE Steps(r) /\ KeepsWord(r)
<1>1. req[r].at = "unlink" /\ To(r, "delete") BY DEF Unlinks
<1>2. req[r].cut = "no" BY <1>1 DEF CommandsInv, CommandOK
<1> QED BY <1>1, <1>2, GoesOn, NoWord DEF MayStream

\* /ub api test.
LEMMA TestSteps ==
  ASSUME CommandsInv, NEW r \in Requests, TestCandidates(r) \/ Tests(r)
  PROVE  Steps(r) /\ KeepsWord(r)
<1>1. req[r].at \in {"candidates", "test"} BY DEF TestCandidates, Tests
<1>2. Early(req[r]) BY <1>1, EarlyIs DEF MayStream
<1>3. CASE Is(r, Saying(req[r], "done")) BY <1>1, <1>2, <1>3, Says, NoWord DEF Thens, Early
<1>4. ASSUME NEW cands, Is(r, [req[r] EXCEPT !.at = "test", !.cands = cands, !.tried = 1])
      PROVE  Steps(r)
  <2> DEFINE q == [req[r] EXCEPT !.at = "test", !.cands = cands, !.tried = 1]
  <2>1. Early(q) /\ q.at = "test" BY <1>2 DEF Early, CommandShaped, CommandFields
  <2>2. Is(r, q) BY <1>4
  <2> HIDE DEF q
  <2> QED BY <1>1, <2>1, <2>2, StaysEarly DEF MayStream
<1>5. CASE Is(r, [req[r] EXCEPT !.tried = @ + 1])
  <2> DEFINE q == [req[r] EXCEPT !.tried = @ + 1]
  <2>1. Early(q) /\ q.at = req[r].at BY <1>2, TriedIs
  <2>2. Is(r, q) BY <1>5
  <2> HIDE DEF q
  <2> QED BY <1>1, <2>1, <2>2, StaysEarly, NoWord DEF MayStream
<1> QED BY <1>1, <1>3, <1>4, <1>5, NoWord DEF TestCandidates, Tests

\* A cancellation: the try around the streams tidies up, nothing else does.
LEMMA CancelSteps ==
  ASSUME CommandsInv, NEW r \in Requests, Cancel(r) PROVE Steps(r) /\ KeepsWord(r)
<1> DEFINE v == req[r]
<1>1. v.at \notin {"none", "done"} /\ v.cut = "no" /\ CommandOK(v) BY DEF Cancel, CommandsInv
<1>2. CASE CancelledInside(r) /\ Streaming(r)
  <2> DEFINE q == [v EXCEPT !.at = "delete", !.cut = "inside"]
  <2>1. CommandShaped(q) /\ q.at = "delete" /\ q.content = v.content /\ q.cut = "inside"
    BY <1>1 DEF CommandOK, CommandShaped, CommandFields
  <2>2. Is(r, q) BY <1>2 DEF CancelledInside
  <2> HIDE DEF q
  <2>3. CommandOK(q) BY <1>1, <2>1 DEF CommandOK, MayStream
  <2>4. Steps(r) /\ req'[r] = q BY <1>1, <2>1, <2>2, <2>3, Becoming
  <2> QED BY <2>1, <2>4 DEF KeepsWord, Pending
<1>3. CASE CancelledOutside(r) /\ ~Streaming(r)
  <2> DEFINE cut == IF v.at = "extract" THEN "extracting" ELSE "outside"
             q == [v EXCEPT !.at = "done", !.cut = cut]
  <2>1. CommandShaped(q) /\ q.at = "done" /\ q.cut = cut
    <3> HIDE DEF cut
    <3> QED BY <1>1 DEF CommandOK, CommandShaped, CommandFields
  <2>2. Is(r, q) BY <1>3 DEF CancelledOutside
  <2> HIDE DEF q
  <2>3. Steps(r) /\ req'[r].cut = cut BY <1>1, <2>1, <2>2, Becoming
  <2>4. v.at = "extract" => ~Pending(v) BY DEF Pending
  <2> QED BY <2>3, <2>4 DEF KeepsWord
<1> QED BY <1>2, <1>3 DEF Cancel

\* A command begins.
Begins(r) ==
  /\ req' = [req EXCEPT ![r] = req'[r]] /\ CommandOK(req'[r])
  /\ req[r].at = "none" /\ ~Pending(req[r])

\* A command of an owner begins.
LEMMA BeginSteps ==
  ASSUME CommandsInv, NEW r \in Requests, NEW kind, Begin(r, kind) PROVE Begins(r)
<1> DEFINE b == [Blank EXCEPT !.kind = kind]
<1>1. Early(b)
  BY DEF Blank, Early, CommandShaped, CommandFields
<1>2. \/ Is(r, [b EXCEPT !.at = "candidates"])
      \/ Is(r, [b EXCEPT !.at = "show"])
      \/ kind \in {"use", "reset", "list"} /\ Is(r, [b EXCEPT !.at = kind])
      \/ Is(r, Saying(b, "done"))
  BY DEF Begin
<1> HIDE DEF b
<1>3. ASSUME NEW at, at \notin {"say", "done"}, Is(r, [b EXCEPT !.at = at])
      PROVE  \E q : Is(r, q) /\ CommandOK(q) /\ q.at # "done"
  <2> DEFINE q == [b EXCEPT !.at = at]
  <2>1. Early(q) /\ q.at = at BY <1>1, AtChanged DEF Early
  <2>2. Is(r, q) BY <1>3
  <2> HIDE DEF q
  <2> QED BY <1>3, <2>1, <2>2, EarlyOK
<1>4. ASSUME Is(r, Saying(b, "done"))
      PROVE  \E q : Is(r, q) /\ CommandOK(q) /\ q.at # "done"
  <2> DEFINE q == Saying(b, "done")
  <2>1. Early(q) /\ q.at = "say" /\ q.then \in Thens BY <1>1, EarlySaying DEF Thens
  <2>2. Is(r, q) BY <1>4
  <2> HIDE DEF q
  <2> QED BY <2>1, <2>2, EarlyOK
<1>5. PICK q : Is(r, q) /\ CommandOK(q) /\ q.at # "done" BY <1>2, <1>3, <1>4
<1>6. req' = [req EXCEPT ![r] = q] BY <1>5 DEF Is
<1>7. req'[r] = q BY <1>6 DEF CommandsInv
<1>8. req[r].at = "none" BY DEF Begin
<1> QED BY <1>5, <1>6, <1>7, <1>8 DEF Begins, Pending

\* A step of the commands is one of these.
CommandStep ==
  \/ UNCHANGED <<req, history>>
  \/ \E r \in Requests :
       \/ Begins(r) /\ (\E kind : Begin(r, kind)) /\ UNCHANGED history
       \/ Steps(r) /\ KeepsWord(r) /\ (UNCHANGED history \/ history' = <<>>)
       \/ Steps(r) /\ (RemembersQuestion(r) \/ RemembersAnswer(r) \/ Forgets(r))

\* What a step of the plugin is to the commands.
LEMMA CommandsStep == CommandsInv /\ [Next]_apiVars => CommandStep
<1> SUFFICES ASSUME CommandsInv, [Next]_apiVars PROVE CommandStep OBVIOUS
<1>1. CASE UNCHANGED requests BY <1>1 DEF requests, CommandStep
<1>2. ASSUME NEW r \in Requests, Progress(r) PROVE CommandStep
  <2>1. CASE StreamBreaks(r) \/ Finishes(r)
    BY <2>1, StreamBreaksSteps, FinishesSteps DEF CommandStep, StreamBreaks, Finishes
  <2>2. CASE TryRole(r) \/ Attempt(r)
    BY <2>2, TryRoleSteps, AttemptSteps DEF CommandStep, TryRole, Attempt, untouched
  <2>3. CASE Tests(r) BY <2>3, TestSteps DEF CommandStep, Tests
  <2>4. CASE Say(r) \/ Error(r) \/ Shows(r) \/ Deletes(r)
    BY <2>4, SaySteps, ErrorSteps, ShowsSteps, DeletesSteps
    DEF CommandStep, Say, Error, Shows, Deletes, stores
  <2>5. CASE ChatCandidates(r) \/ StreamEnds(r) \/ TestCandidates(r)
    BY <2>5, ChatCandidatesSteps, StreamEndsSteps, TestSteps
    DEF CommandStep, ChatCandidates, StreamEnds, TestCandidates
  <2>6. CASE RemembersQuestion(r) \/ RemembersAnswer(r) \/ Forgets(r)
    BY <2>6, RemembersQuestionSteps, RemembersAnswerSteps, ForgetsSteps DEF CommandStep
  <2>7. CASE Resets(r) \/ Uses(r) \/ Reports(r)
    BY <2>7, ReportSteps DEF CommandStep, Resets, Uses, Reports, stores
  <2>8. CASE Downloads(r) \/ Extracts(r) \/ Drops(r) \/ Footer(r) \/ Unlinks(r)
    BY <2>8, DownloadsSteps, ExtractsSteps, DropsSteps, FooterSteps, UnlinksSteps
    DEF CommandStep, Downloads, Extracts, Drops, Footer, Unlinks, untouched
  <2> QED
    BY <1>2, <2>1, <2>2, <2>3, <2>4, <2>5, <2>6, <2>7, <2>8 DEF Progress, Asking, Working
<1>3. ASSUME NEW r \in Requests, Piece(r) \/ Cancel(r) PROVE CommandStep
  BY <1>3, PieceSteps, CancelSteps DEF CommandStep, Piece, Cancel, stores
<1>4. ASSUME NEW r \in Requests, NEW kind, Begin(r, kind) PROVE CommandStep
  BY <1>4, BeginSteps DEF CommandStep, Begin, stores
<1> QED BY <1>1, <1>2, <1>3, <1>4 DEF Next, apiVars

\* It leaves every command in order.
LEMMA CommandsKept == CommandsInv /\ CommandStep => CommandsInv'
<1> SUFFICES ASSUME CommandsInv, CommandStep PROVE CommandsInv' OBVIOUS
<1>1. CASE UNCHANGED req BY <1>1 DEF CommandsInv, CommandOK
<1>2. ASSUME NEW r \in Requests, req' = [req EXCEPT ![r] = req'[r]], CommandOK(req'[r])
      PROVE  CommandsInv'
  <2>1. req' = [d \in Requests |-> req'[d]] BY <1>2 DEF CommandsInv
  <2>2. \A d \in Requests : d # r => req'[d] = req[d] BY <1>2 DEF CommandsInv
  <2>3. ASSUME NEW d \in Requests PROVE CommandOK(req'[d])
    BY <1>2, <2>2 DEF CommandsInv
  <2> QED BY <2>1, <2>3 DEF CommandsInv
<1> QED BY <1>1, <1>2 DEF CommandStep, Begins, Steps

\* No command has begun.
LEMMA CommandsStart == Init => CommandsInv
<1> SUFFICES ASSUME Init PROVE CommandsInv OBVIOUS
<1>1. Early(Blank) /\ Blank.at = "none" BY DEF Blank, Early, CommandShaped, CommandFields
<1>2. CommandOK(Blank) BY <1>1, EarlyOK
<1> QED BY <1>2 DEF Init, CommandsInv

\* ContentOfOneStream: what a command shows as its answer is of one stream of one model, whatever
\* streams broke off before it and whatever the owner cancelled.
THEOREM ContentIsOneStream == Spec => []ContentOfOneStream
<1>1. CommandsInv => ContentOfOneStream
  <2> SUFFICES ASSUME CommandsInv, NEW r \in Requests PROVE Cardinality(req[r].content) <= 1
    BY DEF ContentOfOneStream
  <2>1. PICK s : req[r].content \subseteq {s} BY DEF CommandsInv, CommandOK
  <2>2. IsFiniteSet({s}) /\ Cardinality({s}) = 1 BY FS_Singleton
  <2>3. Cardinality(req[r].content) <= Cardinality({s}) BY <2>1, <2>2, FS_Subset
  <2> QED BY <2>2, <2>3
<1> QED BY <1>1, CommandsStart, CommandsStep, CommandsKept, PTL DEF Spec

----------------------------------------------------------------------------
(* The conversation. *)

\* A set of numbers up to n has a greatest one.
LEMMA GreatestIs ==
  ASSUME NEW n \in Nat, NEW S, S \subseteq 1..n, S # {} PROVE \E i \in S : \A j \in S : j <= i
<1> DEFINE below == {p \in Nat \X Nat : p[1] < p[2]}
           T == {n - i : i \in S}
<1>1. IsWellFoundedOn(below, Nat) BY NatLessThanWellFounded DEF OpToRel
<1>2. T \subseteq Nat /\ T # {}
  <2>1. \A i \in S : n - i \in Nat OBVIOUS
  <2> QED BY <2>1
<1>3. PICK m \in T : \A l \in T : ~(<<l, m>> \in below)
  <2> HIDE DEF below, T
  <2> QED BY <1>1, <1>2, WFMin
<1>4. PICK i \in S : m = n - i OBVIOUS
<1>5. ASSUME NEW j \in S PROVE j <= i
  <2>1. n - j \in T /\ m \in Nat /\ n - j \in Nat OBVIOUS
  <2>2. ~(n - j < m)
    <3>1. n - j < m => <<n - j, m>> \in below BY <2>1
    <3> QED BY <1>3, <2>1, <3>1
  <2> QED BY <1>4, <2>1, <2>2
<1> QED BY <1>5

\* The rows of history.
Entries == [of : Requests, role : {"user", "assistant"}]
Question(r) == [of |-> r, role |-> "user"]
Answer(r) == [of |-> r, role |-> "assistant"]

\* One command runs at a time.
Sequential == \A c, d \in Requests : (d < c /\ req[c].at # "none") => req[d].at = "done"
\* An unanswered question is the last of the conversation and its command is at work on it, or
\* the command was cancelled before it could take the question out.
Kept == \A i \in Unanswered :
          LET d == history[i].of
          IN req[d].cut = "outside" \/ (Pending(req[d]) /\ i = Len(history))
QuestionsInv ==
  /\ CommandsInv
  /\ history \in Seq(Entries)
  /\ world \cap {"owners", "telegram"} = {} => Sequential /\ Kept

\* An unanswered question, in terms of positions.
LEMMA UnansweredIs ==
  ASSUME history \in Seq(Entries)
  PROVE  \A i : i \in Unanswered <=>
           /\ i \in 1..Len(history) /\ history[i].role = "user"
           /\ \A j \in i..Len(history) : history[j] # Answer(history[i].of)
BY DEF Unanswered, Answer

\* The newest MaxRows rows are kept, so the one that was added is the last.
Shifted(h, g, off) == /\ off \in Nat /\ Len(h) + 1 = Len(g) + off
                      /\ \A i \in 1..(Len(g) - 1) : g[i] = h[i + off]
Added(S, h, e, g) == /\ g \in Seq(S) /\ Len(g) \in Nat \ {0} /\ g[Len(g)] = e
                     /\ \E off : Shifted(h, g, off)

\* So is the result of _remember().
LEMMA LastRowsAre ==
  ASSUME NEW S, NEW h \in Seq(S), NEW e \in S
  PROVE  Added(S, h, e, LastRows(Append(h, e)))
<1> DEFINE g == LastRows(Append(h, e))
<1> DEFINE a == Append(h, e)
           n == Len(h) + 1
<1>1. /\ a \in Seq(S) /\ Len(a) = n /\ n \in Nat \ {0} /\ a[n] = e
      /\ \A i \in 1..Len(h) : a[i] = h[i]
  OBVIOUS
<1>2. MaxRows \in Nat \ {0} BY ApiPluginAssumption
<1>2a. g = LastRows(a) OBVIOUS
<1> SUFFICES Added(S, h, e, g) OBVIOUS
<1> HIDE DEF a, g
<1>3. CASE n <= MaxRows
  <2>1. g = a BY <1>1, <1>2a, <1>3 DEF LastRows
  <2>2. \A i \in 1..(n - 1) : g[i] = h[i + 0] BY <1>1, <2>1
  <2>3. Shifted(h, g, 0) BY <1>1, <2>1, <2>2 DEF Shifted
  <2> QED BY <1>1, <2>1, <2>3 DEF Added
<1>4. CASE ~(n <= MaxRows)
  <2> DEFINE off == n - MaxRows
  <2>1. g = SubSeq(a, off + 1, n)
    <3>1. g = SubSeq(a, n - MaxRows + 1, n) BY <1>1, <1>2a, <1>4 DEF LastRows
    <3> QED BY <3>1
  <2>2. off \in Nat \ {0} /\ off + 1 \in 1..n BY <1>1, <1>2, <1>4
  <2>3. g \in Seq(S) /\ Len(g) = MaxRows
    BY <1>1, <1>2, <2>1, <2>2, SubSeqProperties
  <2>4. ASSUME NEW i \in 1..MaxRows PROVE g[i] = a[i + off]
    BY <1>1, <1>2, <2>1, <2>2, SubSeqProperties
  <2>5. g[MaxRows] = e BY <1>1, <1>2, <2>4
  <2>6. ASSUME NEW i \in 1..(MaxRows - 1) PROVE g[i] = h[i + off]
    <3>1. i \in 1..MaxRows /\ i + off \in 1..Len(h) BY <1>1, <1>2, <2>2
    <3> QED BY <1>1, <2>4, <3>1
  <2>7. off \in Nat /\ Len(h) + 1 = MaxRows + off BY <1>1, <1>2, <2>2
  <2> HIDE DEF off
  <2>8. Shifted(h, g, off) BY <2>3, <2>6, <2>7 DEF Shifted
  <2> QED BY <1>2, <2>3, <2>5, <2>8 DEF Added
<1> QED BY <1>3, <1>4

\* What is unanswered after a row was added is that row, or was unanswered before.
LEMMA AddedUnanswered ==
  ASSUME history \in Seq(Entries), NEW e \in Entries, history' = LastRows(Append(history, e)),
         NEW i \in Unanswered'
  PROVE  /\ history' \in Seq(Entries)
         /\ \/ i = Len(history') /\ history'[i] = e /\ e.role = "user"
            \/ \E m \in Unanswered : /\ history[m].of = history'[i].of
                                     /\ e # Answer(history[m].of)
<1> DEFINE g == history'
<1>0. Added(Entries, history, e, g) BY LastRowsAre
<1>1. g \in Seq(Entries) /\ Len(g) \in Nat \ {0} /\ g[Len(g)] = e
  BY <1>0 DEF Added
<1>2. PICK off \in Nat : /\ Len(history) + 1 = Len(g) + off
                         /\ \A k \in 1..(Len(g) - 1) : g[k] = history[k + off]
  BY <1>0 DEF Added, Shifted
<1>3. /\ i \in 1..Len(g) /\ g[i].role = "user"
      /\ \A j \in i..Len(g) : g[j] # Answer(g[i].of)
  BY <1>1 DEF Unanswered, Answer
<1>4. CASE i = Len(g) BY <1>1, <1>3, <1>4
<1>5. CASE i # Len(g)
  <2> DEFINE m == i + off
  <2>1. i \in 1..(Len(g) - 1) /\ m \in 1..Len(history) /\ Len(history) \in Nat
    BY <1>1, <1>2, <1>3, <1>5
  <2>2. history[m] = g[i] BY <1>2, <2>1
  <2>3. e # Answer(g[i].of) BY <1>1, <1>3
  <2>4. ASSUME NEW j \in m..Len(history) PROVE history[j] # Answer(g[i].of)
    <3>1. j - off \in 1..(Len(g) - 1) /\ j - off \in i..Len(g) /\ (j - off) + off = j
      BY <1>1, <1>2, <1>3, <2>1
    <3>2. g[j - off] = history[j] BY <1>2, <3>1
    <3> QED BY <1>3, <3>1, <3>2
  <2>5. m \in Unanswered BY <1>3, <2>1, <2>2, <2>4, UnansweredIs
  <2> QED BY <1>1, <2>2, <2>3, <2>5
<1> QED BY <1>4, <1>5

\* The newest question is taken out, and what is unanswered then was so before and is not the last.
LEMMA ForgottenUnanswered ==
  ASSUME history \in Seq(Entries), NEW r, ForgetsNewest(r)
  PROVE  /\ history' \in Seq(Entries)
         /\ \A i \in Unanswered' : \E m \in Unanswered : /\ history[m].of = history'[i].of
                                                         /\ m # Len(history)
<1> DEFINE n == Len(history)
           asked == {i \in DOMAIN history : history[i].role = "user"}
<1>0. n \in Nat /\ n = Len(history) OBVIOUS
<1>1. n \in Nat /\ DOMAIN history = 1..n /\ asked \subseteq 1..n OBVIOUS
<1>2. CASE asked = {}
  <2>1. history' = history BY <1>2 DEF ForgetsNewest
  <2>2. Unanswered' = {} BY <1>2, <2>1 DEF Unanswered
  <2> QED BY <2>1, <2>2
<1>3. CASE asked # {}
  <2> DEFINE top == CHOOSE i \in asked : \A j \in asked : j <= i
  <2>1. top \in asked /\ \A j \in asked : j <= top
    <3>1. \E i \in asked : \A j \in asked : j <= i
      <4> HIDE DEF asked
      <4> QED BY <1>1, <1>3, GreatestIs
    <3> QED BY <3>1
  <2>2. history' = SubSeq(history, 1, top - 1) \o SubSeq(history, top + 1, n)
    BY <1>3 DEF ForgetsNewest, RemoveAt
  <2>3. top \in 1..n /\ history[top].role = "user" BY <1>1, <2>1
  <2>4. \A j \in 1..n : history[j].role = "user" => j <= top BY <1>1, <2>1
  <2> HIDE DEF top, asked, n
  <2> DEFINE front == SubSeq(history, 1, top - 1)
             rest == SubSeq(history, top + 1, n)
  <2>5. front \in Seq(Entries) /\ Len(front) = top - 1
        /\ \A j \in 1..(top - 1) : front[j] = history[j]
    BY <1>1, <2>3
  <2>6. rest \in Seq(Entries) /\ Len(rest) = n - top
        /\ \A j \in 1..(n - top) : rest[j] = history[top + j]
    <3>1. CASE top = n
      <4>1. rest = <<>> BY <1>1, <3>1
      <4> QED BY <1>1, <3>1, <4>1
    <3>2. CASE top # n
      <4>1. top + 1 \in 1..n /\ n \in 1..n BY <1>1, <2>3, <3>2
      <4>2. rest \in Seq(Entries) /\ Len(rest) = n - (top + 1) + 1
            /\ \A j \in 1..(n - (top + 1) + 1) : rest[j] = history[(top + 1) + j - 1]
        BY <1>1, <4>1, SubSeqProperties
      <4>3. n - (top + 1) + 1 = n - top /\ \A j \in 1..(n - top) : (top + 1) + j - 1 = top + j
        BY <1>1, <2>3
      <4> QED BY <4>2, <4>3
    <3> QED BY <3>1, <3>2
  <2>7. history' = front \o rest BY <2>2
  <2> HIDE DEF front, rest
  <2>8. /\ history' \in Seq(Entries) /\ Len(history') = n - 1
        /\ \A j \in 1..(top - 1) : history'[j] = history[j]
        /\ \A j \in top..(n - 1) : history'[j] = history[j + 1]
    <3>1. history' \in Seq(Entries) /\ Len(history') = n - 1
      <4>1. history' \in Seq(Entries) /\ Len(history') = Len(front) + Len(rest)
        BY <2>5, <2>6, <2>7, ConcatProperties
      <4> QED BY <1>1, <2>3, <2>5, <2>6, <4>1
    <3>2. ASSUME NEW j \in 1..(top - 1) PROVE history'[j] = history[j]
      <4>1. j \in 1..(Len(front) + Len(rest)) /\ j <= Len(front) BY <1>1, <2>3, <2>5, <2>6
      <4> QED BY <2>5, <2>6, <2>7, <4>1, ConcatProperties
    <3>3. ASSUME NEW j \in top..(n - 1) PROVE history'[j] = history[j + 1]
      <4>1. j \in 1..(Len(front) + Len(rest)) /\ ~(j <= Len(front)) BY <1>1, <2>3, <2>5, <2>6
      <4>2. j - Len(front) \in 1..(n - top) /\ top + (j - Len(front)) = j + 1
        BY <1>1, <2>3, <2>5
      <4>3. history'[j] = rest[j - Len(front)]
        BY <2>5, <2>6, <2>7, <4>1, ConcatProperties
      <4> QED BY <2>6, <4>2, <4>3
    <3> QED BY <3>1, <3>2, <3>3
  <2>9. ASSUME NEW i \in Unanswered'
        PROVE  \E m \in Unanswered : history[m].of = history'[i].of /\ m # n
    <3>1. /\ i \in 1..Len(history') /\ history'[i].role = "user"
          /\ \A j \in i..Len(history') : history'[j] # Answer(history'[i].of)
      BY <2>8, <2>9 DEF Unanswered, Answer
    <3>2. i < top
      <4>1. ASSUME ~(i < top) PROVE FALSE
        <5>1. i \in top..(n - 1) /\ i + 1 \in 1..n /\ ~(i + 1 <= top)
          BY <1>1, <2>3, <2>8, <3>1, <4>1
        <5>2. history[i + 1].role = "user" BY <2>8, <3>1, <5>1
        <5> QED BY <2>4, <5>1, <5>2
      <4> QED BY <4>1
    <3>3. i \in 1..(top - 1) /\ i \in 1..n /\ i # n BY <1>1, <2>3, <3>1, <3>2
    <3>4. history[i] = history'[i] BY <2>8, <3>3
    <3>5. ASSUME NEW j \in i..n PROVE history[j] # Answer(history[i].of)
      <4>1. CASE j < top
        <5>1. j \in 1..(top - 1) /\ j \in i..(n - 1) BY <1>1, <2>3, <3>3, <4>1
        <5> QED BY <2>8, <3>1, <3>4, <5>1
      <4>2. CASE j = top BY <2>3, <4>2 DEF Answer
      <4>3. CASE j > top
        <5>1. j - 1 \in top..(n - 1) /\ j - 1 \in i..(n - 1) /\ (j - 1) + 1 = j
          BY <1>1, <2>3, <3>3, <4>3
        <5>2. history'[j - 1] = history[j] BY <2>8, <5>1
        <5> QED BY <2>8, <3>1, <3>4, <5>1, <5>2
      <4> QED BY <1>1, <2>3, <3>3, <4>1, <4>2, <4>3
    <3>6. i \in Unanswered BY <1>0, <3>1, <3>3, <3>4, <3>5, UnansweredIs
    <3> QED BY <3>3, <3>4, <3>6
  <2> QED BY <1>0, <2>8, <2>9
<1> QED BY <1>0, <1>2, <1>3

\* The world stays what it is.
LEMMA WorldStays == [Next]_apiVars => world' = world
<1> SUFFICES ASSUME [Next]_apiVars PROVE world' = world OBVIOUS
<1>1. CASE UNCHANGED catalog BY <1>1 DEF catalog
<1>2. CASE UNCHANGED elsewhere BY <1>2 DEF elsewhere
<1>3. CASE CatalogNext
  <2>1. ASSUME NEW w, Ingesting(w) PROVE world' = world
    BY <2>1
    DEF Ingesting, Finds, Looks, Inserts, Marks, ReadsCursor, AdvancesCursor, others
  <2>2. ASSUME NEW s, Validating(s) PROVE world' = world
    BY <2>2 DEF Validating, Acquire, Lists, Chooses, Pings, MarkChecked, InsertsListed, ping
  <2>3. ASSUME NEW p, OnChannelPost(p) \/ Lost(p) PROVE world' = world
    BY <2>3 DEF OnChannelPost, Lost
  <2>4. CASE Booting
    BY <2>4 DEF Booting, Setup, Resolve, Listen, Scan, Sweep, Moves
  <2>5. CASE Publish \/ RefreshReads \/ RefreshSweeps \/ Restart
    BY <2>5 DEF Publish, RefreshReads, RefreshSweeps, Restart, others
  <2> QED BY <1>3, <2>1, <2>2, <2>3, <2>4, <2>5 DEF CatalogNext
<1> QED BY <1>1, <1>2, <1>3 DEF Next, Progress, apiVars

\* Nobody else is at work while one command is.
LEMMA OneAtWork ==
  ASSUME Sequential, NEW r \in Requests, req[r].at \notin {"none", "done"},
         NEW d \in Requests, d # r
  PROVE  req[d].at \in {"none", "done"}
<1>1. d < r \/ r < d BY DEF Requests
<1> QED BY <1>1 DEF Sequential

\* Without a second owner a command begins when the one before it is over.
LEMMA SequentialStep ==
  ASSUME CommandsInv, CommandStep, Sequential, "owners" \notin world PROVE Sequential'
<1>1. CASE UNCHANGED req BY <1>1 DEF Sequential
<1>2. ASSUME NEW r \in Requests, Steps(r) PROVE Sequential'
  <2>1. \A d \in Requests : d # r => req'[d] = req[d] BY <1>2 DEF Steps, CommandsInv
  <2>2. req[r].at \notin {"none", "done"} BY <1>2 DEF Steps
  <2> SUFFICES ASSUME NEW c \in Requests, NEW d \in Requests, d < c, req'[c].at # "none"
               PROVE  req'[d].at = "done"
    BY DEF Sequential
  <2>3. c # d BY DEF Requests
  <2>4. CASE d = r
    <3>1. req[c].at # "none" BY <2>1, <2>3, <2>4
    <3> QED BY <2>2, <2>4, <3>1 DEF Sequential
  <2>5. CASE d # r
    <3>1. req[c].at # "none" BY <2>1, <2>2
    <3> QED BY <2>1, <2>5, <3>1 DEF Sequential
  <2> QED BY <2>4, <2>5
<1>3. ASSUME NEW r \in Requests, Begins(r), NEW kind, Begin(r, kind) PROVE Sequential'
  <2>1. \A d \in Requests : d # r => req'[d] = req[d] BY <1>3 DEF Begins, CommandsInv
  <2>2. req[r].at = "none" /\ \A d \in Requests : d < r => req[d].at = "done"
    BY <1>3 DEF Begin
  <2> SUFFICES ASSUME NEW c \in Requests, NEW d \in Requests, d < c, req'[c].at # "none"
               PROVE  req'[d].at = "done"
    BY DEF Sequential
  <2>3. c # d BY DEF Requests
  <2>4. CASE d = r
    <3>1. req[c].at # "none" BY <2>1, <2>3, <2>4
    <3> QED BY <2>2, <2>4, <3>1 DEF Sequential
  <2>5. CASE d # r /\ c = r BY <2>1, <2>2, <2>5
  <2>6. CASE d # r /\ c # r BY <2>1, <2>6 DEF Sequential
  <2> QED BY <2>4, <2>5, <2>6
<1> QED BY <1>1, <1>2, <1>3 DEF CommandStep

\* A command that was cut short outside its tidying is over for good, one at work on a question
\* is at work.
LEMMA OverOrAtWork ==
  ASSUME CommandsInv, NEW d \in Requests
  PROVE  /\ req[d].cut = "outside" => req[d].at = "done"
         /\ Pending(req[d]) => req[d].at \notin {"none", "done"}
BY DEF CommandsInv, CommandOK, Pending

\* A row is of a command.
LEMMA OwnerIs ==
  ASSUME history \in Seq(Entries), NEW i \in Unanswered PROVE history[i].of \in Requests
<1>1. i \in 1..Len(history) BY UnansweredIs
<1>2. history[i] \in Entries BY <1>1
<1> QED BY <1>2 DEF Entries

\* A step that leaves the conversation alone.
LEMMA KeptQuietly ==
  ASSUME CommandsInv, history \in Seq(Entries), Kept, UNCHANGED history, NEW r \in Requests,
         \/ Begins(r)
         \/ Steps(r) /\ KeepsWord(r) /\ "telegram" \notin world
  PROVE  Kept'
<1>1. \A d \in Requests : d # r => req'[d] = req[d] BY DEF Begins, Steps, CommandsInv
<1>2. Unanswered' = Unanswered BY DEF Unanswered
<1>3. req[r].cut # "outside" BY OverOrAtWork DEF Begins, Steps
<1>4. Pending(req[r]) => Pending(req'[r]) \/ req'[r].cut = "outside" BY DEF Begins, KeepsWord
<1>5. ASSUME NEW i \in Unanswered, NEW d, d = history[i].of
      PROVE  req'[d].cut = "outside" \/ (Pending(req'[d]) /\ i = Len(history))
  <2>1. d \in Requests BY <1>5, OwnerIs
  <2>2. req[d].cut = "outside" \/ (Pending(req[d]) /\ i = Len(history)) BY <1>5 DEF Kept
  <2>3. CASE d # r
    <3>1. req'[d] = req[d] BY <1>1, <2>1, <2>3
    <3> QED BY <2>2, <3>1
  <2>4. CASE d = r BY <1>3, <1>4, <2>2, <2>4
  <2> QED BY <2>3, <2>4
<1>6. ASSUME NEW i \in Unanswered'
      PROVE  LET d == history'[i].of
             IN req'[d].cut = "outside" \/ (Pending(req'[d]) /\ i = Len(history'))
  BY <1>2, <1>5
<1> QED BY <1>6 DEF Kept, Pending

\* A step of the conversation after which whatever is unanswered either was so and waits for
\* nobody, or is the question that was added.
LEMMA KeptLoudly ==
  ASSUME CommandsInv, history \in Seq(Entries), Kept, NEW r \in Requests, Steps(r),
         \A i \in Unanswered' :
           \/ i = Len(history') /\ history'[i].of = r /\ Pending(req'[r])
           \/ \E m \in Unanswered : /\ history[m].of = history'[i].of
                                    /\ req[history[m].of].cut = "outside"
  PROVE  Kept'
<1>1. \A d \in Requests : d # r => req'[d] = req[d] BY DEF Steps, CommandsInv
<1>2. req[r].cut # "outside" BY OverOrAtWork DEF Steps
<1>3. ASSUME NEW m \in Unanswered, req[history[m].of].cut = "outside"
      PROVE  req'[history[m].of].cut = "outside"
  <2>1. history[m].of \in Requests /\ history[m].of # r BY <1>2, <1>3, OwnerIs
  <2> QED BY <1>1, <1>3, <2>1
<1>4. ASSUME NEW i \in Unanswered'
      PROVE  LET d == history'[i].of
             IN req'[d].cut = "outside" \/ (Pending(req'[d]) /\ i = Len(history'))
  <2>1. CASE i = Len(history') /\ history'[i].of = r /\ Pending(req'[r]) BY <2>1
  <2>2. ASSUME NEW m \in Unanswered, history[m].of = history'[i].of,
               req[history[m].of].cut = "outside"
        PROVE  req'[history'[i].of].cut = "outside"
    BY <1>3, <2>2
  <2> QED BY <1>4, <2>1, <2>2
<1> QED BY <1>4 DEF Kept, Pending

\* What waits for somebody waits for the command at work.
LEMMA WaitsForHim ==
  ASSUME CommandsInv, history \in Seq(Entries), Kept, Sequential, NEW r \in Requests,
         Steps(r),
         NEW m \in Unanswered
  PROVE  \/ req[history[m].of].cut = "outside"
         \/ history[m].of = r /\ Pending(req[r]) /\ m = Len(history)
<1> DEFINE d == history[m].of
<1>1. d \in Requests BY OwnerIs
<1>2. req[d].cut = "outside" \/ (Pending(req[d]) /\ m = Len(history)) BY DEF Kept
<1>3. Pending(req[d]) => d = r
  <2> HIDE DEF d
  <2> QED BY <1>1, OneAtWork, OverOrAtWork DEF Steps
<1> QED BY <1>2, <1>3

\* Every step of the plugin keeps it.
LEMMA QuestionsStep == QuestionsInv /\ [Next]_apiVars => QuestionsInv'
<1> SUFFICES ASSUME QuestionsInv, [Next]_apiVars PROVE QuestionsInv' OBVIOUS
<1>0. CommandsInv /\ history \in Seq(Entries) BY DEF QuestionsInv
<1>1. CommandStep /\ CommandsInv' /\ world' = world
  BY <1>0, CommandsStep, CommandsKept, WorldStays
<1>2. ASSUME NEW r \in Requests, RemembersQuestion(r) \/ RemembersAnswer(r)
      PROVE  \E e \in {Question(r), Answer(r)} :
               history' = LastRows(Append(history, e)) /\ e \in Entries
  BY <1>2 DEF RemembersQuestion, RemembersAnswer, Question, Answer, Entries
<1>3. history' \in Seq(Entries)
  <2>1. ASSUME NEW r \in Requests, RemembersQuestion(r) \/ RemembersAnswer(r)
        PROVE  history' \in Seq(Entries)
    <3>1. PICK e \in Entries : history' = LastRows(Append(history, e)) BY <1>2, <2>1
    <3> QED BY <1>0, <3>1, LastRowsAre DEF Added
  <2>2. ASSUME NEW r \in Requests, Forgets(r) PROVE history' \in Seq(Entries)
    BY <1>0, <2>2, ForgottenUnanswered DEF Forgets
  <2>3. <<>> \in Seq(Entries) OBVIOUS
  <2> QED BY <1>0, <1>1, <2>1, <2>2, <2>3 DEF CommandStep
<1>4. ASSUME world \cap {"owners", "telegram"} = {} PROVE Sequential' /\ Kept'
  <2>1. "owners" \notin world /\ "telegram" \notin world /\ Sequential /\ Kept
    BY <1>4 DEF QuestionsInv
  <2>2. Sequential' BY <1>0, <1>1, <2>1, SequentialStep
  <2>3. CASE UNCHANGED <<req, history>>
    BY <2>1, <2>2, <2>3 DEF Kept, Unanswered, Pending
  <2>4. ASSUME NEW r \in Requests, Begins(r), UNCHANGED history PROVE Kept'
    BY <1>0, <2>1, <2>4, KeptQuietly
  <2>5. ASSUME NEW r \in Requests, Steps(r), KeepsWord(r), UNCHANGED history PROVE Kept'
    BY <1>0, <2>1, <2>5, KeptQuietly
  <2>6. CASE history' = <<>>
    <3>1. Unanswered' = {} BY <2>6 DEF Unanswered
    <3> QED BY <2>2, <3>1 DEF Kept
  <2>7. ASSUME NEW r \in Requests, Steps(r), RemembersQuestion(r) PROVE Kept'
    <3>1. Pending(req'[r]) /\ ~Pending(req[r])
      BY <1>0, <2>7, RemembersQuestionSteps DEF Pending
    <3>2. Question(r) \in Entries /\ history' = LastRows(Append(history, Question(r)))
      BY <2>7 DEF RemembersQuestion, Question, Entries
    <3>3. Question(r).of = r BY DEF Question
    <3>4. ASSUME NEW i \in Unanswered'
          PROVE  \/ i = Len(history') /\ history'[i].of = r /\ Pending(req'[r])
                 \/ \E m \in Unanswered : /\ history[m].of = history'[i].of
                                          /\ req[history[m].of].cut = "outside"
      <4>1. \/ i = Len(history') /\ history'[i] = Question(r)
            \/ \E m \in Unanswered : history[m].of = history'[i].of
        BY <1>0, <3>2, <3>4, AddedUnanswered
      <4> QED BY <1>0, <2>1, <2>7, <3>1, <3>3, <4>1, WaitsForHim
    <3> QED BY <1>0, <2>1, <2>7, <3>4, KeptLoudly
  <2>8. ASSUME NEW r \in Requests, Steps(r), RemembersAnswer(r) PROVE Kept'
    <3>1. Answer(r) \in Entries /\ history' = LastRows(Append(history, Answer(r)))
      BY <2>8 DEF RemembersAnswer, Answer, Entries
    <3>2. Answer(r).role # "user" BY DEF Answer
    <3>3. ASSUME NEW i \in Unanswered'
          PROVE  \E m \in Unanswered : /\ history[m].of = history'[i].of
                                       /\ req[history[m].of].cut = "outside"
      <4>1. PICK m \in Unanswered : /\ history[m].of = history'[i].of
                                    /\ Answer(r) # Answer(history[m].of)
        BY <1>0, <3>1, <3>2, <3>3, AddedUnanswered
      <4>2. history[m].of # r BY <4>1
      <4> QED BY <1>0, <2>1, <2>8, <4>1, <4>2, WaitsForHim
    <3> QED BY <1>0, <2>1, <2>8, <3>3, KeptLoudly
  <2>9. ASSUME NEW r \in Requests, Steps(r), Forgets(r) PROVE Kept'
    <3>1. ASSUME NEW i \in Unanswered'
          PROVE  \E m \in Unanswered : /\ history[m].of = history'[i].of
                                       /\ req[history[m].of].cut = "outside"
      <4>1. PICK m \in Unanswered : /\ history[m].of = history'[i].of
                                    /\ m # Len(history)
        BY <1>0, <2>9, <3>1, ForgottenUnanswered DEF Forgets
      <4> QED BY <1>0, <2>1, <2>9, <4>1, WaitsForHim
    <3> QED BY <1>0, <2>1, <2>9, <3>1, KeptLoudly
  <2> QED BY <1>1, <2>2, <2>3, <2>4, <2>5, <2>6, <2>7, <2>8, <2>9 DEF CommandStep
<1> QED BY <1>1, <1>3, <1>4 DEF QuestionsInv

\* The conversation is empty.
LEMMA QuestionsStart == Init => QuestionsInv
<1> SUFFICES ASSUME Init PROVE QuestionsInv OBVIOUS
<1>1. CommandsInv BY CommandsStart
<1>2. history = <<>> /\ \A r \in Requests : req[r].at = "none" BY DEF Init, Blank
<1>3. Unanswered = {} BY <1>2 DEF Unanswered
<1>4. Sequential /\ Kept BY <1>2, <1>3 DEF Sequential, Kept
<1>5. history \in Seq(Entries) BY <1>2
<1> QED BY <1>1, <1>4, <1>5 DEF QuestionsInv

\* NoDanglingQuestion: with one owner and a Telegram that takes messages, when no command runs
\* every question of the conversation is answered, except those of commands that were cancelled
\* outside the try of _chat().
THEOREM QuestionsSettled == Spec => []NoDanglingQuestion
<1>1. QuestionsInv => NoDanglingQuestion
  <2> SUFFICES ASSUME QuestionsInv, world \cap {"owners", "telegram"} = {},
                      \A r \in Requests : req[r].at \in {"none", "done"}, NEW i \in Unanswered
               PROVE  req[history[i].of].cut = "outside"
    BY DEF NoDanglingQuestion
  <2> DEFINE d == history[i].of
  <2>1. d \in Requests BY OwnerIs DEF QuestionsInv
  <2>2. ~Pending(req[d]) BY <2>1, OverOrAtWork DEF QuestionsInv
  <2> QED BY <2>2 DEF QuestionsInv, Kept
<1> QED BY <1>1, QuestionsStart, QuestionsStep, PTL DEF Spec
=============================================================================
