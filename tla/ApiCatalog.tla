----------------------------- MODULE ApiCatalog -----------------------------
(***************************************************************************)
(* The key catalogue of the api plugin (plugins/api/_catalog.py and the    *)
(* channel half of plugins/api/plugin.py): posts of a channel are read     *)
(* live, from the backlog at the first start and by /ub api refresh, and   *)
(* written to the endpoints and models tables one statement at a time;     *)
(* every new key is validated by a task of its own.                        *)
(*                                                                         *)
(* A post, a key and a model are numbers: a post its message id, a key and *)
(* a model their places in the orders the code sorts them in.              *)
(***************************************************************************)
EXTENDS Naturals, FiniteSets, SequencesExt

CONSTANTS
  MaxPosts,     \* bound on the messages of the channel
  MaxKey,       \* bound on the (base_url, api_key) pairs they offer
  MaxModel,     \* bound on the model names
  Roles,        \* what a model may be good for: "chat", "stt", "vision", "image"
  Tags,         \* capabilities(): the roles of each model
  Listings,     \* the sets of names /models may answer with
  Offers,       \* what the channel may publish: the key of each post and its mentions, a
                \* sequence of [model, flag] in the order _mark_models() writes them
  ScanLimit,    \* initial_scan
  PingLimit,    \* endpoint_models(limit)
  Concurrency,  \* validation_concurrency
  MaxRefreshes, \* bound on /ub api refresh
  MaxRestarts,  \* bound on the deaths of the process
  Worlds        \* what may happen: "offline" for a channel that does not answer and updates
                \* that do not come, "restart" for a process that dies, "refresh" for the
                \* command, "refusals" for keys that do not answer as they should, "requests" for a catalogue that is filled already

Posts == 1..MaxPosts
Keys == 1..MaxKey
Models == 1..MaxModel
Rows == Keys \X Models
Flags == {"working", "denied", "listed"}
Boot == 0
Refresh == MaxPosts + 1
Workers == {Boot, Refresh} \cup Posts
Slots == 1..Concurrency

ASSUME ApiCatalogAssumption ==
  /\ MaxPosts \in Nat /\ MaxKey \in Nat \ {0} /\ MaxModel \in Nat \ {0}
  /\ ScanLimit \in Nat \ {0} /\ PingLimit \in Nat \ {0} /\ Concurrency \in Nat \ {0}
  /\ MaxRefreshes \in Nat /\ MaxRestarts \in Nat
  /\ Tags \in [Models -> SUBSET Roles] /\ Listings \subseteq SUBSET Models
  /\ \A o \in Offers : \A p \in Posts :
       o[p].key \in Keys /\ o[p].mentions \in Seq([model : Models, flag : Flags])

VARIABLES
  world,     \* the member of Worlds this is
  offer,     \* the member of Offers the channel publishes
  published, \* how many of its posts are out
  update,    \* Telegram's update of each post: "none", "waiting" or "seen"
  endpoint,  \* the endpoints table
  flags,     \* the models table: the flags of each row, none for a row that is not there
  cooled,    \* the rows of it with a cooldown that is running
  cursor,    \* the key of that name
  boot,      \* where _bootstrap() is
  listening, \* the handler of new messages is registered
  ingest,    \* whoever writes posts: the handler of each post, the first scan, the refresh
  queue,     \* validations that wait for the semaphore
  probe,     \* the validations that have it
  spent      \* how many restarts and refreshes there were

database == <<endpoint, flags, cooled, cursor>>
validation == <<queue, probe>>
catalog == <<world, offer, published, update, endpoint, flags, cooled, cursor, boot, listening,
             ingest, queue, probe, spent>>

Resting == [at |-> "idle", posts |-> <<>>, n |-> 0, i |-> 0, new |-> FALSE]
Free == [at |-> "idle", key |-> 1, known |-> FALSE, names |-> {}, left |-> <<>>, alive |-> FALSE]
Unknown == [stored |-> FALSE, checked |-> FALSE, alive |-> FALSE, cooling |-> FALSE]

ApiCatalogTypeOK ==
  /\ world \in Worlds /\ offer \in Offers /\ published \in 0..MaxPosts
  /\ update \in [Posts -> {"none", "waiting", "seen"}]
  /\ endpoint \in [Keys -> [stored : BOOLEAN, checked : BOOLEAN, alive : BOOLEAN, cooling : BOOLEAN]]
  /\ flags \in [Rows -> SUBSET Flags] /\ cooled \subseteq Rows
  /\ cursor \in 0..MaxPosts
  /\ boot \in {"off", "resolve", "join", "scan", "scanning", "sweep", "done", "gaveup"}
  /\ listening \in BOOLEAN
  /\ \A w \in Workers :
       /\ ingest[w].at \in {"idle", "find", "insert", "mark", "cursor", "advance", "sweep"}
       /\ ToSet(ingest[w].posts) \subseteq Posts /\ ingest[w].new \in BOOLEAN
  /\ ToSet(queue) \subseteq Keys
  /\ \A s \in Slots :
       /\ probe[s].at \in {"idle", "list", "dead", "choose", "ping", "mark", "insert"}
       /\ probe[s].key \in Keys /\ probe[s].names \subseteq Models
       /\ ToSet(probe[s].left) \subseteq Models
  /\ spent.restarts \in 0..MaxRestarts /\ spent.refreshes \in 0..MaxRefreshes

\* An empty catalogue at the first start, or one that was filled by earlier starts.  Where something
\* goes wrong all posts are out already.
CatalogInit ==
  /\ world \in Worlds /\ offer \in Offers
  /\ published \in IF world = {} THEN 0..MaxPosts ELSE {MaxPosts}
  /\ update = [p \in Posts |-> IF p <= published THEN "seen" ELSE "none"]
  /\ endpoint = [k \in Keys |-> IF "requests" \in world
                                  THEN [Unknown EXCEPT !.stored = TRUE, !.checked = TRUE, !.alive = TRUE]
                                  ELSE Unknown]
  /\ flags = [r \in Rows |-> IF "requests" \in world THEN {"listed"} ELSE {}]
  /\ cooled = {}
  /\ cursor = IF "requests" \in world THEN MaxPosts ELSE 0
  /\ boot = IF "requests" \in world THEN "done" ELSE "off"
  /\ listening = ("requests" \in world)
  /\ ingest = [w \in Workers |-> Resting]
  /\ queue = <<>>
  /\ probe = [s \in Slots |-> Free]
  /\ spent = [restarts |-> 0, refreshes |-> 0]

----------------------------------------------------------------------------
(* The channel. *)

Publish ==
  /\ published < MaxPosts
  /\ published' = published + 1
  /\ update' = [update EXCEPT ![published + 1] = "waiting"]
  /\ UNCHANGED <<world, offer, database, boot, listening, ingest, validation, spent>>

Reads(posts) == [Resting EXCEPT !.at = "find", !.posts = posts, !.n = 1, !.i = 1]

\* Updates come in order.
NextUpdate(p) == update[p] = "waiting" /\ \A q \in Posts : q < p => update[q] # "waiting"

\* _on_channel_post(), in a task of its own.
OnChannelPost(p) ==
  /\ NextUpdate(p) /\ listening /\ ingest[p].at = "idle"
  /\ update' = [update EXCEPT ![p] = "seen"]
  /\ ingest' = [ingest EXCEPT ![p] = Reads(<<p>>)]
  /\ UNCHANGED <<world, offer, published, database, boot, listening, validation, spent>>

\* The client is connected and no handler of the plugin is there yet, or the account could
\* not join the channel.
Lost(p) ==
  /\ NextUpdate(p) /\ boot # "off" /\ (~listening \/ "offline" \in world)
  /\ update' = [update EXCEPT ![p] = "seen"]
  /\ UNCHANGED <<world, offer, published, database, boot, listening, ingest, validation, spent>>

----------------------------------------------------------------------------
(* A post is stored: upsert_post(), advance_cursor() and what its callers do after them. *)

others == <<world, offer, published, update, cooled, listening, probe, spent>>

Post(w) == ingest[w].posts[ingest[w].n]
KeyOf(w) == offer[Post(w)].key
Mentions(w) == offer[Post(w)].mentions

Goes(w, at) == ingest' = [ingest EXCEPT ![w].at = at]
ToMark(w) == IF Mentions(w) = <<>> THEN "cursor" ELSE "mark"

Looks(w, ifKnown) ==
  /\ ingest[w].at = "find"
  /\ ingest' = [ingest EXCEPT ![w].at = IF endpoint[KeyOf(w)].stored THEN ifKnown ELSE "insert",
                              ![w].i = 1, ![w].new = ~endpoint[KeyOf(w)].stored]
  /\ UNCHANGED <<others, endpoint, flags, cursor, boot, queue>>
FindsKnownDone(w) == Looks(w, "cursor")
\* An exception ends the handler, the first scan and the refresh.
Fails(w) ==
  /\ ingest' = [ingest EXCEPT ![w] = Resting]
  /\ boot' = IF w = Boot THEN "sweep" ELSE boot

\* UNIQUE(base_url, api_key): somebody else has stored the key since Finds().
Inserts(w) ==
  /\ ingest[w].at = "insert"
  /\ IF endpoint[KeyOf(w)].stored
       THEN Fails(w) /\ UNCHANGED endpoint
       ELSE /\ endpoint' = [endpoint EXCEPT ![KeyOf(w)].stored = TRUE]
            /\ Goes(w, ToMark(w))
            /\ UNCHANGED boot
  /\ UNCHANGED <<others, flags, cursor, queue>>

\* Flags are OR-ed: a later post does not un-say what an earlier one said.
Marks(w) ==
  /\ ingest[w].at = "mark"
  /\ LET mention == Mentions(w)[ingest[w].i]
     IN flags' = [flags EXCEPT ![<<KeyOf(w), mention.model>>] = @ \cup {mention.flag}]
  /\ ingest' = [ingest EXCEPT ![w].i = @ + 1,
                              ![w].at = IF ingest[w].i = Len(Mentions(w)) THEN "cursor" ELSE "mark"]
  /\ UNCHANGED <<others, endpoint, cursor, boot, queue>>

\* Back in _ingest() or in the loop of _scan().
Stored(w) ==
  /\ queue' = IF ingest[w].new THEN Append(queue, KeyOf(w)) ELSE queue
  /\ IF ingest[w].n < Len(ingest[w].posts)
       THEN ingest' = [ingest EXCEPT ![w].at = "find", ![w].n = @ + 1] /\ UNCHANGED boot
       ELSE /\ ingest' = [ingest EXCEPT ![w] = IF w = Refresh THEN [@ EXCEPT !.at = "sweep"]
                                                              ELSE Resting]
            /\ boot' = IF w = Boot THEN "sweep" ELSE boot

FindsNewer(w) ==
  IF ingest[w].at = "find" /\ Post(w) <= cursor
    THEN Stored(w) /\ UNCHANGED <<others, endpoint, flags, cursor>>
    ELSE Looks(w, ToMark(w))
Finds(w) == Looks(w, ToMark(w))
ReadsCursor(w) ==
  /\ ingest[w].at = "cursor"
  /\ IF cursor >= Post(w) THEN Stored(w) ELSE Goes(w, "advance") /\ UNCHANGED <<boot, queue>>
  /\ UNCHANGED <<others, endpoint, flags, cursor>>
AdvancesCursor(w) ==
  /\ ingest[w].at = "advance"
  /\ cursor' = Post(w)
  /\ Stored(w)
  /\ UNCHANGED <<others, endpoint, flags>>

----------------------------------------------------------------------------
(* _bootstrap() and /ub api refresh. *)

Moves(to) == boot' = to /\ UNCHANGED <<world, offer, published, update, database, spent, probe>>

Setup == boot = "off" /\ Moves("resolve") /\ UNCHANGED <<listening, ingest, queue>>
\* Twenty attempts; then only the refresh is left.
Resolve ==
  /\ boot = "resolve"
  /\ Moves("join") \/ ("offline" \in world /\ Moves("gaveup"))
  /\ UNCHANGED <<listening, ingest, queue>>
\* _ensure_member() says that it failed, and the bootstrap goes on.  The cursor is asked for
\* without an await in between: the storage serves in order, so no handler's write is first.
ListenAndRest ==
  /\ boot = "join" /\ Moves(IF cursor = 0 THEN "scan" ELSE "done")
  /\ listening' = TRUE
  /\ UNCHANGED <<ingest, queue>>
Listen ==
  /\ boot = "join" /\ Moves(IF cursor = 0 THEN "scan" ELSE "sweep")
  /\ listening' = TRUE
  /\ UNCHANGED <<ingest, queue>>

\* iter_messages(limit), oldest first.
Latest == LET all == [p \in 1..published |-> p]
          IN IF published <= ScanLimit THEN all ELSE SubSeq(all, published - ScanLimit + 1, published)
Scan ==
  /\ boot = "scan"
  /\ \/ /\ Latest # <<>> /\ Moves("scanning")
        /\ ingest' = [ingest EXCEPT ![Boot] = Reads(Latest)]
     \/ /\ Latest = <<>> \/ "offline" \in world
        /\ Moves("sweep") /\ UNCHANGED ingest
  /\ UNCHANGED <<listening, queue>>

\* _validate_unchecked()
Unchecked == SelectSeq([k \in Keys |-> k], LAMBDA k : endpoint[k].stored /\ ~endpoint[k].checked)
Sweep ==
  /\ boot = "sweep" /\ Moves("done")
  /\ queue' = queue \o Unchecked
  /\ UNCHANGED <<listening, ingest>>

\* _refresh(): a failure is reported and nothing is swept.
RefreshReads ==
  /\ "refresh" \in world /\ boot # "off"
  /\ ingest[Refresh].at = "idle" /\ spent.refreshes < MaxRefreshes
  /\ spent' = [spent EXCEPT !.refreshes = @ + 1]
  /\ \/ ingest' = [ingest EXCEPT ![Refresh] = IF Latest = <<>> THEN [Resting EXCEPT !.at = "sweep"]
                                                               ELSE Reads(Latest)]
     \/ "offline" \in world /\ UNCHANGED ingest
  /\ UNCHANGED <<world, offer, published, update, database, boot, listening, validation>>
RefreshSweeps ==
  /\ ingest[Refresh].at = "sweep"
  /\ queue' = queue \o Unchecked
  /\ ingest' = [ingest EXCEPT ![Refresh] = Resting]
  /\ UNCHANGED <<others, endpoint, flags, cursor, boot>>

----------------------------------------------------------------------------
(* _validate_endpoint() *)

ping == <<world, offer, published, update, cursor, boot, listening, ingest, spent>>

Becomes(s, p) == probe' = [probe EXCEPT ![s] = p]

\* asyncio.Semaphore serves in order, the slots are alike, and is_checked() is read at once.
Acquire(s) ==
  LET k == Head(queue)
  IN /\ queue # <<>> /\ probe[s].at = "idle" /\ \A t \in Slots : t < s => probe[t].at # "idle"
     /\ Becomes(s, IF endpoint[k].checked THEN Free ELSE [Free EXCEPT !.at = "list", !.key = k])
     /\ queue' = Tail(queue)
     /\ UNCHANGED <<ping, endpoint, flags, cooled>>

\* list_models(): a refused key, no answer, or the names the key serves.
Lists(s) ==
  /\ probe[s].at = "list"
  /\ \/ /\ "refusals" \in world
        /\ endpoint' = [endpoint EXCEPT ![probe[s].key].cooling = TRUE]
        /\ Becomes(s, [probe[s] EXCEPT !.at = "dead"])
     \/ /\ "refusals" \in world
        /\ Becomes(s, [probe[s] EXCEPT !.at = "choose"])
        /\ UNCHANGED endpoint
     \/ /\ \E names \in Listings :
             Becomes(s, [probe[s] EXCEPT !.at = "choose", !.known = TRUE, !.names = names])
        /\ UNCHANGED endpoint
  /\ UNCHANGED <<ping, flags, cooled, queue>>

\* endpoint_models(): the best of the rows, and without a row the first the key serves.
Sorted(S, Weight(_)) ==
  [i \in 1..Cardinality(S) |->
     CHOOSE x \in S : Cardinality({y \in S : Weight(y) < Weight(x)}) = i - 1]
FirstOf(S, Weight(_)) ==
  LET sorted == Sorted(S, Weight)
  IN SubSeq(sorted, 1, IF Len(sorted) < PingLimit THEN Len(sorted) ELSE PingLimit)
Score(row) == (IF "working" \in flags[row] THEN 0 ELSE 2 * MaxModel)
              + (IF "listed" \in flags[row] THEN 0 ELSE MaxModel) + row[2]
EndpointModels(k) ==
  FirstOf({m \in Models : /\ "chat" \in Tags[m] /\ flags[<<k, m>>] # {}
                          /\ "denied" \notin flags[<<k, m>>]},
          LAMBDA m : Score(<<k, m>>))
Chooses(s) ==
  /\ probe[s].at = "choose"
  /\ LET rows == EndpointModels(probe[s].key)
         left == IF rows = <<>> THEN FirstOf({m \in probe[s].names : "chat" \in Tags[m]}, LAMBDA m : m)
                                ELSE rows
     IN Becomes(s, [probe[s] EXCEPT !.at = IF left = <<>> THEN "mark" ELSE "ping", !.left = left,
                                    !.alive = (left = <<>> /\ probe[s].known)])
  /\ UNCHANGED <<ping, endpoint, flags, cooled, queue>>

\* cooldown_model() is an UPDATE: a row that is not there yet is not cooled.
Cools(row) == cooled' = IF flags[row] = {} THEN cooled ELSE cooled \cup {row}

Pings(s) ==
  LET k == probe[s].key
      next == [probe[s] EXCEPT !.left = Tail(@), !.at = IF Len(probe[s].left) = 1 THEN "mark" ELSE @]
  IN /\ probe[s].at = "ping"
     /\ \/ /\ Becomes(s, [probe[s] EXCEPT !.at = "mark", !.alive = TRUE, !.left = <<>>])
           /\ UNCHANGED <<endpoint, cooled>>
        \/ /\ "refusals" \in world
           /\ endpoint' = [endpoint EXCEPT ![k].cooling = TRUE]
           /\ Becomes(s, [probe[s] EXCEPT !.at = "mark", !.left = <<>>])
           /\ UNCHANGED cooled
        \/ /\ "refusals" \in world
           /\ Cools(<<k, Head(probe[s].left)>>)
           /\ Becomes(s, next) /\ UNCHANGED endpoint
        \/ /\ "refusals" \in world
           /\ Becomes(s, next) /\ UNCHANGED <<endpoint, cooled>>
     /\ UNCHANGED <<ping, flags, queue>>

\* mark_checked() writes the verdict first and the names after it, row by row.
MarkChecked(s) ==
  /\ probe[s].at \in {"dead", "mark"}
  /\ endpoint' = [endpoint EXCEPT ![probe[s].key].checked = TRUE, ![probe[s].key].alive = probe[s].alive]
  /\ Becomes(s, IF probe[s].names = {} THEN Free ELSE [probe[s] EXCEPT !.at = "insert"])
  /\ UNCHANGED <<ping, flags, cooled, queue>>
InsertsListed(s) ==
  /\ probe[s].at = "insert"
  /\ LET m == CHOOSE x \in probe[s].names : \A y \in probe[s].names : x <= y
     IN /\ flags' = [flags EXCEPT ![<<probe[s].key, m>>] = @ \cup {"listed"}]
        /\ Becomes(s, IF probe[s].names = {m} THEN Free ELSE [probe[s] EXCEPT !.names = @ \ {m}])
  /\ UNCHANGED <<ping, endpoint, cooled, queue>>

----------------------------------------------------------------------------
(* The process dies and is started again; updates that were waiting are waiting still. *)
Restart ==
  /\ "restart" \in world /\ boot # "off" /\ spent.restarts < MaxRestarts
  /\ spent' = [spent EXCEPT !.restarts = @ + 1]
  /\ boot' = "off" /\ listening' = FALSE
  /\ ingest' = [w \in Workers |-> Resting]
  /\ queue' = <<>>
  /\ probe' = [s \in Slots |-> Free]
  /\ UNCHANGED <<world, offer, published, update, database>>

Ingesting(w) ==
  \/ Finds(w) \/ Inserts(w) \/ Marks(w) \/ ReadsCursor(w) \/ AdvancesCursor(w)
Booting == Setup \/ Resolve \/ Listen \/ Scan \/ Sweep
Validating(s) ==
  \/ Acquire(s) \/ Lists(s) \/ Chooses(s) \/ Pings(s) \/ MarkChecked(s)
  \/ InsertsListed(s)

CatalogNext ==
  \/ Publish \/ \E p \in Posts : OnChannelPost(p) \/ Lost(p)
  \/ \E w \in Workers : Ingesting(w)
  \/ Booting \/ RefreshReads \/ RefreshSweeps
  \/ \E s \in Slots : Validating(s)
  \/ Restart

\* The event loop runs every task that is ready, a request of the plugin's client ends by its
\* timeout, and an update that can be delivered is.
CatalogFairness ==
  /\ \A p \in Posts : WF_catalog(OnChannelPost(p) \/ Lost(p))
  /\ \A w \in Workers : WF_catalog(Ingesting(w))
  /\ WF_catalog(Booting) /\ WF_catalog(RefreshSweeps)
  /\ \A s \in Slots : WF_catalog(Validating(s))

----------------------------------------------------------------------------
(* Properties. *)

\* Every key that was stored is validated in the end, whoever stored it and whatever was cut
\* short (unchecked_endpoint_ids(): without the sweep "those keys would sit unverified
\* forever"), unless the bootstrap gave up on a channel that never resolved.
EveryKeyIsChecked ==
  \A k \in Keys : endpoint[k].stored ~> (endpoint[k].checked \/ boot = "gaveup")

Applied(p) ==
  /\ endpoint[offer[p].key].stored
  /\ \A n \in ToSet(offer[p].mentions) : n.flag \in flags[<<offer[p].key, n.model>>]

\* When a refresh reports what it read, every post it read is in the catalogue, although the
\* live handler, the first scan and validations write the same rows meanwhile.
RefreshApplies ==
  ingest[Refresh].at = "sweep" => \A p \in ToSet(ingest[Refresh].posts) : Applied(p)

\* Between the first scan and the handler no post falls: one that is published at any moment
\* of a start that is not interrupted reaches the catalogue, as long as no two posts offer the
\* same key.  (Latest leaves out what is older than ScanLimit posts.)
Distinct == \A p, q \in Posts : p # q => offer[p].key # offer[q].key
NoPostMissed ==
  \A p \in Posts : (world = {} /\ Distinct /\ p <= published) ~> Applied(p)
=============================================================================
