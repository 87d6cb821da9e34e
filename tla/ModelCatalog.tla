---------------------------- MODULE ModelCatalog ----------------------------
(***************************************************************************)
(* The model database and the runs that fill it: the multi-stream update, the *)
(* cursor-paginated crawl of the whole Hub, both after a pass over trending  *)
(* and followed models, and the restore of a backup.  What the Hub answers   *)
(* is any list of models, or a failure.  A batch is one SQLite transaction.  *)
(* Runs of several processes interleave between their transactions.          *)
(***************************************************************************)
EXTENDS Integers, FiniteSets

CONSTANTS
  Models, Runs,
  Streams,       \* how many discovery streams an update reads
  MaxPages,      \* bound: pages of the Hub's registry
  MaxModels,     \* max_models of a crawl
  MaxAttempts    \* to fetch one page (4)

ASSUME CatalogAssumption ==
  IsFiniteSet(Models) /\ Streams \in Nat /\ MaxPages \in Nat /\ MaxModels \in Nat /\ MaxAttempts \in Nat

VARIABLES
  rows,    \* the table: model -> its feed_source, as a set; {} is standard_hub
  backup,  \* the copies in backups/pre_update: none or one table
  kind,    \* of each run: "update" or "crawl"
  phase,   \* "new", "feed", "streams", "openvino", "crawl", "done"
  turn,    \* streams or pages read so far
  retries, \* of the page being fetched
  seenModels, \* seen_models of each run
  total,   \* total_upserted of each run
  wrote,   \* history: the models a run wrote
  lost     \* history: seen, but not written, not wanted, or restored away

catalogVars == <<rows, backup, kind, phase, turn, retries, seenModels, total, wrote, lost>>

Both == {"trending", "following"}
Listed == DOMAIN rows

CatalogInit ==
  /\ rows = <<>> /\ backup = {}
  /\ kind = [r \in Runs |-> "update"] /\ phase = [r \in Runs |-> "new"]
  /\ turn = [r \in Runs |-> 0] /\ retries = [r \in Runs |-> 0] /\ total = [r \in Runs |-> 0]
  /\ seenModels = [r \in Runs |-> {}] /\ wrote = [r \in Runs |-> {}] /\ lost = [r \in Runs |-> {}]

\* Mutant: a model with both badges takes the badge of the latest feed.
MutMerged(old, new) ==
  IF new = Both \/ {old, new} = {{"trending"}, {"following"}} THEN Both
  ELSE IF new # {} THEN new ELSE old

\* ON CONFLICT DO UPDATE SET feed_source = CASE ... END.
Merged(old, new) ==
  IF old = Both \/ new = Both \/ {old, new} = {{"trending"}, {"following"}} THEN Both
  ELSE IF new # {} THEN new ELSE old

\* Mutant: UPDATE instead of INSERT ... ON CONFLICT.
MutUpserted(batch) ==
  [m \in Listed |-> IF m \in DOMAIN batch THEN Merged(rows[m], batch[m]) ELSE rows[m]]

\* The table after upsert_batch of models that come with these feeds.
Upserted(batch) ==
  [m \in Listed \cup DOMAIN batch |->
     IF m \notin DOMAIN batch THEN rows[m]
     ELSE IF m \in Listed THEN Merged(rows[m], batch[m]) ELSE batch[m]]

Plain(models) == [m \in models |-> {}]

\* What every batch does to the books of run r; counted says if a failure counts.
Wrote(r, batch, ok, counted) ==
  /\ rows' = IF ok THEN Upserted(batch) ELSE rows
  /\ total' = [total EXCEPT ![r] = @ + IF ok \/ counted THEN Cardinality(DOMAIN batch) ELSE 0]
  /\ wrote' = [wrote EXCEPT ![r] = @ \cup IF ok THEN DOMAIN batch ELSE {}]

\* The models of a list that this run has not seen yet.
Fresh(r, list) == list \ seenModels[r]

-----------------------------------------------------------------------------
\* A run is a process of its own; the backup may fail.
Begin(r, k, saved) ==
  /\ phase[r] = "new"
  /\ backup' = IF k = "update" /\ saved THEN {rows} ELSE backup
  /\ kind' = [kind EXCEPT ![r] = k] /\ phase' = [phase EXCEPT ![r] = "feed"]
  /\ UNCHANGED <<rows, turn, retries, seenModels, total, wrote, lost>>

\* Stage 0: candidates of the trending lists and of the followed organisations.
IngestFeed(r, trending, following, ok) ==
  LET batch == [m \in trending \cup following |->
                  (IF m \in trending THEN {"trending"} ELSE {})
                    \cup (IF m \in following THEN {"following"} ELSE {})]
  IN /\ phase[r] = "feed"
     /\ Wrote(r, batch, ok, FALSE)
     /\ seenModels' = [seenModels EXCEPT ![r] = DOMAIN batch]
     /\ lost' = [lost EXCEPT ![r] = IF ok THEN {} ELSE DOMAIN batch]
     /\ phase' = [phase EXCEPT ![r] = IF kind[r] = "crawl" THEN "crawl"
                                      ELSE IF Streams = 0 THEN "openvino" ELSE "streams"]
     /\ UNCHANGED <<backup, kind, turn, retries>>

\* One discovery stream; a stream that cannot be fetched lists nothing.
IngestStream(r, list, ok) ==
  /\ phase[r] = "streams"
  /\ Wrote(r, Plain(Fresh(r, list)), ok, FALSE)
  /\ seenModels' = [seenModels EXCEPT ![r] = @ \cup list]
  /\ lost' = [lost EXCEPT ![r] = @ \cup IF ok THEN {} ELSE Fresh(r, list)]
  /\ turn' = [turn EXCEPT ![r] = @ + 1]
  /\ phase' = [phase EXCEPT ![r] = IF turn'[r] = Streams THEN "openvino" ELSE "streams"]
  /\ UNCHANGED <<backup, kind, retries>>

\* The OpenVINO sync marks all it lists as seen and writes the language models.
IngestOpenVino(r, list, llms, ok) ==
  /\ phase[r] = "openvino"
  /\ llms \subseteq Fresh(r, list)
  /\ Wrote(r, Plain(llms), ok, FALSE)
  /\ seenModels' = [seenModels EXCEPT ![r] = @ \cup list]
  /\ lost' = [lost EXCEPT ![r] = @ \cup IF ok THEN Fresh(r, list) \ llms ELSE Fresh(r, list)]
  /\ phase' = [phase EXCEPT ![r] = "done"]
  /\ UNCHANGED <<backup, kind, turn, retries>>

\* A page answers 429 or 5xx, or not at all; after MaxAttempts the crawl ends.
RetryPage(r) ==
  /\ phase[r] = "crawl"
  /\ retries' = [retries EXCEPT ![r] = @ + 1]
  /\ phase' = [phase EXCEPT ![r] = IF retries'[r] = MaxAttempts THEN "done" ELSE "crawl"]
  /\ UNCHANGED <<rows, backup, kind, turn, seenModels, total, wrote, lost>>

\* A page is refused, is not JSON, or is empty.
EndCrawl(r) ==
  /\ phase[r] = "crawl"
  /\ phase' = [phase EXCEPT ![r] = "done"]
  /\ UNCHANGED <<rows, backup, kind, turn, retries, seenModels, total, wrote, lost>>

\* A page of models, and whether its link header names a next one.
CrawlPage(r, list, more, ok) ==
  /\ phase[r] = "crawl" /\ list # {}
  /\ Wrote(r, Plain(Fresh(r, list)), ok, TRUE)
  /\ seenModels' = [seenModels EXCEPT ![r] = @ \cup list]
  /\ lost' = [lost EXCEPT ![r] = @ \cup IF ok THEN {} ELSE Fresh(r, list)]
  /\ turn' = [turn EXCEPT ![r] = @ + 1] /\ retries' = [retries EXCEPT ![r] = 0]
  /\ more => turn'[r] < MaxPages
  /\ phase' = [phase EXCEPT ![r] = IF more /\ total'[r] < MaxModels THEN "crawl" ELSE "done"]
  /\ UNCHANGED <<backup, kind>>

\* handle_restore: the copy replaces the table under the runs.
Restore ==
  \E copy \in backup :
    /\ rows' = copy
    /\ lost' = [r \in Runs |-> lost[r] \cup (seenModels[r] \ DOMAIN copy)]
    /\ UNCHANGED <<backup, kind, phase, turn, retries, seenModels, total, wrote>>

CatalogNext ==
  \/ \E r \in Runs, ok \in BOOLEAN :
       \/ \E k \in {"update", "crawl"} : Begin(r, k, ok)
       \/ \E trending, following \in SUBSET Models : IngestFeed(r, trending, following, ok)
       \/ \E list \in SUBSET Models :
            \/ IngestStream(r, list, ok)
            \/ \E llms \in SUBSET list : IngestOpenVino(r, list, llms, ok)
            \/ \E more \in BOOLEAN : CrawlPage(r, list, more, ok)
  \/ \E r \in Runs : RetryPage(r) \/ EndCrawl(r)
  \/ Restore

CatalogSpec == CatalogInit /\ [][CatalogNext]_catalogVars

-----------------------------------------------------------------------------
(* "Total Unique Models Synced" (task_handler.rs:1248): an update counts each *)
(* model it wrote once, whatever lists it was on and whatever batches failed.  *)
(* A crawl counts failed batches too, so it only bounds what it wrote.       *)
ReportIsHonest ==
  \A r \in Runs : IF kind[r] = "update" THEN total[r] = Cardinality(wrote[r])
                                        ELSE total[r] >= Cardinality(wrote[r])

(* What a run has seen and will pass over from now on is in the table, or its *)
(* batch failed, or it was no language model, or a restore took it back.     *)
SeenIsStored == \A r \in Runs : seenModels[r] \subseteq Listed \cup lost[r]

(* "'trending' must NOT demote 'trending+following'" (db/src/models.rs:1369): *)
(* no run of any process takes a badge or a row away; only a restore does.   *)
BadgesOnlyGrow ==
  [][rows' \in backup \/ \A m \in Listed : m \in DOMAIN rows' /\ rows[m] \subseteq rows'[m]]_catalogVars

(* What a run reports and what it will not look at again is in the table, as  *)
(* far as its batches were written, and no write takes anything back.        *)
CatalogKept == [](ReportIsHonest /\ SeenIsStored) /\ BadgesOnlyGrow
=============================================================================
