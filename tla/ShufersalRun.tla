---------------------------- MODULE ShufersalRun ----------------------------
(***************************************************************************)
(* One run_phase1a of the Shufersal collector (collectors/shufersal/run.py,*)
(* discovery.py, download.py): for the Stores file and then each store's   *)
(* PriceFull file, discover a signed URL, download it, rediscover once if  *)
(* the URL was rejected, then decompress, parse and validate.              *)
(*                                                                         *)
(* A step is one request and what the code does with its answer.  The      *)
(* portal may publish a newer file between two discoveries, and a signed   *)
(* URL may expire at once.                                                 *)
(***************************************************************************)
EXTENDS ShufersalFiles

CONSTANTS
    Requested,             \* store_ids: the stores whose PriceFull files are asked for
    StoresPublications,    \* what the portal may have published as Stores file
    PriceFullPublications, \* and as first row of a store's PriceFull listing
    None

\* A publication is [name, bytes]: the name is that of the signed URL's path,
\* with the ids and the time it carries, and tells publications apart.
Publications == StoresPublications \cup PriceFullPublications

DISCOVERY_RETRY_ATTEMPTS == 2
DOWNLOAD_RETRY_ATTEMPTS == 2
MAX_REDISCOVERY_ATTEMPTS_ON_EXPIRED_URL == 1

StoresFile == 1
Jobs == 1..(Len(Requested) + 1)

\* A discovery: which publication the row offers, and the listing it is from.
\* What its signed URL reads is left open: no code compares two of them, and a
\* later listing may carry the URL of an earlier one.
Discovered == [version : Publications, listing : Nat]

\* The values of failed_stage.
FailedStages == {"discovery", "download", "transport", "parse", "validation"}

ASSUME RunAssumption ==
    /\ Requested \in Seq(STRING)
    /\ \A p, q \in Publications : p.name = q.name => p = q
    /\ None \notin FailedStages
    /\ None \notin Publications \cup Discovered

VARIABLES
    pc,          \* the next step
    job,         \* the file in turn
    attempt,     \* requests made by the current bounded retry
    remaining,   \* attempts_remaining of _download_with_rediscovery
    listings,    \* how many listings with a row the portal has served for the file
    requests,    \* the file's download requests: <<listing, answer>>
    discovered,  \* the local of run_stores or run_pricefull_for_store
    current,     \* the local of _download_with_rediscovery
    body,        \* the publication whose bytes were downloaded
    outcomes,    \* of each FileOutcome: source_filename, failed_stage, and
                 \* the name of the publication whose bytes were processed
    collected    \* the payloads that are returned, each of its file

vars == <<pc, job, attempt, remaining, listings, requests, discovered, current,
          body, outcomes, collected>>
portal == <<listings, requests>>
results == <<outcomes, collected>>

Init ==
    /\ pc = "start"
    /\ job = 0
    /\ attempt = 0
    /\ remaining = 0
    /\ listings = 0
    /\ requests = <<>>
    /\ discovered = None
    /\ current = None
    /\ body = None
    /\ outcomes = <<>>
    /\ collected = <<>>

\* run_stores or run_pricefull_for_store is called, or the run returns.
NextFile ==
    /\ job' = IF job = Len(Requested) + 1 THEN job ELSE job + 1
    /\ pc' = IF job = Len(Requested) + 1 THEN "done" ELSE "discover"
    /\ attempt' = 0
    /\ remaining' = MAX_REDISCOVERY_ATTEMPTS_ON_EXPIRED_URL
    /\ listings' = 0
    /\ requests' = <<>>
    /\ discovered' = None
    /\ current' = None
    /\ body' = None

Start ==
    /\ pc = "start"
    /\ NextFile
    /\ UNCHANGED results

SourceOf(d) == IF d = None THEN None ELSE d.version.name
NameOf(publication) == IF publication = None THEN None ELSE publication.name

Succeeded(outcome) == outcome.failed_stage = None

\* The file has its outcome, and the next one begins.
Record(stage) ==
    /\ outcomes' = Append(outcomes, [source |-> SourceOf(discovered),
                                     failed_stage |-> stage,
                                     parsed |-> NameOf(body)])
    /\ NextFile

Fails(stage) == Record(stage) /\ UNCHANGED collected

Return(payload) ==
    collected' = [n \in DOMAIN collected \cup {job} |->
                    IF n = job THEN payload ELSE collected[n]]

-----------------------------------------------------------------------------
\* _fetch_listing_html: a network failure is retried once, then it is a
\* DiscoveryError, and so is a listing without a matching row.
DiscoveryUnreachable ==
    /\ pc \in {"discover", "rediscover"}
    /\ IF attempt + 1 < DISCOVERY_RETRY_ATTEMPTS
       THEN /\ attempt' = attempt + 1
            /\ UNCHANGED <<pc, job, remaining, portal, discovered, current,
                           body, results>>
       ELSE Fails("discovery")

NothingListed ==
    /\ pc \in {"discover", "rediscover"}
    /\ Fails("discovery")

\* The first row of a listing that is fetched anew.  No code compares the row
\* with the store that was asked for, nor its URL with a rejected one.
Discover ==
    /\ pc \in {"discover", "rediscover"}
    /\ \E v \in IF job = StoresFile THEN StoresPublications
                 ELSE PriceFullPublications :
         /\ current' = [version |-> v, listing |-> listings + 1]
         /\ discovered' = IF pc = "discover" THEN current' ELSE discovered
    /\ listings' = listings + 1
    /\ attempt' = 0
    /\ pc' = "download"
    /\ UNCHANGED <<job, remaining, requests, body, results>>

Asked(answer) == requests' = Append(requests, <<current.listing, answer>>)

\* Fault: the rediscovered file is downloaded, the first one is reported.
DownloadForFirst ==
    /\ pc = "download"
    /\ Asked("served")
    /\ body' = current.version
    /\ pc' = "process"
    /\ UNCHANGED <<job, attempt, remaining, listings, discovered, current, results>>

\* body, discovered = _download_with_rediscovery(...)
Download ==
    /\ pc = "download"
    /\ Asked("served")
    /\ body' = current.version
    /\ discovered' = current
    /\ pc' = "process"
    /\ UNCHANGED <<job, attempt, remaining, listings, current, results>>

\* DownloadEmptyBodyError is not retried.
EmptyBody ==
    /\ pc = "download"
    /\ Fails("download")

\* Fault: one retry too many.
RetryOnceMore ==
    /\ pc = "download"
    /\ IF attempt + 1 <= DOWNLOAD_RETRY_ATTEMPTS
       THEN /\ attempt' = attempt + 1
            /\ Asked("unreachable")
            /\ UNCHANGED <<pc, job, remaining, listings, discovered, current, body,
                           results>>
       ELSE Fails("download")

\* An HTTP error other than 401 and 403, or a broken connection, is retried
\* once on the same URL.
DownloadUnreachable ==
    /\ pc = "download"
    /\ IF attempt + 1 < DOWNLOAD_RETRY_ATTEMPTS
       THEN /\ attempt' = attempt + 1
            /\ Asked("unreachable")
            /\ UNCHANGED <<pc, job, remaining, listings, discovered, current, body,
                           results>>
       ELSE Fails("download")

\* Faults: the rejected discovery is tried again, or files are rediscovered for
\* ever.
RetryRejected ==
    /\ pc = "download"
    /\ IF remaining > 0
       THEN /\ remaining' = remaining - 1
            /\ Asked("rejected")
            /\ UNCHANGED <<pc, job, attempt, listings, discovered, current, body,
                           results>>
       ELSE Fails("download")

RediscoverForEver ==
    /\ pc = "download"
    /\ pc' = "discover" /\ listings' = 0 /\ attempt' = 0 /\ requests' = <<>>
    /\ UNCHANGED <<job, remaining, discovered, current, body, results>>

AlwaysRediscover ==
    /\ pc = "download" /\ listings < 4
    /\ Asked("rejected")
    /\ attempt' = 0
    /\ pc' = "rediscover"
    /\ UNCHANGED <<job, remaining, listings, discovered, current, body, results>>

\* DownloadAuthExpiredError: rediscover once, or it propagates.
Rejected ==
    /\ pc = "download"
    /\ IF remaining > 0
       THEN /\ remaining' = remaining - 1
            /\ Asked("rejected")
            /\ attempt' = 0
            /\ pc' = "rediscover"
            /\ UNCHANGED <<job, listings, discovered, current, body, results>>
       ELSE Fails("download")

\* The IncompleteRead of a cut body is an HTTPException and no OSError: it is
\* caught nowhere, and leaves run_phase1a.
RaiseIncompleteRead ==
    /\ pc \in {"discover", "rediscover", "download"}
    /\ pc' = "aborted"
    /\ UNCHANGED <<job, attempt, remaining, portal, discovered, current, body,
                   results>>

-----------------------------------------------------------------------------
(* The bytes of a file: decompress, parse and validate.                    *)

RaiseTransportError ==
    /\ pc = "process"
    /\ body.bytes.container \in Refused
    /\ Fails("transport")

RaiseParseError ==
    /\ pc = "process"
    /\ body.bytes.container \notin Refused
    /\ ~body.bytes.wellFormed
    /\ Fails("parse")

Parsed == body.bytes.container \notin Refused /\ body.bytes.wellFormed

Stage(rejected) == IF rejected THEN "validation" ELSE None

\* run_stores: the records are returned even when the validation rejects them.
FinishStores ==
    /\ pc = "process" /\ job = StoresFile
    /\ Parsed
    /\ LET records == StoreRecords(body.bytes.doc)
       IN Return(records) /\ Record(Stage(StoresRejected(records)))

\* decimal.InvalidOperation leaves run_phase1a like RaiseIncompleteRead.
RaiseInvalidOperation ==
    /\ pc = "process" /\ job # StoresFile
    /\ Parsed
    /\ ComparesNaN(PriceFullRecords(body.bytes.doc))
    /\ pc' = "aborted"
    /\ UNCHANGED <<job, attempt, remaining, portal, discovered, current, body,
                   results>>

\* run_pricefull_for_store, of which run_phase1a returns what succeeded.
FinishPriceFull ==
    /\ pc = "process" /\ job # StoresFile
    /\ Parsed
    /\ LET payload == PriceFullRecords(body.bytes.doc)
           rejected == PriceFullRejected(payload, discovered.version.name)
       IN /\ ~ComparesNaN(payload)
          /\ IF rejected THEN UNCHANGED collected ELSE Return(payload)
          /\ Record(Stage(rejected))

-----------------------------------------------------------------------------
RunStep ==
    \/ Start
    \/ DiscoveryUnreachable \/ NothingListed \/ Discover
    \/ Download \/ EmptyBody \/ DownloadUnreachable \/ Rejected
    \/ RaiseIncompleteRead
    \/ RaiseTransportError \/ RaiseParseError
    \/ FinishStores \/ RaiseInvalidOperation \/ FinishPriceFull

Ended == pc \in {"done", "aborted"} /\ UNCHANGED vars

Next == RunStep \/ Ended

\* The program itself runs; nothing is assumed of the portal.
Spec == Init /\ [][Next]_vars /\ WF_vars(RunStep)

-----------------------------------------------------------------------------
Names == {p.name : p \in Publications}

Outcomes == [source : Names \cup {None},
             failed_stage : FailedStages \cup {None},
             parsed : Names \cup {None}]

TypeOK ==
    /\ pc \in {"start", "discover", "download", "rediscover", "process",
           "done", "aborted"}
    /\ job \in Jobs \cup {0}
    /\ attempt \in 0..1
    /\ remaining \in 0..MAX_REDISCOVERY_ATTEMPTS_ON_EXPIRED_URL
    /\ listings \in Nat
    /\ {discovered, current} \subseteq Discovered \cup {None}
    /\ body \in Publications \cup {None}
    /\ outcomes \in Seq(Outcomes)
    /\ DOMAIN collected \subseteq DOMAIN outcomes

\* One file costs the portal at most four download requests and two listings,
\* however its requests fail, and after a rejected request no other is made
\* until the file was discovered again ("rediscover exactly once and retry
\* with the fresh URL", _download_with_rediscovery).  That the second listing
\* carries a URL other than the rejected one ("never retries the same stale
\* URL") is the portal's to see to.
RequestsAreBounded ==
    /\ Len(requests) <= 4 /\ listings <= 2
    /\ \A m \in 1..Len(requests) :
        requests[m][2] = "rejected" =>
            /\ \A n \in (m + 1)..Len(requests) : requests[n][1] # requests[m][1]
            /\ pc \in {"download", "process"} => current.listing # requests[m][1]

\* An outcome names the publication whose bytes were parsed and validated,
\* also when the portal published a newer file before the rediscovery.
OutcomeNamesParsedFile ==
    \A n \in DOMAIN outcomes :
        outcomes[n].parsed # None => outcomes[n].source = outcomes[n].parsed

PriceFulls == DOMAIN collected \ {StoresFile}

\* What is returned as a store's prices has all the ids that the name of its
\* source says, also after a rediscovery, and no price of it makes the
\* normalization raise or is a NaN that no later comparison could order
\* ("upstream validation should have prevented this", normalize/shufersal.py).
\* That it is the store which was asked for is the portal's promise: a
\* listing's row is not compared with it; and an item's quantity, unit and
\* name may still make its normalization raise.
PricesAreUsable ==
    \A n \in PriceFulls :
        /\ outcomes[n].source.ids = collected[n].ids
        /\ \A k \in DOMAIN collected[n].items :
             /\ "price" \notin NotNormalizable(collected[n].items[k])
             /\ collected[n].items[k].price # NaN

Summary ==
    IF pc = "start" THEN "starting"
    ELSE IF pc \in {"done", "aborted"} THEN pc ELSE "running"

Successes == [n \in DOMAIN outcomes |-> Succeeded(outcomes[n])]

Run == INSTANCE CollectionRun
         WITH status <- Summary,
              Count <- Len(Requested) + 1,
              outcomes <- Successes,
              collected <- DOMAIN collected

\* The run is a CollectionRun that never gives up: unless an exception
\* escapes, each file has its own outcome, and it ends, whatever the portal
\* does.
ImplementsCollectionRun == Run!Spec

=============================================================================
