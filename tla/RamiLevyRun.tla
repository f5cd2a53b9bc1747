----------------------------- MODULE RamiLevyRun -----------------------------
(***************************************************************************)
(* One run_phase1a of the Rami Levy collector over one RamiLevySession     *)
(* (collectors/rami_levy/run.py, session.py, download.py): login, the      *)
(* directory listing, then the Stores file and each store's PriceFull      *)
(* file, against a portal that may drop the session at any time.           *)
(*                                                                         *)
(* The listing's rows and the files' contents are those of RamiLevyFiles.  *)
(* A step is one request and what the code does with its answer.  urllib   *)
(* answers a status of 400 and above by raising HTTPError, a URLError and  *)
(* so an OSError: login() catches it, the authenticated requests do not.   *)
(***************************************************************************)
EXTENDS Integers, RamiLevyFiles

CONSTANTS
    Requested,       \* store_ids: the stores whose PriceFull files are asked for
    Answers,         \* what may happen to an authenticated request
    Listings,        \* the listings that the portal may serve
    StoresBodies,    \* what may be served as a Stores file
    PriceFullBodies, \* and as a PriceFull file
    None

\* Besides "served": the page redirects to /login, or the listing says
\* {"error": ...}; 401 or 403; any other HTTP error or a broken connection;
\* a body that ends before its declared length; a body that is no listing, or
\* an empty file.
AllAnswers == {"login_page", "unauthorized", "unreachable", "truncated",
               "unusable"}

LOGIN_RETRY_ATTEMPTS == 2

\* The values of failed_stage and of structural_classification.
FailedStages == {"discovery", "download", "transport", "parse", "validation"}

Classifications == {"RECOGNIZED_NONEMPTY", "RECOGNIZED_EMPTY",
                    "NONEMPTY_UNRECOGNIZED", "UNKNOWN_UNCLASSIFIED"}

IsSequence(s) == Len(s) \in Nat /\ s = [n \in 1..Len(s) |-> s[n]]

\* A listing is finite, its times can be compared, and the name of a PriceFull
\* file carries a store id.
ListingAssumption(rows) ==
    /\ IsSequence(rows)
    /\ \A n \in DOMAIN rows :
         /\ rows[n].time \in Nat
         /\ rows[n].name # None
         /\ rows[n].name.kind \in PriceFullKinds =>
              "store_id" \in DOMAIN rows[n].name.ids

ASSUME RunAssumption ==
    /\ Requested \in Seq(STRING)
    /\ Answers \subseteq AllAnswers
    /\ \A rows \in Listings : ListingAssumption(rows)
    /\ \A stores \in StoresBodies : IsSequence(stores.doc.stores)
    /\ NotInts \cap DOMAIN NumberOf = {}
    /\ None \notin FailedStages \cup Classifications
    /\ None \notin StoresBodies \cup PriceFullBodies

VARIABLES
    pc,            \* the next step, or how the run ended
    operation,     \* the login, the listing, or the file in turn
    loggedIn,      \* RamiLevySession._logged_in
    sessionValid,  \* the portal still accepts the session cookie
    retried,       \* this operation has used its one re-login
    attempt,       \* login attempts made by the current login() call
    relogins,      \* relogin_count
    answer,        \* the last request's answer
    listing,       \* the rows of the listing
    source,        \* the name of the discovered file
    body,          \* its downloaded bytes
    outcomes,      \* of each FileOutcome: source_filename, failed_stage and
                   \* structural_classification
    collected      \* the payloads that are returned, each of its file

session == <<loggedIn, sessionValid, relogins>>
file == <<source, body>>
control == <<operation, retried, attempt, file>>
results == <<outcomes, collected>>
vars == <<pc, control, session, answer, listing, results>>

InitialLogin == 0 - 1
Listing == 0
StoresFile == 1
Files == 1..(Len(Requested) + 1)

Init ==
    /\ pc = "login"
    /\ operation = InitialLogin
    /\ loggedIn = FALSE
    /\ sessionValid = FALSE
    /\ retried = FALSE
    /\ attempt = 0
    /\ relogins = 0
    /\ answer = None
    /\ listing = <<>>
    /\ source = None
    /\ body = None
    /\ outcomes = <<>>
    /\ collected = <<>>

-----------------------------------------------------------------------------
NextFile ==
    /\ source' = None /\ body' = None
    /\ IF operation = Len(Requested) + 1
       THEN pc' = "done" /\ UNCHANGED operation
       ELSE pc' = "discover" /\ operation' = operation + 1
    /\ UNCHANGED <<retried, attempt>>

Succeeded(outcome) == outcome.failed_stage = None

\* The file has its outcome, and the next one begins.
Record(from, stage, classification) ==
    /\ outcomes' = Append(outcomes, [source |-> from, failed_stage |-> stage,
                                     classification |-> classification])
    /\ NextFile

Return(payload) ==
    collected' = [n \in DOMAIN collected \cup {operation} |->
                    IF n = operation THEN payload ELSE collected[n]]

\* The errors run_phase1a and run_pricefull_for_store catch: LoginError,
\* SessionExpiredError, ListingError, DownloadError.
OperationFails ==
    IF operation \in Files
    THEN Record(source, "download", None) /\ UNCHANGED collected
    ELSE pc' = "given_up" /\ UNCHANGED <<control, results>>

LoginSucceeds ==
    /\ pc = "login"
    /\ loggedIn' = TRUE
    /\ sessionValid' = TRUE
    /\ answer' = "served"
    /\ pc' = "request"
    /\ operation' = IF operation = InitialLogin THEN Listing ELSE operation
    /\ UNCHANGED <<retried, attempt, file, relogins, listing, results>>

\* A definitive rejection is a LoginError at once; it leaves _logged_in.
LoginRejected ==
    /\ pc = "login"
    /\ answer' = "rejected"
    /\ OperationFails
    /\ UNCHANGED <<session, listing>>

\* Fault: the attempts are not counted against their bound.
RetryLoginForEver ==
    /\ pc = "login"
    /\ attempt < 5 /\ attempt' = attempt + 1
    /\ answer' = "unreachable"
    /\ UNCHANGED <<pc, operation, retried, file, session, listing, results>>

\* A network failure is retried within login(), with a bound.  The portal
\* may have accepted the login and only its answer been lost.
LoginUnreachable ==
    /\ pc = "login"
    /\ answer' = "unreachable"
    /\ sessionValid' \in {sessionValid, TRUE}
    /\ IF attempt + 1 < LOGIN_RETRY_ATTEMPTS
       THEN /\ attempt' = attempt + 1
            /\ UNCHANGED <<pc, operation, retried, file, loggedIn, results>>
       ELSE loggedIn' = FALSE /\ OperationFails
    /\ UNCHANGED <<relogins, listing>>

\* find_stores_file and find_pricefull_file.
Candidates ==
    IF operation = StoresFile THEN StoresRows(listing)
    ELSE PriceFullRows(listing, Requested[operation - 1])

\* A file that is not listed has a DiscoveryError.
Unlisted ==
    /\ pc = "discover"
    /\ Candidates = {}
    /\ Record(None, "discovery", None)
    /\ UNCHANGED <<session, answer, listing, collected>>

\* _with_reauth: a session known to be down logs in first.
Discover ==
    /\ pc = "discover"
    /\ Candidates # {}
    /\ source' = listing[Latest(listing, Candidates)].name
    /\ pc' = IF loggedIn THEN "request" ELSE "login"
    /\ retried' = FALSE
    /\ attempt' = 0
    /\ UNCHANGED <<operation, body, session, answer, listing, results>>

ServeListing ==
    /\ pc = "request" /\ sessionValid
    /\ operation = Listing
    /\ answer' = "served"
    /\ listing' \in Listings
    /\ NextFile
    /\ UNCHANGED <<session, results>>

ServeFile ==
    /\ pc = "request" /\ sessionValid
    /\ operation \in Files
    /\ answer' = "served"
    /\ body' \in IF operation = StoresFile THEN StoresBodies ELSE PriceFullBodies
    /\ pc' = "process"
    /\ UNCHANGED <<operation, retried, attempt, source, session, listing, results>>

\* Fault: the second answer is handled like the first.
RetryForEver ==
    /\ pc = "request" /\ ~sessionValid
    /\ "login_page" \in Answers
    /\ answer' = "login_page"
    /\ pc' = "login" /\ attempt' = 0
    /\ UNCHANGED <<operation, retried, file, session, listing, results>>

\* Fault: a re-login that another operation used counts for this one too.
ExpiredTwice ==
    /\ pc = "request" /\ ~sessionValid
    /\ "login_page" \in Answers
    /\ answer' = "login_page"
    /\ IF relogins < 2 * (operation + 1)
       THEN /\ relogins' = relogins + 1 /\ retried' = TRUE
            /\ attempt' = 0 /\ pc' = "login"
            /\ UNCHANGED <<operation, file, results>>
       ELSE OperationFails /\ UNCHANGED relogins
    /\ UNCHANGED <<loggedIn, sessionValid, listing>>

\* SessionExpiredError: one fresh login and one retry, or it propagates.
Expired ==
    /\ pc = "request" /\ ~sessionValid
    /\ "login_page" \in Answers
    /\ answer' = "login_page"
    /\ IF ~retried
       THEN /\ relogins' = relogins + 1 /\ retried' = TRUE
            /\ attempt' = 0 /\ pc' = "login"
            /\ UNCHANGED <<operation, file, results>>
       ELSE OperationFails /\ UNCHANGED relogins
    /\ UNCHANGED <<loggedIn, sessionValid, listing>>

\* ListingError, or the empty body of a file.
Unusable ==
    /\ pc = "request" /\ sessionValid
    /\ "unusable" \in Answers
    /\ answer' = "unusable"
    /\ OperationFails
    /\ UNCHANGED <<session, listing>>

\* HTTPError and URLError are caught nowhere above the request, and the
\* IncompleteRead of a cut body nowhere at all: the exception leaves
\* run_phase1a, and no summary is returned.
Raises ==
    /\ \/ pc = "request" /\ answer' \in {"unauthorized", "unreachable", "truncated"}
       \/ pc = "login" /\ answer' = "truncated"
    /\ answer' \in Answers
    /\ answer' = "unauthorized" => ~sessionValid
    /\ pc' = "aborted"
    /\ UNCHANGED <<control, session, listing, results>>

-----------------------------------------------------------------------------
(* The bytes of a file: transport, parse and validate.                     *)

RaiseTransportError ==
    /\ pc = "process"
    /\ body.container \in Refused
    /\ Record(source, "transport", None)
    /\ UNCHANGED <<session, answer, listing, collected>>

\* zipfile reads the member outside the try of _extract_single_zip_member:
\* BadZipFile is no TransportError.
ReadCorruptMember ==
    /\ pc = "process"
    /\ body.container = CorruptMember
    /\ pc' = "aborted"
    /\ UNCHANGED <<control, session, answer, listing, results>>

Parsed ==
    /\ body.container \in Passed
    /\ body.wellFormed
    /\ IF operation = StoresFile THEN StoresParses(body.doc)
       ELSE PriceFullParses(body.doc)

RaiseParseError ==
    /\ pc = "process"
    /\ body.container \in Passed
    /\ ~Parsed
    /\ Record(source, "parse", None)
    /\ UNCHANGED <<session, answer, listing, collected>>

Stage(rejected) == IF rejected THEN "validation" ELSE None

\* run_stores: the records are returned even when the validation rejects them.
FinishStores ==
    /\ pc = "process" /\ operation = StoresFile
    /\ Parsed
    /\ LET records == StoreRecords(body.doc)
       IN /\ Return(records)
          /\ Record(source, Stage(StoresRejected(records)), Classify(body.doc))
    /\ UNCHANGED <<session, answer, listing>>

\* int() of a store id that isdigit() accepts: the ValueError leaves
\* run_phase1a like BadZipFile.
RaiseValueError ==
    /\ pc = "process" /\ operation # StoresFile
    /\ Parsed
    /\ ComparesNotInt(PriceFullRecords(body.doc))
    /\ pc' = "aborted"
    /\ UNCHANGED <<control, session, answer, listing, results>>

\* Fault: a rejected file's items are returned like those of the Stores file.
ReturnRejected ==
    /\ pc = "process" /\ operation # StoresFile
    /\ Parsed
    /\ LET payload == PriceFullRecords(body.doc)
       IN /\ Return(payload)
          /\ Record(source, Stage(PriceFullRejected(payload, source)), None)
    /\ UNCHANGED <<session, answer, listing>>

\* run_pricefull_for_store, of which run_phase1a returns what succeeded.
FinishPriceFull ==
    /\ pc = "process" /\ operation # StoresFile
    /\ Parsed
    /\ LET payload == PriceFullRecords(body.doc)
           rejected == PriceFullRejected(payload, source)
       IN /\ ~ComparesNotInt(payload)
          /\ IF rejected THEN UNCHANGED collected ELSE Return(payload)
          /\ Record(source, Stage(rejected), None)
    /\ UNCHANGED <<session, answer, listing>>

-----------------------------------------------------------------------------
\* The portal drops the session.
DropSession ==
    /\ sessionValid
    /\ pc \in {"login", "discover", "request", "process"}
    /\ sessionValid' = FALSE
    /\ UNCHANGED <<pc, control, loggedIn, relogins, answer, listing, results>>

RunStep ==
    \/ LoginSucceeds \/ LoginRejected \/ LoginUnreachable
    \/ ServeListing \/ Unlisted \/ Discover \/ ServeFile
    \/ Expired \/ Unusable \/ Raises
    \/ RaiseTransportError \/ ReadCorruptMember \/ RaiseParseError
    \/ FinishStores \/ RaiseValueError \/ FinishPriceFull

Ended == pc \in {"done", "given_up", "aborted"} /\ UNCHANGED vars

Next == RunStep \/ DropSession \/ Ended

\* The program itself runs; nothing is assumed of the portal.
Spec == Init /\ [][Next]_vars /\ WF_vars(RunStep)

-----------------------------------------------------------------------------
Names == {row.name : row \in UNION {{rows[n] : n \in DOMAIN rows} : rows \in Listings}}

TypeOK ==
    /\ pc \in {"login", "discover", "request", "process", "done", "given_up", "aborted"}
    /\ operation \in {InitialLogin, Listing} \cup Files
    /\ loggedIn \in BOOLEAN /\ sessionValid \in BOOLEAN /\ retried \in BOOLEAN
    /\ attempt \in 0..LOGIN_RETRY_ATTEMPTS
    /\ relogins \in Nat
    /\ answer \in AllAnswers \cup {None, "served", "rejected"}
    /\ listing \in Listings \cup {<<>>}
    /\ pc = "process" => source # None /\ body # None
    /\ outcomes \in Seq([source : Names \cup {None}, failed_stage : FailedStages \cup {None},
                         classification : Classifications \cup {None}])
    /\ DOMAIN collected \subseteq DOMAIN outcomes

\* "Exactly one fresh login is attempted and the failed operation is retried
\* exactly once": no operation has more than one of the run's re-logins,
\* however often the portal drops the session.
ReloginsAreBounded == relogins <= operation + 1

PriceFulls == DOMAIN collected \ {StoresFile}

\* What is returned as a store's prices is that store's, whatever the listing
\* names and the file contains: its file was found under the store's id, and
\* the document agrees with every id of that name, as strings or, for the
\* store of an online document, as numbers.  And no price of it makes the
\* normalization raise ("upstream validation should have prevented this",
\* normalize/rami_levy.py); an item's quantity, unit and name still may.
PricesAreUsable ==
    \A n \in PriceFulls :
        LET store == Requested[n - 1]
            given == outcomes[n].source.ids
            found == collected[n].ids
        IN /\ given.store_id = store
           /\ \/ found.store_id = store
              \/ collected[n].family = "online" /\ SameNumber(found.store_id, store)
           /\ \A key \in DOMAIN given \ {"store_id"} : found[key] = given[key]
           /\ \A k \in DOMAIN collected[n].items :
                "price" \notin NotNormalizable(collected[n].items[k])

\* The outcome of the Stores file tells its payload, which is returned also
\* when it was rejected: only a file classified as having records succeeds,
\* nothing is returned of one that did not parse, and a success has no two
\* records of one store.
StoresOutcomeTellsPayload ==
    outcomes # <<>> =>
        LET outcome == outcomes[StoresFile]
        IN /\ StoresFile \in DOMAIN collected <=> outcome.classification # None
           /\ StoresFile \in DOMAIN collected =>
                (outcome.classification = "RECOGNIZED_NONEMPTY"
                    <=> collected[StoresFile] # <<>>)
           /\ Succeeded(outcome) =>
                /\ outcome.classification = "RECOGNIZED_NONEMPTY"
                /\ \A n, k \in DOMAIN collected[StoresFile] :
                     collected[StoresFile][n].store_id = collected[StoresFile][k].store_id
                       => n = k

Summary ==
    IF pc \in {"done", "given_up", "aborted"} THEN pc
    ELSE IF operation \in Files THEN "running" ELSE "starting"

Successes == [n \in DOMAIN outcomes |-> Succeeded(outcomes[n])]

Run == INSTANCE CollectionRun
         WITH status <- Summary,
              Count <- Len(Requested) + 1,
              outcomes <- Successes,
              collected <- DOMAIN collected

\* The run is a CollectionRun: unless an exception escapes, run-level
\* failures happen only before the first file, after which each file has its
\* own outcome; and it ends, whatever the portal answers.
ImplementsCollectionRun == Run!Spec

\* "One PriceFull file's discovery/download/transport/parse/validation
\* failure does not prevent any other requested store's PriceFull file from
\* being attempted" (run.py).
FileFailuresAreIsolated ==
    pc = "aborted" => operation \notin 2..Len(Requested)

=============================================================================
