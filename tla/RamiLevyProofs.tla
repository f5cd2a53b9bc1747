---------------------------- MODULE RamiLevyProofs ----------------------------
(***************************************************************************)
(* Proofs about RamiLevyRun, for any requested stores, listings and files: *)
(* what a dropped session costs, which file is asked for, and what the     *)
(* outcomes and the payloads of a run say of each other.                   *)
(***************************************************************************)
EXTENDS RamiLevyRun, TLAPS, WellFoundedInduction

-----------------------------------------------------------------------------
(* Discovery: the latest row is one of the candidates.                     *)

\* A nonempty set of natural numbers has a least element.
LEMMA LeastNatural ==
    ASSUME NEW T, T \subseteq Nat, T # {}
    PROVE  \E x \in T : \A y \in T : x <= y
<1>1. PICK x \in T : \A y \in T : ~(<<y, x>> \in OpToRel(<, Nat))
  BY NatLessThanWellFounded, WFMin
<1>2. \A y \in T : ~(y < x)
  BY <1>1 DEF OpToRel
<1> QED BY <1>2

\* Finitely many times have an upper bound: otherwise take the shortest
\* prefix that has none.
LEMMA TimesAreBounded ==
    ASSUME NEW rows, ListingAssumption(rows)
    PROVE  \E bound \in Nat : \A n \in DOMAIN rows : rows[n].time <= bound
<1>1. Len(rows) \in Nat /\ DOMAIN rows = 1..Len(rows)
      /\ \A n \in DOMAIN rows : rows[n].time \in Nat
  BY DEF ListingAssumption, IsSequence
<1> DEFINE Bounded(l) == \E bound \in Nat : \A n \in 1..l : rows[n].time <= bound
           T == {l \in 0..Len(rows) : ~Bounded(l)}
<1>2. SUFFICES ASSUME T # {} PROVE FALSE
  <2>1. Len(rows) \in 0..Len(rows)
    BY <1>1
  <2>2. Bounded(Len(rows))
    BY <1>2, <2>1
  <2> QED BY <1>1, <2>2
<1>3. PICK l \in T : \A k \in T : l <= k
  <2>1. T \subseteq Nat
    BY <1>1
  <2> QED BY <1>2, <2>1, LeastNatural
<1>4. l \in 0..Len(rows) /\ ~Bounded(l)
  BY <1>3
<1>5. l # 0
  <2>1. \A n \in 1..0 : rows[n].time <= 0
    OBVIOUS
  <2>2. Bounded(0)
    BY <2>1
  <2> QED BY <1>4, <2>2
<1> HIDE DEF T
<1>6. l \in 1..Len(rows) /\ l - 1 \in 0..Len(rows) /\ ~(l <= l - 1)
  BY <1>1, <1>4, <1>5
<1>7. PICK bound \in Nat : \A n \in 1..(l - 1) : rows[n].time <= bound
  <2>1. l - 1 \notin T
    BY <1>3, <1>6
  <2> QED BY <1>6, <2>1 DEF T
<1>8. rows[l].time \in Nat
  BY <1>1, <1>6
<1>9. PICK higher \in Nat : bound <= higher /\ rows[l].time <= higher
  <2>1. CASE bound <= rows[l].time
    BY <1>8, <2>1
  <2>2. CASE rows[l].time <= bound
    BY <1>8, <2>2
  <2> QED BY <1>8, <2>1, <2>2
<1>10. ASSUME NEW n \in 1..l PROVE rows[n].time <= higher
  <2>1. CASE n = l
    BY <1>9, <2>1
  <2>2. CASE n # l
    <3>1. n \in 1..(l - 1) /\ n \in 1..Len(rows)
      BY <1>1, <1>6, <2>2
    <3>2. rows[n].time \in Nat /\ rows[n].time <= bound
      BY <1>1, <1>7, <3>1
    <3> QED BY <1>9, <3>2
  <2> QED BY <2>1, <2>2
<1> QED BY <1>4, <1>10

\* max() answers one of the rows it is given.
LEMMA LatestIsCandidate ==
    ASSUME NEW rows, ListingAssumption(rows),
           NEW candidates, candidates \subseteq DOMAIN rows, candidates # {}
    PROVE  Latest(rows, candidates) \in candidates
<1>1. DOMAIN rows \subseteq Nat /\ \A n \in DOMAIN rows : rows[n].time \in Nat
  BY DEF ListingAssumption, IsSequence
<1> DEFINE T == {t \in Nat : \A n \in candidates : rows[n].time <= t}
<1>2. PICK t \in T : \A u \in T : t <= u
  <2>1. T # {}
    BY TimesAreBounded
  <2> QED BY <2>1, LeastNatural
<1>3. \E n \in candidates : rows[n].time = t
  <2> SUFFICES ASSUME \A n \in candidates : rows[n].time # t PROVE FALSE
    OBVIOUS
  <2>1. \A n \in candidates : rows[n].time < t
    BY <1>1
  <2>2. t - 1 \in Nat
    BY <1>1, <2>1
  <2>3. t - 1 \in T
    BY <1>1, <2>1, <2>2
  <2> QED BY <1>2, <2>3
<1> DEFINE S == {n \in candidates : rows[n].time = t}
<1>4. PICK n \in S : \A k \in S : n <= k
  BY <1>1, <1>3, LeastNatural
<1>5. \A k \in candidates : \/ rows[k].time < rows[n].time
                            \/ rows[k].time = rows[n].time /\ n <= k
  BY <1>1, <1>4
<1> QED BY <1>4, <1>5 DEF Latest

-----------------------------------------------------------------------------
(* The inductive invariant.                                                *)

Active == pc \in {"login", "discover", "request", "process"}

Outcomes == [source : Names \cup {None}, failed_stage : FailedStages \cup {None},
             classification : Classifications \cup {None}]

\* No file is recorded before the listing, and then each one in turn.
PositionInv ==
    /\ operation \notin Files => outcomes = <<>> /\ DOMAIN collected = {}
    /\ Active /\ operation \in Files => Len(outcomes) = operation - 1
    /\ pc \in {"discover", "process"} => operation \in Files
    /\ pc = "request" => operation # InitialLogin

\* An operation's own re-login is the one it has marked as used.
RetryInv ==
    /\ operation = InitialLogin => relogins = 0 /\ ~retried
    /\ Active /\ operation # InitialLogin =>
         /\ relogins <= operation + 1
         /\ ~retried \/ pc = "discover" => relogins <= operation

\* A file that is asked for was discovered under the store's id, and the bytes
\* in hand are of its kind.
SourceInv ==
    /\ pc \in {"login", "request", "process"} /\ operation \in Files =>
         /\ source \in Names
         /\ operation # StoresFile =>
              /\ "store_id" \in DOMAIN source.ids
              /\ source.ids.store_id = Requested[operation - 1]
    /\ pc = "process" =>
         body \in IF operation = StoresFile THEN StoresBodies ELSE PriceFullBodies

IInv ==
    /\ TypeOK
    /\ PositionInv
    /\ RetryInv
    /\ SourceInv
    /\ ReloginsAreBounded
    /\ PricesAreUsable
    /\ StoresOutcomeTellsPayload

\* The positions of the files.
LEMMA FilePositions ==
    ASSUME RunAssumption
    PROVE  /\ Len(Requested) \in Nat
           /\ Files = 1..(Len(Requested) + 1) /\ Files \subseteq Nat
           /\ InitialLogin = -1 /\ Listing = 0 /\ StoresFile = 1
           /\ InitialLogin \notin Files /\ Listing \notin Files /\ 1 \in Files
BY DEF RunAssumption, Files, InitialLogin, Listing, StoresFile

\* A step that adds no outcome and returns nothing keeps what they say.
LEMMA ResultsKept ==
    ASSUME PricesAreUsable, StoresOutcomeTellsPayload, UNCHANGED results
    PROVE  PricesAreUsable' /\ StoresOutcomeTellsPayload'
BY DEF results, PricesAreUsable, PriceFulls, StoresOutcomeTellsPayload, Succeeded

\* The next file, or the end, follows a recorded outcome.
LEMMA RecordKeeps ==
    ASSUME RunAssumption, IInv, Active, operation \in Files,
           NEW from \in Names \cup {None},
           NEW stage \in FailedStages \cup {None},
           NEW classification \in Classifications \cup {None},
           Record(from, stage, classification), relogins' = relogins
    PROVE  /\ outcomes \in Seq(Outcomes) /\ outcomes' \in Seq(Outcomes)
           /\ operation \in Nat /\ Len(outcomes) = operation - 1
           /\ Len(outcomes') = operation
           /\ outcomes'[operation].source = from
           /\ outcomes'[operation].failed_stage = stage
           /\ outcomes'[operation].classification = classification
           /\ \A n \in DOMAIN outcomes : outcomes'[n] = outcomes[n]
           /\ DOMAIN outcomes = 1..(operation - 1)
           /\ DOMAIN outcomes' = 1..operation
           /\ pc' \in {"discover", "done"}
           /\ operation' \in Files /\ UNCHANGED <<retried, attempt>>
           /\ PositionInv' /\ RetryInv' /\ SourceInv' /\ ReloginsAreBounded'
<1> DEFINE o == [source |-> from, failed_stage |-> stage,
                 classification |-> classification]
<1>1. operation \in Nat /\ operation \in 1..(Len(Requested) + 1)
      /\ Len(Requested) \in Nat
  BY FilePositions
<1>2. /\ outcomes \in Seq(Outcomes) /\ Len(outcomes) = operation - 1
      /\ o \in Outcomes /\ outcomes' = Append(outcomes, o)
  BY DEF IInv, TypeOK, PositionInv, Record, Outcomes
<1>3. /\ outcomes' \in Seq(Outcomes) /\ Len(outcomes') = operation
      /\ outcomes'[operation] = o
      /\ \A n \in DOMAIN outcomes : outcomes'[n] = outcomes[n]
      /\ DOMAIN outcomes = 1..(operation - 1)
      /\ DOMAIN outcomes' = 1..operation
  BY <1>1, <1>2
<1>4. /\ outcomes'[operation].source = from
      /\ outcomes'[operation].failed_stage = stage
      /\ outcomes'[operation].classification = classification
  BY <1>3
<1>5. /\ pc' \in {"discover", "done"} /\ UNCHANGED <<retried, attempt>>
      /\ pc' = "discover" => operation' = operation + 1
      /\ pc' = "done" => operation' = operation
      /\ operation' \in Files
  BY <1>1, FilePositions DEF Record, NextFile
<1>6. operation' # InitialLogin /\ operation # InitialLogin
  BY <1>5, FilePositions
<1>7. PositionInv'
  <2>1. pc' = "discover" => Len(outcomes') = operation' - 1
    BY <1>1, <1>3, <1>5
  <2> QED BY <1>5, <2>1 DEF PositionInv, Active
<1>8. SourceInv'
  BY <1>5 DEF SourceInv
<1>9. relogins \in Nat /\ relogins <= operation + 1
  BY <1>6 DEF IInv, TypeOK, RetryInv
<1>10. RetryInv' /\ ReloginsAreBounded'
  <2>1. pc' = "discover" => relogins' <= operation' /\ relogins' <= operation' + 1
    BY <1>1, <1>5, <1>9
  <2>2. pc' = "done" => relogins' <= operation' + 1
    BY <1>1, <1>5, <1>9
  <2> QED BY <1>5, <1>6, <2>1, <2>2 DEF RetryInv, ReloginsAreBounded, Active
<1> QED BY <1>1, <1>2, <1>3, <1>4, <1>5, <1>7, <1>8, <1>10

\* A file that failed before its records were parsed leaves an outcome and no
\* payload.
LEMMA FailurePreserves ==
    ASSUME RunAssumption, IInv, Active, operation \in Files,
           NEW from \in Names \cup {None}, NEW stage \in FailedStages,
           Record(from, stage, None),
           UNCHANGED <<relogins, listing, collected>>,
           loggedIn' \in BOOLEAN, sessionValid' \in BOOLEAN,
           answer' \in AllAnswers \cup {None, "served", "rejected"}
    PROVE  IInv'
<1>1. TypeOK'
  <2>1. DOMAIN collected' \subseteq DOMAIN outcomes'
    <3>1. DOMAIN outcomes \subseteq DOMAIN outcomes'
      BY RecordKeeps
    <3> QED BY <3>1 DEF IInv, TypeOK
  <2> QED BY <2>1, RecordKeeps DEF IInv, TypeOK, Outcomes
<1>2. stage # None
  BY DEF RunAssumption
<1>3. DOMAIN collected \subseteq 1..(operation - 1)
      /\ \A n \in DOMAIN collected : outcomes'[n] = outcomes[n]
  BY RecordKeeps DEF IInv, TypeOK
<1>4. PricesAreUsable'
  BY <1>3 DEF IInv, PricesAreUsable, PriceFulls
<1>5. StoresOutcomeTellsPayload'
  <2>1. CASE operation = 1
    <3>1. 1 \notin DOMAIN collected'
      BY <1>3, <2>1
    <3>2. outcomes'[1].classification = None /\ ~Succeeded(outcomes'[1])
      BY <1>2, <2>1, RecordKeeps DEF Succeeded
    <3> QED BY <3>1, <3>2 DEF StoresOutcomeTellsPayload, StoresFile
  <2>2. CASE operation # 1
    <3>1. outcomes # <<>> /\ outcomes'[1] = outcomes[1]
      BY <2>2, RecordKeeps
    <3> QED BY <3>1 DEF IInv, StoresOutcomeTellsPayload, StoresFile, Succeeded
  <2> QED BY <2>1, <2>2
<1> QED BY <1>1, <1>4, <1>5, RecordKeeps DEF IInv

\* A run that ends early keeps what it has.
LEMMA EndPreserves ==
    ASSUME RunAssumption, IInv, pc' \in {"given_up", "aborted"},
           UNCHANGED <<control, relogins, listing, results>>,
           loggedIn' \in BOOLEAN, sessionValid' \in BOOLEAN,
           answer' \in AllAnswers \cup {None, "served", "rejected"}
    PROVE  IInv'
<1> USE DEF IInv, control, file, results
<1>1. TypeOK'
  BY DEF TypeOK
<1>2. PositionInv' /\ RetryInv' /\ SourceInv'
  BY DEF PositionInv, RetryInv, SourceInv, Active
<1>3. ReloginsAreBounded' /\ PricesAreUsable' /\ StoresOutcomeTellsPayload'
  BY ResultsKept DEF ReloginsAreBounded
<1> QED BY <1>1, <1>2, <1>3

\* A caught error of an operation is the file's failure, or the run's.
LEMMA OperationFailsPreserves ==
    ASSUME RunAssumption, IInv, pc \in {"login", "request"}, OperationFails,
           UNCHANGED <<relogins, listing>>,
           loggedIn' \in BOOLEAN, sessionValid' \in BOOLEAN,
           answer' \in AllAnswers \cup {None, "served", "rejected"}
    PROVE  IInv'
<1>1. CASE operation \in Files
  <2>1. Active /\ source \in Names \cup {None} /\ "download" \in FailedStages
    BY <1>1 DEF Active, IInv, SourceInv, FailedStages
  <2>2. Record(source, "download", None) /\ collected' = collected
    BY <1>1 DEF OperationFails
  <2> QED BY <1>1, <2>1, <2>2, FailurePreserves
<1>2. CASE operation \notin Files
  BY <1>2, EndPreserves DEF OperationFails
<1> QED BY <1>1, <1>2

-----------------------------------------------------------------------------
(* The steps within one file, in the order of RunStep.                     *)

\* A name in a listing is one of the names.
LEMMA ListedNames ==
    ASSUME RunAssumption, NEW rows \in Listings, NEW n \in DOMAIN rows
    PROVE  rows[n].name \in Names /\ rows[n].name # None
BY DEF Names, RunAssumption, ListingAssumption

\* A login that succeeds leads to the request it was made for.
LEMMA LoginPreserves ==
    ASSUME RunAssumption, IInv, LoginSucceeds PROVE IInv'
<1> USE DEF IInv
<1>1. /\ pc = "login" /\ pc' = "request"
      /\ operation' = IF operation = InitialLogin THEN Listing ELSE operation
      /\ UNCHANGED <<retried, attempt, source, body, relogins, listing, results>>
      /\ loggedIn' = TRUE /\ sessionValid' = TRUE /\ answer' = "served"
  BY DEF LoginSucceeds, file
<1>2. TypeOK'
  BY <1>1 DEF TypeOK, results
<1>3. CASE operation = InitialLogin
  <2>1. /\ operation' = 0 /\ operation' \notin Files /\ operation \notin Files
        /\ operation' # InitialLogin /\ relogins' = 0
    BY <1>1, <1>3, FilePositions DEF RetryInv
  <2>2. PositionInv' /\ RetryInv' /\ SourceInv' /\ ReloginsAreBounded'
    BY <1>1, <2>1 DEF PositionInv, RetryInv, SourceInv, Active, results,
                      ReloginsAreBounded
  <2> QED BY <1>1, <1>2, <2>2, ResultsKept
<1>4. CASE operation # InitialLogin
  <2>1. operation' = operation
    BY <1>1, <1>4
  <2>2. PositionInv' /\ RetryInv' /\ SourceInv' /\ ReloginsAreBounded'
    BY <1>1, <1>4, <2>1 DEF PositionInv, RetryInv, SourceInv, Active, results,
                            ReloginsAreBounded
  <2> QED BY <1>1, <1>2, <2>2, ResultsKept
<1> QED BY <1>3, <1>4

\* A login that fails is tried once more, and then ends the operation.
LEMMA LoginUnreachablePreserves ==
    ASSUME RunAssumption, IInv, LoginUnreachable PROVE IInv'
<1>1. /\ pc = "login" /\ answer' = "unreachable" /\ sessionValid' \in BOOLEAN
      /\ UNCHANGED <<relogins, listing>>
  BY DEF LoginUnreachable, IInv, TypeOK
<1>2. CASE attempt + 1 < LOGIN_RETRY_ATTEMPTS
  <2>1. /\ attempt' = attempt + 1
        /\ UNCHANGED <<pc, operation, retried, source, body, loggedIn, results>>
    BY <1>2 DEF LoginUnreachable, file
  <2>2. TypeOK'
    BY <1>1, <1>2, <2>1 DEF IInv, TypeOK, AllAnswers, LOGIN_RETRY_ATTEMPTS, results
  <2>3. PositionInv' /\ RetryInv' /\ SourceInv' /\ ReloginsAreBounded'
    BY <1>1, <2>1 DEF IInv, PositionInv, RetryInv, SourceInv, ReloginsAreBounded,
                      Active, results
  <2> QED BY <2>1, <2>2, <2>3, ResultsKept DEF IInv
<1>3. CASE ~(attempt + 1 < LOGIN_RETRY_ATTEMPTS)
  <2>1. loggedIn' = FALSE /\ OperationFails
    BY <1>3 DEF LoginUnreachable
  <2> QED BY <1>1, <2>1, OperationFailsPreserves DEF AllAnswers
<1> QED BY <1>2, <1>3

\* The file that is discovered is one of the store's, since the latest row is one
\* of the candidates.
LEMMA DiscoverPreserves ==
    ASSUME RunAssumption, IInv, Discover PROVE IInv'
<1> USE DEF IInv
<1> DEFINE n == Latest(listing, Candidates)
<1>1. /\ pc = "discover" /\ Candidates # {} /\ source' = listing[n].name
      /\ pc' \in {"request", "login"} /\ retried' = FALSE /\ attempt' = 0
      /\ UNCHANGED <<operation, body, session, answer, listing, results>>
      /\ operation \in Files /\ operation # InitialLogin
  BY FilePositions DEF Discover, PositionInv
<1>2. Candidates \subseteq DOMAIN listing
  BY DEF Candidates, StoresRows, PriceFullRows
<1>3. listing \in Listings
  BY <1>1, <1>2 DEF TypeOK
<1>4. n \in Candidates /\ n \in DOMAIN listing
  BY <1>1, <1>2, <1>3, LatestIsCandidate DEF RunAssumption
<1>5. source' \in Names
  BY <1>1, <1>3, <1>4, ListedNames
<1>6. operation # StoresFile =>
        "store_id" \in DOMAIN source'.ids /\ source'.ids.store_id = Requested[operation - 1]
  BY <1>1, <1>3, <1>4 DEF Candidates, PriceFullRows, RunAssumption, ListingAssumption
<1>7. TypeOK'
  <2>1. UNCHANGED <<operation, loggedIn, sessionValid, relogins, answer, listing,
                    outcomes, collected>>
    BY <1>1 DEF session, results
  <2>2. /\ pc' \in {"login", "discover", "request", "process", "done", "given_up",
                    "aborted"}
        /\ pc' # "process" /\ retried' \in BOOLEAN
    BY <1>1
  <2>3. attempt' \in 0..LOGIN_RETRY_ATTEMPTS
    BY <1>1 DEF LOGIN_RETRY_ATTEMPTS
  <2> QED BY <2>1, <2>2, <2>3 DEF TypeOK
<1>8. PositionInv'
  BY <1>1 DEF PositionInv, Active, results
<1>9. SourceInv'
  BY <1>1, <1>5, <1>6 DEF SourceInv
<1>10. RetryInv' /\ ReloginsAreBounded'
  BY <1>1 DEF RetryInv, ReloginsAreBounded, Active, session
<1> QED BY <1>1, <1>7, <1>8, <1>9, <1>10, ResultsKept

\* A request that is answered, and a session that is dropped between requests.
LEMMA ServePreserves ==
    ASSUME RunAssumption, IInv, ServeListing \/ ServeFile \/ DropSession PROVE IInv'
<1> USE DEF IInv
<1>1. ASSUME ServeListing PROVE IInv'
  <2>1. /\ operation = 0 /\ operation' = 1 /\ pc' = "discover" /\ listing' \in Listings
        /\ answer' = "served" /\ source' = None /\ body' = None
        /\ UNCHANGED <<retried, attempt, session, results>>
        /\ operation \notin Files /\ operation' \in Files /\ operation # InitialLogin
        /\ operation' # InitialLogin /\ pc = "request"
    BY <1>1, FilePositions DEF ServeListing, NextFile
  <2>2. outcomes = <<>> /\ DOMAIN collected = {}
    BY <2>1 DEF PositionInv
  <2>3. TypeOK'
    BY <2>1 DEF TypeOK, session, results
  <2>4. PositionInv' /\ SourceInv'
    BY <2>1, <2>2 DEF PositionInv, SourceInv, results, Active
  <2>5. RetryInv' /\ ReloginsAreBounded'
    BY <2>1 DEF RetryInv, ReloginsAreBounded, Active, session, TypeOK
  <2> QED BY <2>1, <2>3, <2>4, <2>5, ResultsKept
<1>2. ASSUME ServeFile PROVE IInv'
  <2>1. /\ pc = "request" /\ pc' = "process" /\ operation \in Files /\ answer' = "served"
        /\ body' \in IF operation = StoresFile THEN StoresBodies ELSE PriceFullBodies
        /\ UNCHANGED <<operation, retried, attempt, source, session, listing, results>>
    BY <1>2 DEF ServeFile
  <2>2. source # None /\ body' # None
    BY <2>1, ListedNames DEF SourceInv, RunAssumption, Names
  <2>3. TypeOK'
    BY <2>1, <2>2 DEF TypeOK, session, results
  <2>4. PositionInv' /\ SourceInv'
    BY <2>1 DEF PositionInv, SourceInv, results, Active
  <2>5. RetryInv' /\ ReloginsAreBounded'
    BY <2>1 DEF RetryInv, ReloginsAreBounded, Active, session
  <2> QED BY <2>1, <2>3, <2>4, <2>5, ResultsKept
<1>3. ASSUME DropSession PROVE IInv'
  <2> USE <1>3 DEF DropSession, control, file, results
  <2>1. TypeOK'
    BY DEF TypeOK
  <2>2. PositionInv' /\ SourceInv' /\ RetryInv' /\ ReloginsAreBounded'
    BY DEF PositionInv, SourceInv, RetryInv, ReloginsAreBounded, Active
  <2> QED BY <2>1, <2>2, ResultsKept
<1> QED BY <1>1, <1>2, <1>3

\* The first expiry costs the operation its re-login, the second one ends it.
LEMMA ExpiredPreserves ==
    ASSUME RunAssumption, IInv, Expired PROVE IInv'
<1>1. /\ pc = "request" /\ answer' = "login_page"
      /\ UNCHANGED <<loggedIn, sessionValid, listing>>
      /\ operation # InitialLogin
  BY DEF Expired, IInv, PositionInv
<1>2. CASE retried
  <2>1. OperationFails /\ relogins' = relogins
    BY <1>2 DEF Expired
  <2> QED BY <1>1, <2>1, OperationFailsPreserves DEF AllAnswers, IInv, TypeOK
<1>3. CASE ~retried
  <2>1. /\ relogins' = relogins + 1 /\ retried' = TRUE /\ attempt' = 0 /\ pc' = "login"
        /\ UNCHANGED <<operation, source, body, results>>
    BY <1>3 DEF Expired, file
  <2>2. relogins \in Nat /\ relogins <= operation
    BY <1>1, <1>3 DEF IInv, TypeOK, RetryInv, Active
  <2>3. operation \in Int
    BY FilePositions DEF IInv, TypeOK
  <2>4. relogins' \in Nat /\ relogins' <= operation' + 1
    BY <2>1, <2>2, <2>3
  <2>5. TypeOK'
    BY <1>1, <2>1, <2>4 DEF IInv, TypeOK, results, AllAnswers, LOGIN_RETRY_ATTEMPTS
  <2>6. PositionInv' /\ SourceInv'
    BY <1>1, <2>1 DEF IInv, PositionInv, SourceInv, results, Active
  <2>7. RetryInv' /\ ReloginsAreBounded'
    BY <1>1, <2>1, <2>4 DEF RetryInv, ReloginsAreBounded
  <2> QED BY <2>1, <2>5, <2>6, <2>7, ResultsKept DEF IInv
<1> QED BY <1>2, <1>3

-----------------------------------------------------------------------------
(* The bytes of a file.                                                    *)

\* A file whose records were parsed, and returned, leaves an outcome; no later
\* file replaces its payload.
LEMMA ReturnKeeps ==
    ASSUME RunAssumption, IInv, pc = "process",
           NEW payload, NEW stage \in FailedStages \cup {None},
           NEW classification \in Classifications \cup {None},
           Return(payload), Record(source, stage, classification),
           UNCHANGED <<session, answer, listing>>
    PROVE  /\ Active /\ operation \in Files /\ source \in Names \cup {None}
           /\ DOMAIN collected' = DOMAIN collected \cup {operation}
           /\ collected'[operation] = payload
           /\ \A n \in DOMAIN collected :
                n # operation /\ collected'[n] = collected[n]
                /\ outcomes'[n] = outcomes[n]
           /\ TypeOK'
<1>1. Active /\ operation \in Files /\ source \in Names \cup {None}
      /\ relogins' = relogins
  BY DEF Active, IInv, PositionInv, SourceInv, session
<1>2. /\ DOMAIN collected' = DOMAIN collected \cup {operation}
      /\ collected'[operation] = payload
      /\ \A n \in DOMAIN collected : n # operation => collected'[n] = collected[n]
  BY DEF Return
<1>3. DOMAIN collected \subseteq 1..(operation - 1) /\ operation \in Nat
  BY <1>1, RecordKeeps DEF IInv, TypeOK
<1>4. operation \notin DOMAIN collected
      /\ \A n \in DOMAIN collected : outcomes'[n] = outcomes[n]
  BY <1>1, <1>3, RecordKeeps
<1>5. TypeOK'
  <2>1. DOMAIN collected' \subseteq DOMAIN outcomes'
    <3>1. DOMAIN outcomes' = 1..operation
      BY <1>1, RecordKeeps
    <3>2. 1..(operation - 1) \subseteq 1..operation /\ operation \in 1..operation
      BY <1>1, <1>3 DEF Files, RunAssumption
    <3> QED BY <1>2, <1>3, <3>1, <3>2
  <2> QED BY <1>1, <2>1, RecordKeeps DEF IInv, TypeOK, Outcomes, session
<1> QED BY <1>1, <1>2, <1>4, <1>5

\* The classification and the records of a Stores file come from one document.
LEMMA ClassificationOfRecords ==
    ASSUME RunAssumption, NEW stores \in StoresBodies
    PROVE  /\ Classify(stores.doc) \in Classifications
           /\ Classify(stores.doc) # None
           /\ Classify(stores.doc) = "RECOGNIZED_NONEMPTY"
                <=> StoreRecords(stores.doc) # <<>>
<1> DEFINE doc == stores.doc
<1>1. Classify(doc) \in Classifications
      /\ (Classify(doc) = "RECOGNIZED_NONEMPTY" <=> doc.stores # <<>>)
  BY DEF Classify, Classifications
<1>2. Classify(doc) # None
  BY <1>1 DEF RunAssumption
<1>3. /\ Len(doc.stores) \in Nat
      /\ doc.stores = [n \in 1..Len(doc.stores) |-> doc.stores[n]]
      /\ DOMAIN StoreRecords(doc) = 1..Len(doc.stores)
  BY DEF RunAssumption, IsSequence, StoreRecords
<1>4. CASE Len(doc.stores) = 0
  <2>1. doc.stores = <<>> /\ StoreRecords(doc) = <<>>
    BY <1>3, <1>4 DEF StoreRecords
  <2> QED BY <1>1, <1>2, <2>1
<1>5. CASE Len(doc.stores) # 0
  <2>1. 1 \in 1..Len(doc.stores)
    BY <1>3, <1>5
  <2>2. doc.stores # <<>> /\ StoreRecords(doc) # <<>>
    BY <1>3, <2>1
  <2> QED BY <1>1, <1>2, <2>2
<1> QED BY <1>4, <1>5

\* The Stores file: its outcome and its records come from one document.
LEMMA StoresPreserves ==
    ASSUME RunAssumption, IInv, FinishStores PROVE IInv'
<1> DEFINE records == StoreRecords(body.doc)
           stage == Stage(StoresRejected(records))
           classification == Classify(body.doc)
<1>1. /\ pc = "process" /\ operation = 1 /\ operation = StoresFile
      /\ Return(records) /\ Record(source, stage, classification)
      /\ UNCHANGED <<session, answer, listing>> /\ relogins' = relogins
      /\ stage \in FailedStages \cup {None}
      /\ body \in StoresBodies
  BY DEF FinishStores, StoresFile, Stage, FailedStages, session, IInv, SourceInv
<1>2. /\ classification \in Classifications /\ classification # None
      /\ classification = "RECOGNIZED_NONEMPTY" <=> records # <<>>
  BY <1>1, ClassificationOfRecords
<1> HIDE DEF records, stage, classification
<1>3. /\ Active /\ operation \in Files /\ source \in Names \cup {None}
      /\ DOMAIN collected' = DOMAIN collected \cup {1}
      /\ collected'[1] = records
      /\ \A n \in DOMAIN collected :
           n # 1 /\ collected'[n] = collected[n] /\ outcomes'[n] = outcomes[n]
      /\ TypeOK'
  BY <1>1, <1>2, ReturnKeeps
<1>4. /\ outcomes'[1].failed_stage = stage
      /\ outcomes'[1].classification = classification
      /\ PositionInv' /\ RetryInv' /\ SourceInv' /\ ReloginsAreBounded'
  BY <1>1, <1>2, <1>3, RecordKeeps
<1>5. PricesAreUsable'
  BY <1>1, <1>3 DEF IInv, PricesAreUsable, PriceFulls, StoresFile
<1>6. Succeeded(outcomes'[1]) => ~StoresRejected(records)
  BY <1>4 DEF Succeeded, stage, Stage, RunAssumption, FailedStages
<1>7. StoresOutcomeTellsPayload'
  <2>1. Succeeded(outcomes'[1]) =>
          /\ outcomes'[1].classification = "RECOGNIZED_NONEMPTY"
          /\ \A n, k \in DOMAIN records :
               records[n].store_id = records[k].store_id => n = k
    BY <1>2, <1>4, <1>6 DEF StoresRejected
  <2> QED BY <1>2, <1>3, <1>4, <2>1 DEF StoresOutcomeTellsPayload, StoresFile, Succeeded
<1> QED BY <1>3, <1>4, <1>5, <1>7 DEF IInv

\* A PriceFull file: what the validation accepts agrees with the name it was
\* discovered under.
LEMMA PriceFullPreserves ==
    ASSUME RunAssumption, IInv, FinishPriceFull PROVE IInv'
<1> DEFINE payload == PriceFullRecords(body.doc)
           rejected == PriceFullRejected(payload, source)
           store == Requested[operation - 1]
<1>1. /\ pc = "process" /\ operation # 1 /\ operation # StoresFile /\ Active
      /\ operation \in Files /\ source \in Names
      /\ Record(source, Stage(rejected), None)
      /\ Stage(rejected) \in FailedStages \cup {None}
      /\ UNCHANGED <<session, answer, listing>> /\ relogins' = relogins
  BY DEF FinishPriceFull, StoresFile, Stage, FailedStages, session, IInv, SourceInv,
         PositionInv, Active
<1>2. CASE rejected
  <2>1. collected' = collected /\ Stage(rejected) = "validation"
        /\ "validation" \in FailedStages
    BY <1>2 DEF FinishPriceFull, Stage, FailedStages
  <2>2. Record(source, "validation", None)
    BY <1>1, <2>1
  <2> QED
    BY <1>1, <2>1, <2>2, FailurePreserves DEF session, IInv, TypeOK
<1>3. CASE ~rejected
  <2>1. Return(payload)
    BY <1>3 DEF FinishPriceFull
  <2>2. /\ DOMAIN collected' = DOMAIN collected \cup {operation}
        /\ collected'[operation] = payload
        /\ \A n \in DOMAIN collected :
             n # operation /\ collected'[n] = collected[n]
             /\ outcomes'[n] = outcomes[n]
        /\ TypeOK'
    BY <1>1, <2>1, ReturnKeeps
  <2>3. /\ outcomes'[operation].source = source
        /\ outcomes # <<>> /\ outcomes'[1] = outcomes[1]
        /\ PositionInv' /\ RetryInv' /\ SourceInv' /\ ReloginsAreBounded'
    BY <1>1, RecordKeeps
  <2>4. /\ "store_id" \in DOMAIN source.ids /\ source.ids.store_id = store
    BY <1>1 DEF IInv, SourceInv
  <2>5. /\ \A key \in DOMAIN source.ids :
             IdsMatch(key, source.ids[key], payload.ids[key], payload.family)
        /\ \A k \in DOMAIN payload.items : IsDecimal(payload.items[k].price)
    BY <1>3 DEF PriceFullRejected
  <2> HIDE DEF payload
  <2>6. \/ payload.ids.store_id = store
        \/ payload.family = "online" /\ SameNumber(payload.ids.store_id, store)
    BY <2>4, <2>5 DEF IdsMatch, SameNumber
  <2>7. \A key \in DOMAIN source.ids \ {"store_id"} :
          payload.ids[key] = source.ids[key]
    BY <2>5 DEF IdsMatch
  <2>8. \A k \in DOMAIN payload.items : "price" \notin NotNormalizable(payload.items[k])
    BY <2>5 DEF NotNormalizable
  <2>9. PricesAreUsable'
    <3> SUFFICES ASSUME NEW n \in PriceFulls'
                 PROVE  PricesAreUsable!(n)'
      BY DEF PricesAreUsable
    <3>1. CASE n = operation
      BY <2>2, <2>3, <2>4, <2>6, <2>7, <2>8, <3>1
    <3>2. CASE n # operation
      <4>1. n \in PriceFulls /\ collected'[n] = collected[n]
            /\ outcomes'[n] = outcomes[n]
        BY <2>2, <3>2 DEF PriceFulls
      <4> QED BY <4>1 DEF IInv, PricesAreUsable
    <3> QED BY <3>1, <3>2
  <2>10. StoresOutcomeTellsPayload'
    <3>1. 1 \in DOMAIN collected' <=> 1 \in DOMAIN collected
      BY <1>1, <2>2
    <3>2. 1 \in DOMAIN collected => collected'[1] = collected[1]
      BY <2>2
    <3>3. StoresOutcomeTellsPayload /\ outcomes # <<>> /\ outcomes'[1] = outcomes[1]
      BY <2>3 DEF IInv
    <3>4. CASE 1 \in DOMAIN collected
      <4>1. 1 \in DOMAIN collected' /\ collected'[1] = collected[1]
        BY <3>1, <3>2, <3>4
      <4> QED
        BY <3>3, <3>4, <4>1 DEF StoresOutcomeTellsPayload, StoresFile, Succeeded
    <3>5. CASE 1 \notin DOMAIN collected
      <4>1. 1 \notin DOMAIN collected'
        BY <3>1, <3>5
      <4>2. outcomes[1].classification = None /\ ~Succeeded(outcomes[1])
        BY <3>3, <3>5 DEF StoresOutcomeTellsPayload, StoresFile, RunAssumption,
                          Classifications
      <4> QED
        BY <3>3, <4>1, <4>2 DEF StoresOutcomeTellsPayload, StoresFile, Succeeded
    <3> QED BY <3>4, <3>5
  <2> QED BY <2>2, <2>3, <2>9, <2>10 DEF IInv
<1> QED BY <1>2, <1>3

-----------------------------------------------------------------------------
(* The runs.                                                               *)

\* The run begins with its first login and no outcome.
LEMMA InitInvariant == ASSUME RunAssumption PROVE Init => IInv
<1> SUFFICES ASSUME Init PROVE IInv
  OBVIOUS
<1>1. operation = InitialLogin /\ operation \notin Files /\ operation = -1
      /\ InitialLogin # StoresFile
  BY FilePositions DEF Init
<1>2. TypeOK
  <2>1. outcomes \in Seq(Outcomes) /\ DOMAIN collected \subseteq DOMAIN outcomes
    BY DEF Init
  <2>2. attempt \in 0..LOGIN_RETRY_ATTEMPTS /\ relogins \in Nat
    BY DEF Init, LOGIN_RETRY_ATTEMPTS
  <2>3. pc # "process" /\ operation \in {InitialLogin, Listing} \cup Files
    BY DEF Init
  <2>4. listing \in Listings \cup {<<>>}
        /\ answer \in AllAnswers \cup {None, "served", "rejected"}
    BY DEF Init
  <2>5. pc \in {"login", "discover", "request", "process", "done", "given_up", "aborted"}
        /\ loggedIn \in BOOLEAN /\ sessionValid \in BOOLEAN /\ retried \in BOOLEAN
    BY DEF Init
  <2> QED BY <2>1, <2>2, <2>3, <2>4, <2>5 DEF TypeOK, Outcomes
<1>3. PositionInv /\ RetryInv /\ SourceInv /\ ReloginsAreBounded
  BY <1>1 DEF Init, PositionInv, RetryInv, SourceInv, Active, ReloginsAreBounded
<1>4. PricesAreUsable /\ StoresOutcomeTellsPayload
  BY DEF Init, PricesAreUsable, PriceFulls, StoresOutcomeTellsPayload
<1> QED BY <1>2, <1>3, <1>4 DEF IInv

\* A failure within one file, or a run that ends early: the other steps of
\* RunStep have a lemma each.
FileFails ==
    /\ Active
    /\ operation \in Files
    /\ UNCHANGED <<session, answer, listing, collected>>
    /\ \E from \in Names \cup {None}, stage \in FailedStages : Record(from, stage, None)

RunEnds ==
    /\ Active
    /\ pc' = "aborted"
    /\ answer' \in AllAnswers \cup {None, "served", "rejected"}
    /\ UNCHANGED <<control, session, listing, results>>

OperationEnds ==
    /\ pc \in {"login", "request"}
    /\ OperationFails
    /\ answer' \in AllAnswers \cup {None, "served", "rejected"}
    /\ UNCHANGED <<session, listing>>

\* Every step is one that a lemma is about.
LEMMA StepCases ==
    ASSUME RunAssumption, IInv, [Next]_vars
    PROVE  \/ LoginSucceeds \/ LoginUnreachable \/ Discover
           \/ ServeListing \/ ServeFile \/ DropSession \/ Expired
           \/ FinishStores \/ FinishPriceFull
           \/ FileFails \/ RunEnds \/ OperationEnds
           \/ UNCHANGED vars
<1>1. pc \in {"discover", "process"} => operation \in Files
      /\ (pc = "process" => source \in Names \cup {None})
  BY DEF IInv, PositionInv, SourceInv
<1>2. ASSUME Unlisted PROVE FileFails
  <2>1. Active /\ Record(None, "discovery", None) /\ "discovery" \in FailedStages
    BY <1>2 DEF Unlisted, Active, FailedStages
  <2> QED BY <1>1, <1>2, <2>1 DEF FileFails, Unlisted
<1>3. ASSUME RaiseTransportError PROVE FileFails
  <2>1. Active /\ Record(source, "transport", None) /\ "transport" \in FailedStages
    BY <1>3 DEF RaiseTransportError, Active, FailedStages
  <2> QED BY <1>1, <1>3, <2>1 DEF FileFails, RaiseTransportError
<1>4. ASSUME RaiseParseError PROVE FileFails
  <2>1. Active /\ Record(source, "parse", None) /\ "parse" \in FailedStages
    BY <1>4 DEF RaiseParseError, Active, FailedStages
  <2> QED BY <1>1, <1>4, <2>1 DEF FileFails, RaiseParseError
<1>5. ASSUME LoginRejected \/ Unusable PROVE OperationEnds
  BY <1>5 DEF LoginRejected, Unusable, OperationEnds, AllAnswers
<1>6. ASSUME Raises \/ ReadCorruptMember \/ RaiseValueError PROVE RunEnds
  BY <1>6 DEF Raises, ReadCorruptMember, RaiseValueError, RunEnds, Active, RunAssumption, IInv, TypeOK
<1> QED
  BY <1>2, <1>3, <1>4, <1>5, <1>6 DEF Next, RunStep, Ended

\* Every step keeps the invariant, by the lemma about its case.
LEMMA StepInvariant ==
    ASSUME RunAssumption, IInv, [Next]_vars PROVE IInv'
<1>1. /\ loggedIn \in BOOLEAN /\ sessionValid \in BOOLEAN
      /\ answer \in AllAnswers \cup {None, "served", "rejected"}
  BY DEF IInv, TypeOK
<1>2. ASSUME FileFails PROVE IInv'
  <2>1. PICK from \in Names \cup {None}, stage \in FailedStages :
          Record(from, stage, None)
    BY <1>2 DEF FileFails
  <2>2. /\ Active /\ operation \in Files
        /\ UNCHANGED <<loggedIn, sessionValid, relogins, answer, listing, collected>>
    BY <1>2 DEF FileFails, session
  <2> QED BY <1>1, <2>1, <2>2, FailurePreserves
<1>3. ASSUME RunEnds PROVE IInv'
  BY <1>1, <1>3, EndPreserves DEF RunEnds, session
<1>4. ASSUME OperationEnds PROVE IInv'
  BY <1>1, <1>4, OperationFailsPreserves DEF OperationEnds, session
<1>5. ASSUME UNCHANGED vars PROVE IInv'
  <2> USE <1>5 DEF vars, control, file, session, results, IInv
  <2>1. TypeOK'
    BY DEF TypeOK
  <2>2. PositionInv' /\ RetryInv' /\ SourceInv' /\ ReloginsAreBounded'
    BY DEF PositionInv, RetryInv, SourceInv, ReloginsAreBounded, Active
  <2> QED BY <2>1, <2>2, ResultsKept
<1> QED
  BY <1>2, <1>3, <1>4, <1>5, StepCases, LoginPreserves, LoginUnreachablePreserves,
     DiscoverPreserves, ServePreserves, ExpiredPreserves, StoresPreserves,
     PriceFullPreserves

\* The invariant holds throughout a run.
LEMMA Invariant == ASSUME RunAssumption PROVE Spec => []IInv
<1>1. IInv /\ [Next]_vars => IInv'
  BY StepInvariant
<1> QED BY <1>1, InitInvariant, PTL DEF Spec

\* The run's state has its types: no file has been discovered, downloaded or
\* classified but by the code that does so, and what is returned belongs to
\* files that have an outcome.
THEOREM TypeCorrect == ASSUME RunAssumption PROVE Spec => []TypeOK
<1>1. IInv => TypeOK
  BY DEF IInv
<1> QED BY <1>1, Invariant, PTL

\* However often the portal drops the session, each operation of the run costs
\* at most one re-login: the listing's, and one for every file.
THEOREM FewRelogins == ASSUME RunAssumption PROVE Spec => []ReloginsAreBounded
<1>1. IInv => ReloginsAreBounded
  BY DEF IInv
<1> QED BY <1>1, Invariant, PTL

\* Whatever listing the portal serves, and whichever of its rows is the latest,
\* the prices returned for a store are the store's and can be normalized.
THEOREM PricesCanBeUsed == ASSUME RunAssumption PROVE Spec => []PricesAreUsable
<1>1. IInv => PricesAreUsable
  BY DEF IInv
<1> QED BY <1>1, Invariant, PTL

\* The outcome of the Stores file tells what was returned of it, to the end of
\* the run: no later file replaces its records.
THEOREM StoresOutcomeIsTold ==
    ASSUME RunAssumption PROVE Spec => []StoresOutcomeTellsPayload
<1>1. IInv => StoresOutcomeTellsPayload
  BY DEF IInv
<1> QED BY <1>1, Invariant, PTL

-----------------------------------------------------------------------------
(* The run is a CollectionRun.                                             *)

\* One more outcome is one more entry of what CollectionRun sees.
LEMMA RecordAppends ==
    ASSUME RunAssumption, IInv, Active, operation \in Files,
           NEW from \in Names \cup {None},
           NEW stage \in FailedStages \cup {None},
           NEW classification \in Classifications \cup {None},
           Record(from, stage, classification), relogins' = relogins
    PROVE  \E succeeded \in BOOLEAN :
             /\ succeeded <=> stage = None
             /\ Successes' = Append(Successes, succeeded)
             /\ Len(Successes) = operation - 1 /\ Len(Successes') = operation
<1>1. /\ outcomes \in Seq(Outcomes) /\ outcomes' \in Seq(Outcomes)
      /\ Len(outcomes') = operation /\ Len(outcomes) = operation - 1
      /\ operation \in Nat
      /\ outcomes'[operation].failed_stage = stage
      /\ \A n \in 1..(operation - 1) : outcomes'[n] = outcomes[n]
  BY RecordKeeps
<1>2. /\ Successes = [n \in 1..(operation - 1) |-> Succeeded(outcomes[n])]
      /\ Successes' = [n \in 1..operation |-> Succeeded(outcomes'[n])]
  BY <1>1 DEF Successes, Succeeded
<1>3. \A n \in Nat : Succeeded(outcomes[n]) \in BOOLEAN
                     /\ Succeeded(outcomes'[n]) \in BOOLEAN
  BY DEF Succeeded
<1>4. Successes \in Seq(BOOLEAN) /\ Successes' \in Seq(BOOLEAN)
      /\ Len(Successes) = operation - 1 /\ Len(Successes') = operation
  <2>1. operation - 1 \in Nat
    BY <1>1
  <2>2. /\ Successes \in [1..(operation - 1) -> BOOLEAN]
        /\ Successes' \in [1..operation -> BOOLEAN]
    BY <1>1, <1>2, <1>3
  <2>3. ASSUME NEW n \in Nat, NEW f \in [1..n -> BOOLEAN]
        PROVE  f \in Seq(BOOLEAN) /\ Len(f) = n
    OBVIOUS
  <2> QED BY <1>1, <2>1, <2>2, <2>3
<1>5. \A n \in 1..(operation - 1) : Successes'[n] = Successes[n]
  BY <1>1, <1>2
<1>6. Successes'[operation] = (stage = None)
  BY <1>1, <1>2 DEF Succeeded
<1>7. Successes' = Append(Successes, stage = None)
  BY <1>1, <1>4, <1>5, <1>6
<1> QED BY <1>4, <1>7

\* Recording an outcome moves the abstract run by one file.
LEMMA RecordRefines ==
    ASSUME RunAssumption, IInv, Active, operation \in Files,
           NEW from \in Names \cup {None},
           NEW stage \in FailedStages \cup {None},
           NEW classification \in Classifications \cup {None},
           Record(from, stage, classification), relogins' = relogins,
           \/ /\ DOMAIN collected' = DOMAIN collected /\ stage # None
           \/ /\ DOMAIN collected' = DOMAIN collected \cup {operation}
              /\ stage = None \/ operation = StoresFile
    PROVE  Run!Next
<1>1. /\ operation \in Nat /\ operation <= Len(Requested) + 1
      /\ Len(Requested) \in Nat
  BY FilePositions
<1>2. Summary = "running"
  BY DEF Summary, Active
<1>3. Summary' = IF operation = Len(Requested) + 1 THEN "done" ELSE "running"
  <2>1. operation' \in Files
    BY RecordKeeps
  <2> QED BY <2>1 DEF Record, NextFile, Summary
<1>4. PICK succeeded \in BOOLEAN :
             /\ succeeded <=> stage = None
             /\ Successes' = Append(Successes, succeeded)
             /\ Len(Successes) = operation - 1 /\ Len(Successes') = operation
  BY RecordAppends
<1>5. operation = StoresFile => Successes = <<>>
  <2>1. DOMAIN outcomes = 1..(operation - 1)
    BY RecordKeeps
  <2> QED BY <1>1, <2>1 DEF Successes, StoresFile
<1>6. ASSUME DOMAIN collected' = DOMAIN collected, stage # None
      PROVE  Run!Record(FALSE, FALSE)
  <2>1. ~succeeded
    BY <1>4, <1>6
  <2>2. Run!Record(succeeded, succeeded)
    BY <1>1, <1>2, <1>3, <1>4, <1>6, <2>1 DEF Run!Record
  <2>3. succeeded = FALSE
    BY <2>1, Zenon
  <2> QED BY <2>2, <2>3, Zenon
<1>7. ASSUME DOMAIN collected' = DOMAIN collected \cup {operation},
             stage = None \/ operation = StoresFile
      PROVE  \E returned \in BOOLEAN : Run!Record(succeeded, returned)
  <2>1. PICK returned \in BOOLEAN : returned
    OBVIOUS
  <2>2. Run!Record(succeeded, returned)
    BY <1>1, <1>2, <1>3, <1>4, <1>5, <1>7, <2>1 DEF Run!Record
  <2> QED BY <2>2
<1> QED BY <1>6, <1>7 DEF Run!Next

\* What CollectionRun sees stays the same while no outcome is added and the
\* run neither begins with its files nor ends.
LEMMA Stutters ==
    ASSUME UNCHANGED results,
           \/ Active /\ Active' /\ (operation' \in Files <=> operation \in Files)
           \/ pc' = pc /\ operation' = operation
    PROVE  UNCHANGED Run!vars
<1>1. Summary' = Summary
  BY DEF Summary, Active
<1>2. Successes' = Successes /\ DOMAIN collected' = DOMAIN collected
  BY DEF Successes, results, Succeeded
<1> QED BY <1>1, <1>2 DEF Run!vars

\* A caught error is the file's outcome, or makes the run give up.
LEMMA OperationFailsRefines ==
    ASSUME RunAssumption, IInv, pc \in {"login", "request"}, OperationFails,
           relogins' = relogins
    PROVE  Run!Next
<1>1. CASE operation \in Files
  <2>1. /\ Active /\ source \in Names \cup {None} /\ "download" \in FailedStages
        /\ Record(source, "download", None) /\ collected' = collected
        /\ "download" # None
    BY <1>1 DEF Active, IInv, SourceInv, FailedStages, OperationFails, RunAssumption
  <2> QED BY <1>1, <2>1, RecordRefines
<1>2. CASE operation \notin Files
  <2>1. pc' = "given_up" /\ UNCHANGED results
    BY <1>2 DEF OperationFails
  <2>2. Summary = "starting" /\ Summary' = "given_up"
    BY <1>2, <2>1 DEF Summary
  <2>3. Successes' = Successes /\ DOMAIN collected' = DOMAIN collected
    BY <2>1 DEF Successes, results, Succeeded
  <2> QED BY <2>2, <2>3 DEF Run!Next, Run!GiveUp
<1> QED BY <1>1, <1>2

\* Every step of a run is one of CollectionRun, or changes nothing it sees.
LEMMA StepRefines ==
    ASSUME RunAssumption, IInv, [Next]_vars
    PROVE  [Run!Next]_(Run!vars)
<1>1. ASSUME ServeListing PROVE Run!Next
  <2>1. /\ pc = "request" /\ pc' = "discover" /\ UNCHANGED results
        /\ operation \notin Files /\ operation' \in Files
    BY <1>1, FilePositions DEF ServeListing, NextFile
  <2>2. Summary = "starting" /\ Summary' = "running"
    BY <2>1 DEF Summary
  <2>3. Successes' = Successes /\ DOMAIN collected' = DOMAIN collected
    BY <2>1 DEF Successes, results, Succeeded
  <2> QED BY <2>2, <2>3 DEF Run!Next, Run!Start
<1>2. ASSUME LoginSucceeds \/ Discover \/ ServeFile \/ DropSession \/ UNCHANGED vars
      PROVE  UNCHANGED Run!vars
  <2>1. ASSUME LoginSucceeds PROVE UNCHANGED Run!vars
    <3>1. /\ Active /\ Active' /\ UNCHANGED results
          /\ operation' \in Files <=> operation \in Files
      BY <2>1, FilePositions DEF LoginSucceeds, Active
    <3> QED BY <3>1, Stutters
  <2>2. ASSUME Discover \/ ServeFile PROVE UNCHANGED Run!vars
    <3>1. Active /\ Active' /\ UNCHANGED results /\ operation' = operation
      BY <2>2 DEF Discover, ServeFile, Active
    <3> QED BY <3>1, Stutters
  <2>3. ASSUME DropSession \/ UNCHANGED vars PROVE UNCHANGED Run!vars
    <3>1. pc' = pc /\ operation' = operation /\ UNCHANGED results
      BY <2>3 DEF DropSession, vars, control
    <3> QED BY <3>1, Stutters
  <2> QED BY <1>2, <2>1, <2>2, <2>3
<1>3. ASSUME LoginUnreachable PROVE [Run!Next]_(Run!vars)
  <2>1. pc = "login" /\ relogins' = relogins
    BY <1>3 DEF LoginUnreachable
  <2>2. CASE attempt + 1 < LOGIN_RETRY_ATTEMPTS
    <3>1. pc' = pc /\ operation' = operation /\ UNCHANGED results
      BY <1>3, <2>2 DEF LoginUnreachable
    <3> QED BY <3>1, Stutters
  <2>3. CASE ~(attempt + 1 < LOGIN_RETRY_ATTEMPTS)
    <3>1. OperationFails
      BY <1>3, <2>3 DEF LoginUnreachable
    <3> QED BY <2>1, <3>1, OperationFailsRefines
  <2> QED BY <2>2, <2>3
<1>4. ASSUME Expired PROVE [Run!Next]_(Run!vars)
  <2>1. CASE retried
    <3>1. pc = "request" /\ OperationFails /\ relogins' = relogins
      BY <1>4, <2>1 DEF Expired
    <3> QED BY <3>1, OperationFailsRefines
  <2>2. CASE ~retried
    <3>1. Active /\ Active' /\ operation' = operation /\ UNCHANGED results
      BY <1>4, <2>2 DEF Expired, Active
    <3> QED BY <3>1, Stutters
  <2> QED BY <2>1, <2>2
<1>5. ASSUME FinishStores PROVE Run!Next
  <2> DEFINE records == StoreRecords(body.doc)
             stage == Stage(StoresRejected(records))
  <2>1. /\ pc = "process" /\ operation = StoresFile
        /\ Return(records) /\ Record(source, stage, Classify(body.doc))
        /\ UNCHANGED <<session, answer, listing>> /\ relogins' = relogins
        /\ stage \in FailedStages \cup {None}
        /\ Classify(body.doc) \in Classifications \cup {None}
    BY <1>5, ClassificationOfRecords
       DEF FinishStores, Stage, FailedStages, session, IInv, SourceInv
  <2> HIDE DEF records, stage
  <2>2. /\ Active /\ operation \in Files /\ source \in Names \cup {None}
        /\ DOMAIN collected' = DOMAIN collected \cup {operation}
    BY <2>1, ReturnKeeps
  <2> QED BY <2>1, <2>2, RecordRefines
<1>6. ASSUME FinishPriceFull PROVE Run!Next
  <2> DEFINE payload == PriceFullRecords(body.doc)
             rejected == PriceFullRejected(payload, source)
  <2>1. /\ pc = "process" /\ Active /\ operation \in Files
        /\ source \in Names \cup {None} /\ relogins' = relogins
        /\ Record(source, Stage(rejected), None)
        /\ Stage(rejected) \in FailedStages \cup {None}
        /\ UNCHANGED <<session, answer, listing>>
    BY <1>6 DEF FinishPriceFull, Stage, FailedStages, session, IInv, SourceInv,
                PositionInv, Active
  <2>2. CASE rejected
    <3>1. Stage(rejected) # None /\ DOMAIN collected' = DOMAIN collected
      BY <1>6, <2>2 DEF FinishPriceFull, Stage, RunAssumption, FailedStages
    <3> QED BY <2>1, <3>1, RecordRefines
  <2>3. CASE ~rejected
    <3>1. Stage(rejected) = None /\ Return(payload)
      BY <1>6, <2>3 DEF FinishPriceFull, Stage
    <3>2. DOMAIN collected' = DOMAIN collected \cup {operation}
      BY <2>1, <3>1, ReturnKeeps
    <3> QED BY <2>1, <3>1, <3>2, RecordRefines
  <2> QED BY <2>2, <2>3
<1>7. ASSUME FileFails PROVE Run!Next
  <2>1. PICK from \in Names \cup {None}, stage \in FailedStages :
          Record(from, stage, None)
    BY <1>7 DEF FileFails
  <2>2. /\ Active /\ operation \in Files /\ relogins' = relogins
        /\ DOMAIN collected' = DOMAIN collected /\ stage # None
    BY <1>7 DEF FileFails, session, RunAssumption
  <2> QED BY <2>1, <2>2, RecordRefines
<1>8. ASSUME RunEnds PROVE Run!Next
  <2>1. Active /\ pc' = "aborted" /\ UNCHANGED results
    BY <1>8 DEF RunEnds
  <2>2. Summary \in {"starting", "running"} /\ Summary' = "aborted"
    BY <2>1 DEF Summary, Active
  <2>3. Successes' = Successes /\ DOMAIN collected' = DOMAIN collected
    BY <2>1 DEF Successes, results, Succeeded
  <2> QED BY <2>2, <2>3 DEF Run!Next, Run!Abort
<1>9. ASSUME OperationEnds PROVE Run!Next
  BY <1>9, OperationFailsRefines DEF OperationEnds, session
<1> QED
  BY <1>1, <1>2, <1>3, <1>4, <1>5, <1>6, <1>7, <1>8, <1>9, StepCases

\* A run does nothing that CollectionRun does not promise: it gives up only
\* before the first file, after which each file in turn leaves one outcome,
\* with its payload when it succeeded (the safety part of
\* ImplementsCollectionRun).
THEOREM RunKeepsItsPromise ==
    ASSUME RunAssumption
    PROVE  Spec => Run!Init /\ [][Run!Next]_(Run!vars)
<1>1. Init => Run!Init
  BY FilePositions DEF Init, Run!Init, Summary, Successes
<1>2. IInv /\ [Next]_vars => [Run!Next]_(Run!vars)
  BY StepRefines
<1> QED BY <1>1, <1>2, Invariant, PTL DEF Spec

=============================================================================
