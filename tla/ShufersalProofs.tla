--------------------------- MODULE ShufersalProofs ---------------------------
(***************************************************************************)
(* Proofs about ShufersalRun, for any requested stores and any             *)
(* publications: what a run asks of the portal, and which bytes its        *)
(* outcomes and its payloads stand for.                                    *)
(***************************************************************************)
EXTENDS ShufersalRun, TLAPS

Active == pc \in {"discover", "download", "rediscover", "process"}

\* The files before the one in turn have their outcomes, and it has none.
JobInv ==
    /\ pc = "start" => job = 0 /\ outcomes = <<>>
    /\ Active => job \in Jobs /\ Len(outcomes) = job - 1
    /\ pc = "done" => Len(outcomes) = Len(Requested) + 1

\* Bytes are those of the last discovery, and the caller knows that discovery.
BodyInv ==
    /\ pc \in {"download", "process"} => current \in Discovered
    /\ pc = "process" => discovered = current /\ body = current.version
    /\ pc \in {"start", "discover", "download", "rediscover"} => body = None

\* How the requests made so far are spread over the listings taken so far.
RequestInv ==
    /\ requests \in Seq(Nat \X {"served", "rejected", "unreachable"})
    /\ \A m \in 1..Len(requests) : requests[m][1] <= listings
    /\ pc \in {"start", "discover", "done"} =>
         listings = 0 /\ requests = <<>>
    /\ pc = "discover" => remaining = 1
    /\ pc = "rediscover" => listings = 1 /\ remaining = 0 /\ Len(requests) <= 2
    /\ pc = "download" =>
         /\ current.listing = listings /\ listings + remaining = 2
         /\ Len(requests) <= 2 * (listings - 1) + attempt
         /\ \A m \in 1..Len(requests) :
              requests[m][2] = "rejected" => requests[m][1] # listings
    /\ pc = "process" => current.listing = listings

IInv ==
    /\ TypeOK
    /\ JobInv
    /\ BodyInv
    /\ RequestInv
    /\ RequestsAreBounded
    /\ OutcomeNamesParsedFile
    /\ PricesAreUsable

-----------------------------------------------------------------------------
\* A file that failed, or returned a payload, has one more outcome, and the
\* next file begins with nothing asked of the portal.
LEMMA RecordKeeps ==
    ASSUME RunAssumption, IInv, Active,
           NEW stage \in FailedStages \cup {None},
           Record(stage)
    PROVE  /\ outcomes \in Seq(Outcomes) /\ outcomes' \in Seq(Outcomes)
           /\ job \in Nat /\ Len(outcomes) = job - 1 /\ Len(outcomes') = job
           /\ outcomes'[job].source = SourceOf(discovered)
           /\ outcomes'[job].failed_stage = stage
           /\ \A n \in DOMAIN outcomes : outcomes'[n] = outcomes[n]
           /\ DOMAIN outcomes' = DOMAIN outcomes \cup {job}
           /\ DOMAIN outcomes = 1..(job - 1)
           /\ JobInv' /\ BodyInv' /\ RequestInv' /\ RequestsAreBounded'
           /\ OutcomeNamesParsedFile'
<1>1. Len(Requested) \in Nat
  BY DEF RunAssumption
<1>2. job \in Jobs /\ job \in Nat /\ Len(outcomes) = job - 1
  BY <1>1 DEF IInv, JobInv, Jobs
<1> DEFINE o == [source |-> SourceOf(discovered), failed_stage |-> stage,
                 parsed |-> NameOf(body)]
<1>3. SourceOf(discovered) \in Names \cup {None} /\ NameOf(body) \in Names \cup {None}
  BY DEF IInv, TypeOK, SourceOf, NameOf, Names, Discovered
<1>4. o \in Outcomes
  BY <1>3 DEF Outcomes
<1>5. outcomes' = Append(outcomes, o) /\ outcomes \in Seq(Outcomes)
  BY DEF Record, IInv, TypeOK
<1>6. /\ outcomes' \in Seq(Outcomes) /\ Len(outcomes') = job
      /\ outcomes'[job] = o
      /\ \A n \in DOMAIN outcomes : outcomes'[n] = outcomes[n]
      /\ DOMAIN outcomes' = DOMAIN outcomes \cup {job}
      /\ DOMAIN outcomes = 1..(job - 1)
  BY <1>2, <1>4, <1>5
<1>7. JobInv'
  BY <1>1, <1>2, <1>6 DEF JobInv, Record, NextFile, Jobs, Active
<1>8. BodyInv' /\ RequestInv' /\ RequestsAreBounded'
  BY DEF BodyInv, RequestInv, RequestsAreBounded, Record, NextFile,
         MAX_REDISCOVERY_ATTEMPTS_ON_EXPIRED_URL
<1>9. NameOf(body) # None => SourceOf(discovered) = NameOf(body)
  BY DEF IInv, BodyInv, Active, NameOf, SourceOf, RunAssumption
<1>10. OutcomeNamesParsedFile'
  BY <1>6, <1>9 DEF IInv, OutcomeNamesParsedFile
<1>11. outcomes'[job].source = SourceOf(discovered) /\ outcomes'[job].failed_stage = stage
  BY <1>6
<1> QED BY <1>2, <1>5, <1>6, <1>7, <1>8, <1>10, <1>11

\* What NextFile leaves has its type.
LEMMA NextFileTypes ==
    ASSUME RunAssumption, TypeOK, NextFile
    PROVE  /\ pc' \in {"discover", "done"} /\ job' \in Jobs \cup {0}
           /\ attempt' \in 0..1
           /\ remaining' \in 0..MAX_REDISCOVERY_ATTEMPTS_ON_EXPIRED_URL
           /\ listings' \in Nat
           /\ {discovered', current'} \subseteq Discovered \cup {None}
           /\ body' \in Publications \cup {None}
<1>1. Len(Requested) \in Nat
  BY DEF RunAssumption
<1> QED
  BY <1>1 DEF NextFile, TypeOK, Jobs, MAX_REDISCOVERY_ATTEMPTS_ON_EXPIRED_URL

\* A file that fails leaves its outcome and no payload.
LEMMA FailsPreserves ==
    ASSUME RunAssumption, IInv, Active,
           NEW stage \in FailedStages,
           Fails(stage)
    PROVE  IInv'
<1>1. Record(stage) /\ NextFile /\ collected' = collected
  BY DEF Fails, Record
<1>2. TypeOK'
  BY <1>1, RecordKeeps, NextFileTypes DEF IInv, TypeOK
<1>3. PricesAreUsable'
  <2>1. \A n \in DOMAIN collected : outcomes'[n] = outcomes[n]
    BY <1>1, RecordKeeps DEF IInv, TypeOK
  <2> QED BY <1>1, <2>1 DEF IInv, PricesAreUsable, PriceFulls
<1> QED BY <1>1, <1>2, <1>3, RecordKeeps DEF IInv

\* A file whose records were parsed leaves its outcome, and perhaps its
\* payload, which no later file replaces.
LEMMA ReturnKeeps ==
    ASSUME RunAssumption, IInv, Active,
           NEW payload, NEW stage \in FailedStages \cup {None},
           Return(payload), Record(stage)
    PROVE  /\ DOMAIN collected' = DOMAIN collected \cup {job}
           /\ collected'[job] = payload
           /\ \A n \in DOMAIN collected : n # job /\ collected'[n] = collected[n]
           /\ TypeOK'
<1>1. /\ DOMAIN collected' = DOMAIN collected \cup {job}
      /\ collected'[job] = payload
      /\ \A n \in DOMAIN collected : n # job => collected'[n] = collected[n]
  BY DEF Return
<1>2. job \notin DOMAIN outcomes /\ DOMAIN collected \subseteq DOMAIN outcomes
  <2>1. DOMAIN outcomes = 1..(job - 1) /\ job \in Nat
    BY RecordKeeps DEF IInv, JobInv, Jobs, RunAssumption
  <2> QED BY <2>1 DEF IInv, TypeOK
<1>3. TypeOK'
  BY <1>1, <1>2, RecordKeeps, NextFileTypes DEF IInv, TypeOK, Record
<1> QED BY <1>1, <1>2, <1>3

-----------------------------------------------------------------------------
\* The run begins with no outcome and no request.
LEMMA InitInvariant == ASSUME RunAssumption PROVE Init => IInv
<1> SUFFICES ASSUME Init PROVE IInv
  OBVIOUS
<1>1. TypeOK
  BY DEF Init, TypeOK, Jobs, MAX_REDISCOVERY_ATTEMPTS_ON_EXPIRED_URL
<1>2. JobInv /\ BodyInv /\ RequestInv
  BY DEF Init, JobInv, Active, BodyInv, RequestInv
<1>3. RequestsAreBounded /\ OutcomeNamesParsedFile /\ PricesAreUsable
  BY DEF Init, RequestsAreBounded, OutcomeNamesParsedFile, PricesAreUsable,
         PriceFulls
<1> QED BY <1>1, <1>2, <1>3 DEF IInv

\* A step within one file: no outcome is added and nothing is returned.
LEMMA ResultsKept ==
    ASSUME IInv, UNCHANGED <<job, results>>, Active, Active'
    PROVE  JobInv' /\ OutcomeNamesParsedFile' /\ PricesAreUsable'
BY DEF IInv, JobInv, Active, results, Jobs, OutcomeNamesParsedFile,
       PricesAreUsable, PriceFulls

\* The answers that make a step within one file.
Retry ==
    /\ pc \in {"discover", "rediscover"}
    /\ attempt + 1 < DISCOVERY_RETRY_ATTEMPTS
    /\ attempt' = attempt + 1
    /\ UNCHANGED <<pc, job, remaining, portal, discovered, current, body, results>>

\* A discovery is of a listing that no request was from yet.
LEMMA DiscoverPreserves ==
    ASSUME RunAssumption, IInv, Discover \/ Retry PROVE IInv'
<1> USE DEF IInv
<1>1. ASSUME Retry PROVE IInv'
  <2>1. TypeOK'
    BY <1>1 DEF Retry, TypeOK, portal, results, DISCOVERY_RETRY_ATTEMPTS
  <2>2. BodyInv' /\ RequestInv' /\ RequestsAreBounded'
    BY <1>1 DEF Retry, BodyInv, RequestInv, RequestsAreBounded, portal
  <2>3. JobInv' /\ OutcomeNamesParsedFile' /\ PricesAreUsable'
    BY <1>1, ResultsKept DEF Retry, Active
  <2> QED BY <2>1, <2>2, <2>3
<1>2. ASSUME Discover PROVE IInv'
  <2>1. /\ pc \in {"discover", "rediscover"} /\ pc' = "download"
        /\ listings' = listings + 1 /\ attempt' = 0
        /\ discovered' = discovered \/ discovered' = current'
        /\ UNCHANGED <<job, remaining, requests, body, results>>
    BY <1>2 DEF Discover
  <2>2. current' \in Discovered /\ current'.listing = listings'
    BY <1>2, <2>1 DEF Discover, TypeOK, Publications, Discovered
  <2>3. TypeOK'
    BY <2>1, <2>2 DEF TypeOK, results
  <2>4. BodyInv'
    BY <2>1, <2>2 DEF BodyInv
  <2>5. RequestInv'
    <3>1. /\ pc = "discover" => listings = 0 /\ requests = <<>> /\ remaining = 1
          /\ pc = "rediscover" => listings = 1 /\ remaining = 0 /\ Len(requests) <= 2
      BY DEF RequestInv
    <3>2. \A m \in 1..Len(requests) : requests[m][1] <= listings /\ requests[m][1] \in Nat
      BY DEF RequestInv
    <3>3. listings \in Nat /\ Len(requests) \in Nat
      BY DEF TypeOK, RequestInv
    <3> QED BY <2>1, <2>2, <3>1, <3>2, <3>3 DEF RequestInv
  <2>6. RequestsAreBounded'
    <3>1. \A m \in 1..Len(requests) : requests[m][1] <= listings /\ requests[m][1] \in Nat
      BY DEF RequestInv
    <3>2. listings' <= 2 /\ listings \in Nat
      BY <2>1 DEF RequestInv, TypeOK
    <3>3. \A m \in 1..Len(requests) : current'.listing # requests[m][1]
      BY <2>1, <2>2, <3>1, <3>2
    <3> QED BY <2>1, <3>2, <3>3 DEF RequestsAreBounded
  <2>7. JobInv' /\ OutcomeNamesParsedFile' /\ PricesAreUsable'
    BY <2>1, ResultsKept DEF Active
  <2> QED BY <2>3, <2>4, <2>5, <2>6, <2>7
<1> QED BY <1>1, <1>2

\* A download request of which another step follows in the same file.
Answered(answer) ==
    /\ pc = "download"
    /\ Asked(answer)
    /\ UNCHANGED <<job, listings, current, results>>
    /\ \/ /\ answer = "served" /\ pc' = "process" /\ body' = current.version
          /\ discovered' = current /\ UNCHANGED <<attempt, remaining>>
       \/ /\ answer = "unreachable" /\ attempt + 1 < DOWNLOAD_RETRY_ATTEMPTS
          /\ attempt' = attempt + 1
          /\ UNCHANGED <<pc, remaining, discovered, body>>
       \/ /\ answer = "rejected" /\ remaining > 0 /\ remaining' = remaining - 1
          /\ attempt' = 0 /\ pc' = "rediscover" /\ UNCHANGED <<discovered, body>>

\* After a rejection nothing is requested until the file is rediscovered.
LEMMA DownloadPreserves ==
    ASSUME RunAssumption, IInv,
           NEW answer \in {"served", "unreachable", "rejected"}, Answered(answer)
    PROVE  IInv'
<1> USE DEF IInv
<1>1. /\ current \in Discovered /\ current.listing = listings /\ listings \in Nat
      /\ listings + remaining = 2 /\ remaining \in 0..1 /\ attempt \in 0..1
      /\ Len(requests) \in Nat /\ Len(requests) <= 2 * (listings - 1) + attempt
      /\ pc = "download"
  BY DEF Answered, BodyInv, RequestInv, TypeOK,
         MAX_REDISCOVERY_ATTEMPTS_ON_EXPIRED_URL
<1>2. /\ requests' \in Seq(Nat \X {"served", "rejected", "unreachable"})
      /\ Len(requests') = Len(requests) + 1
      /\ requests'[Len(requests')] = <<listings, answer>>
      /\ \A m \in 1..Len(requests) : requests'[m] = requests[m]
  <2>1. <<listings, answer>> \in Nat \X {"served", "rejected", "unreachable"}
    BY <1>1
  <2>2. requests' = Append(requests, <<listings, answer>>)
    BY <1>1 DEF Answered, Asked
  <2> QED BY <2>1, <2>2 DEF RequestInv
<1>3. listings' = listings /\ current' = current /\ job' = job /\ UNCHANGED results
  BY DEF Answered
<1>4. \A m \in 1..Len(requests') :
        \/ m \in 1..Len(requests) /\ requests'[m] = requests[m]
        \/ m = Len(requests') /\ requests'[m][1] = listings /\ requests'[m][2] = answer
  <2>1. /\ requests'[Len(requests')][1] = listings
        /\ requests'[Len(requests')][2] = answer
    BY <1>2
  <2>2. Len(requests) \in Nat /\ Len(requests') = Len(requests) + 1
    BY <1>1, <1>2
  <2>3. ASSUME NEW m \in 1..Len(requests')
        PROVE  m \in 1..Len(requests) \/ m = Len(requests')
    BY <2>2
  <2> QED BY <1>2, <2>1, <2>3
<1>5. \A m \in 1..Len(requests) :
        /\ requests[m][1] <= listings /\ requests[m][1] \in Nat
        /\ requests[m][2] = "rejected" => requests[m][1] # listings
  BY <1>1 DEF RequestInv
<1>6. TypeOK'
  BY <1>1, <1>3 DEF Answered, TypeOK, results, Discovered, DOWNLOAD_RETRY_ATTEMPTS,
                    MAX_REDISCOVERY_ATTEMPTS_ON_EXPIRED_URL
<1>7. BodyInv'
  BY <1>1, <1>3 DEF Answered, BodyInv
<1>8. JobInv' /\ OutcomeNamesParsedFile' /\ PricesAreUsable'
  BY <1>1, <1>3, ResultsKept DEF Answered, Active
<1>9. RequestInv'
  <2>1. ASSUME NEW m \in 1..Len(requests') PROVE requests'[m][1] <= listings'
    <3>1. CASE m \in 1..Len(requests) /\ requests'[m] = requests[m]
      BY <1>3, <1>5, <3>1
    <3>2. CASE requests'[m][1] = listings
      BY <1>1, <1>3, <3>2
    <3> QED BY <1>4, <3>1, <3>2
  <2>2. CASE answer = "served"
    <3>1. pc' = "process"
      BY <1>1, <2>2 DEF Answered
    <3> QED BY <1>1, <1>2, <1>3, <2>1, <3>1 DEF RequestInv
  <2>3. CASE answer = "unreachable"
    <3>1. \A m \in 1..Len(requests') :
            requests'[m][2] = "rejected" => requests'[m][1] # listings
      BY <1>4, <1>5, <2>3
    <3>2. pc' = "download" /\ attempt' = attempt + 1 /\ remaining' = remaining
      BY <1>1, <2>3 DEF Answered
    <3> QED BY <1>1, <1>2, <1>3, <2>1, <3>1, <3>2 DEF RequestInv
  <2>4. CASE answer = "rejected"
    <3>1. pc' = "rediscover" /\ remaining' = remaining - 1 /\ remaining > 0
      BY <1>1, <2>4 DEF Answered
    <3>2. listings = 1 /\ remaining' = 0 /\ Len(requests') <= 2
      BY <1>1, <1>2, <3>1
    <3> QED BY <1>2, <1>3, <2>1, <3>1, <3>2 DEF RequestInv
  <2> QED BY <2>2, <2>3, <2>4
<1>10. RequestsAreBounded'
  <2>1. Len(requests') <= 4 /\ listings' <= 2
    <3>1. Len(requests') = Len(requests) + 1 /\ listings' = listings
      BY <1>2, <1>3
    <3>2. listings \in 1..2
      BY <1>1
    <3>3. Len(requests) <= 3
      BY <1>1, <3>2
    <3> QED BY <1>1, <3>1, <3>2, <3>3
  <2>2. ASSUME NEW m \in 1..Len(requests'), requests'[m][2] = "rejected"
        PROVE  /\ \A n \in (m + 1)..Len(requests') : requests'[n][1] # requests'[m][1]
               /\ pc' \in {"download", "process"} => current'.listing # requests'[m][1]
    <3>1. CASE m \in 1..Len(requests)
      <4>1. requests[m][2] = "rejected" /\ requests'[m][1] = requests[m][1]
        BY <1>2, <2>2, <3>1
      <4>2. requests[m][1] # listings
        BY <1>5, <3>1, <4>1
      <4>3. \A n \in (m + 1)..Len(requests) : requests[n][1] # requests[m][1]
        BY <3>1, <4>1 DEF RequestsAreBounded
      <4>4. ASSUME NEW n \in (m + 1)..Len(requests')
            PROVE  requests'[n][1] # requests'[m][1]
        <5>1. n \in 1..Len(requests') /\ n > m
          BY <3>1
        <5>2. CASE n \in 1..Len(requests) /\ requests'[n] = requests[n]
          BY <4>1, <4>3, <5>1, <5>2, <3>1
        <5>3. CASE requests'[n][1] = listings
          BY <4>1, <4>2, <5>3
        <5> QED BY <1>4, <5>1, <5>2, <5>3
      <4> QED BY <1>1, <1>3, <4>1, <4>2, <4>4
    <3>2. CASE m = Len(requests') /\ answer = "rejected"
      BY <1>1, <1>2, <3>2 DEF Answered
    <3> QED BY <1>4, <2>2, <3>1, <3>2
  <2> QED BY <2>1, <2>2 DEF RequestsAreBounded
<1> QED BY <1>6, <1>7, <1>8, <1>9, <1>10

-----------------------------------------------------------------------------
\* The Stores file: its records are returned, and no property speaks of them.
LEMMA StoresPreserves ==
    ASSUME RunAssumption, IInv, FinishStores PROVE IInv'
<1> DEFINE records == StoreRecords(body.bytes.doc)
<1>1. /\ Active /\ job = StoresFile
      /\ Return(records)
      /\ Record(Stage(StoresRejected(records)))
      /\ Stage(StoresRejected(records)) \in FailedStages \cup {None}
  BY DEF FinishStores, Active, Stage, FailedStages
<1>2. /\ DOMAIN collected' = DOMAIN collected \cup {job}
      /\ \A n \in DOMAIN collected : n # job /\ collected'[n] = collected[n]
      /\ TypeOK'
  BY <1>1, ReturnKeeps
<1>3. \A n \in DOMAIN collected : outcomes'[n] = outcomes[n]
  BY <1>1, RecordKeeps DEF IInv, TypeOK
<1>4. PricesAreUsable'
  BY <1>1, <1>2, <1>3 DEF IInv, PricesAreUsable, PriceFulls
<1> QED BY <1>1, <1>2, <1>4, RecordKeeps DEF IInv

\* A PriceFull file: what the validation accepts agrees with the name of the
\* discovery that is reported.
LEMMA PriceFullPreserves ==
    ASSUME RunAssumption, IInv, FinishPriceFull PROVE IInv'
<1> DEFINE payload == PriceFullRecords(body.bytes.doc)
           rejected == PriceFullRejected(payload, discovered.version.name)
<1>1. /\ Active /\ pc = "process" /\ ~ComparesNaN(payload)
      /\ Record(Stage(rejected)) /\ Stage(rejected) \in FailedStages \cup {None}
  BY DEF FinishPriceFull, Active, Stage, FailedStages
<1>2. \A n \in DOMAIN collected : outcomes'[n] = outcomes[n]
  BY <1>1, RecordKeeps DEF IInv, TypeOK
<1>3. CASE rejected
  <2>1. collected' = collected
    BY <1>3 DEF FinishPriceFull
  <2>2. TypeOK'
    BY <1>1, <2>1, RecordKeeps, NextFileTypes DEF IInv, TypeOK, Record
  <2>3. PricesAreUsable'
    BY <1>2, <2>1 DEF IInv, PricesAreUsable, PriceFulls
  <2> QED BY <1>1, <2>2, <2>3, RecordKeeps DEF IInv
<1>4. CASE ~rejected
  <2>1. Return(payload)
    BY <1>4 DEF FinishPriceFull
  <2>2. /\ DOMAIN collected' = DOMAIN collected \cup {job}
        /\ collected'[job] = payload
        /\ \A n \in DOMAIN collected : n # job /\ collected'[n] = collected[n]
        /\ TypeOK'
    BY <1>1, <2>1, ReturnKeeps
  <2>3. outcomes'[job].source = discovered.version.name
    <3>1. discovered \in Discovered /\ discovered # None
      BY <1>1 DEF IInv, BodyInv, RunAssumption
    <3> QED BY <1>1, <3>1, RecordKeeps DEF SourceOf
  <2>4. discovered.version.name.ids = payload.ids
    BY <1>4 DEF PriceFullRejected
  <2>5. ASSUME NEW k \in DOMAIN payload.items
        PROVE  /\ "price" \notin NotNormalizable(payload.items[k])
               /\ payload.items[k].price # NaN
    <3>1. IsDecimal(payload.items[k].price)
      BY <1>4 DEF PriceFullRejected
    <3>2. payload.items[k].price # NaN
      BY <1>1 DEF ComparesNaN
    <3> QED BY <3>1, <3>2 DEF NotNormalizable
  <2>6. PricesAreUsable'
    <3> SUFFICES ASSUME NEW n \in PriceFulls'
                 PROVE  /\ outcomes'[n].source.ids = collected'[n].ids
                        /\ \A k \in DOMAIN collected'[n].items :
                             /\ "price" \notin NotNormalizable(collected'[n].items[k])
                             /\ collected'[n].items[k].price # NaN
      BY DEF PricesAreUsable
    <3>1. CASE n = job
      BY <2>2, <2>3, <2>4, <2>5, <3>1
    <3>2. CASE n # job
      <4>1. n \in PriceFulls /\ collected'[n] = collected[n]
            /\ outcomes'[n] = outcomes[n]
        BY <1>2, <2>2, <3>2 DEF PriceFulls
      <4> QED BY <4>1 DEF IInv, PricesAreUsable
    <3> QED BY <3>1, <3>2
  <2> QED BY <1>1, <2>2, <2>6, RecordKeeps DEF IInv
<1> QED BY <1>3, <1>4

-----------------------------------------------------------------------------
\* Every answer of the portal is one of those that the lemmas are about.
LEMMA StepCases ==
    ASSUME [Next]_vars
    PROVE  \/ Start \/ Discover \/ Retry \/ FinishStores \/ FinishPriceFull
           \/ \E answer \in {"served", "unreachable", "rejected"} : Answered(answer)
           \/ Active /\ \E stage \in FailedStages :
                          Fails(stage)
           \/ /\ pc \in {"discover", "rediscover", "download", "process"}
              /\ pc' = "aborted"
              /\ UNCHANGED <<job, attempt, remaining, portal, discovered, current,
                             body, results>>
           \/ UNCHANGED vars
<1>1. ASSUME DiscoveryUnreachable
      PROVE  Retry \/ (Active /\ Fails("discovery"))
  BY <1>1 DEF DiscoveryUnreachable, Retry, Active, FailedStages
<1>2. ASSUME NothingListed \/ EmptyBody \/ RaiseTransportError \/ RaiseParseError
      PROVE  Active /\ \E stage \in FailedStages :
                         Fails(stage)
  BY <1>2 DEF NothingListed, EmptyBody, RaiseTransportError, RaiseParseError, Active,
              FailedStages
<1>3. ASSUME Download PROVE Answered("served")
  BY <1>3 DEF Download, Answered
<1>4. ASSUME DownloadUnreachable
      PROVE  Answered("unreachable") \/ (Active /\ Fails("download"))
  BY <1>4 DEF DownloadUnreachable, Answered, Active, FailedStages
<1>5. ASSUME Rejected
      PROVE  Answered("rejected") \/ (Active /\ Fails("download"))
  BY <1>5 DEF Rejected, Answered, Active, FailedStages
<1>6. ASSUME RaiseIncompleteRead \/ RaiseInvalidOperation
      PROVE  /\ pc \in {"discover", "rediscover", "download", "process"}
             /\ pc' = "aborted"
             /\ UNCHANGED <<job, attempt, remaining, portal, discovered, current,
                            body, results>>
  BY <1>6 DEF RaiseIncompleteRead, RaiseInvalidOperation
<1> QED
  BY <1>1, <1>2, <1>3, <1>4, <1>5, <1>6 DEF Next, RunStep, Ended, FailedStages

\* Every step keeps the invariant, by the lemma about its case.
LEMMA StepInvariant ==
    ASSUME RunAssumption
    PROVE  IInv /\ [Next]_vars => IInv'
<1> SUFFICES ASSUME IInv, [Next]_vars PROVE IInv'
  OBVIOUS
<1>1. ASSUME Start PROVE IInv'
  <2>1. Len(Requested) \in Nat
    BY DEF RunAssumption
  <2>2. /\ job = 0 /\ outcomes = <<>> /\ pc' = "discover" /\ job' = 1
        /\ UNCHANGED results
    BY <1>1, <2>1 DEF Start, NextFile, IInv, JobInv
  <2>3. TypeOK'
    BY <1>1, <2>2, NextFileTypes DEF Start, IInv, TypeOK, results
  <2>4. JobInv'
    BY <2>1, <2>2 DEF JobInv, Active, Jobs, results
  <2>5. BodyInv' /\ RequestInv' /\ RequestsAreBounded'
    BY <1>1, <2>2 DEF Start, NextFile, BodyInv, RequestInv, RequestsAreBounded,
                      MAX_REDISCOVERY_ATTEMPTS_ON_EXPIRED_URL
  <2>6. OutcomeNamesParsedFile' /\ PricesAreUsable'
    BY <2>2 DEF IInv, results, OutcomeNamesParsedFile, PricesAreUsable, PriceFulls
  <2> QED BY <2>3, <2>4, <2>5, <2>6 DEF IInv
<1>2. ASSUME pc \in {"discover", "rediscover", "download", "process"},
             pc' = "aborted",
             UNCHANGED <<job, attempt, remaining, portal, discovered, current,
                         body, results>>
      PROVE  IInv'
  <2>1. TypeOK'
    BY <1>2 DEF IInv, TypeOK, portal, results
  <2>2. JobInv' /\ BodyInv' /\ RequestInv' /\ RequestsAreBounded'
    BY <1>2 DEF IInv, JobInv, Active, BodyInv, RequestInv, RequestsAreBounded,
                portal
  <2>3. OutcomeNamesParsedFile' /\ PricesAreUsable'
    BY <1>2 DEF IInv, results, OutcomeNamesParsedFile, PricesAreUsable, PriceFulls
  <2> QED BY <2>1, <2>2, <2>3 DEF IInv
<1>3. CASE UNCHANGED vars
  BY <1>3 DEF vars, portal, results, IInv, TypeOK, JobInv, Active, BodyInv,
              RequestInv, RequestsAreBounded, OutcomeNamesParsedFile,
              PricesAreUsable, PriceFulls
<1> QED
  BY <1>1, <1>2, <1>3, StepCases, DiscoverPreserves, DownloadPreserves,
     FailsPreserves, StoresPreserves, PriceFullPreserves

\* The invariant holds throughout a run.
LEMMA Invariant == ASSUME RunAssumption PROVE Spec => []IInv
BY InitInvariant, StepInvariant, PTL DEF Spec

-----------------------------------------------------------------------------
\* The types of the run's state (TypeOK), for any stores and publications.
THEOREM TypeCorrect == ASSUME RunAssumption PROVE Spec => []TypeOK
<1>1. IInv => TypeOK
  BY DEF IInv
<1> QED BY <1>1, Invariant, PTL

\* However its requests fail, a file costs the portal at most four download
\* requests and two listings, and a rejected request is followed by no other
\* before the file was discovered again (RequestsAreBounded).
THEOREM FewRequests == ASSUME RunAssumption PROVE Spec => []RequestsAreBounded
<1>1. IInv => RequestsAreBounded
  BY DEF IInv
<1> QED BY <1>1, Invariant, PTL

\* An outcome names the publication whose bytes were parsed, also after a
\* rediscovery (OutcomeNamesParsedFile).
THEOREM OutcomesAreTruthful ==
    ASSUME RunAssumption PROVE Spec => []OutcomeNamesParsedFile
<1>1. IInv => OutcomeNamesParsedFile
  BY DEF IInv
<1> QED BY <1>1, Invariant, PTL

\* Returned prices have the ids of their source's name, and are decimal
\* numbers that compare (PricesAreUsable).
THEOREM PricesCanBeUsed == ASSUME RunAssumption PROVE Spec => []PricesAreUsable
<1>1. IInv => PricesAreUsable
  BY DEF IInv
<1> QED BY <1>1, Invariant, PTL

-----------------------------------------------------------------------------
\* One more outcome is one more entry of what CollectionRun sees.
LEMMA RecordAppends ==
    ASSUME RunAssumption, IInv, Active,
           NEW stage \in FailedStages \cup {None},
           Record(stage)
    PROVE  \E succeeded \in BOOLEAN :
             /\ succeeded <=> stage = None
             /\ Successes' = Append(Successes, succeeded)
             /\ Len(Successes) = job - 1 /\ Len(Successes') = job
<1>1. /\ outcomes \in Seq(Outcomes) /\ outcomes' \in Seq(Outcomes)
      /\ Len(outcomes') = job /\ Len(outcomes) = job - 1 /\ job \in Nat
      /\ outcomes'[job].failed_stage = stage
      /\ \A n \in 1..(job - 1) : outcomes'[n] = outcomes[n]
  BY RecordKeeps
<1>2. /\ Successes = [n \in 1..(job - 1) |-> Succeeded(outcomes[n])]
      /\ Successes' = [n \in 1..job |-> Succeeded(outcomes'[n])]
  BY <1>1 DEF Successes, Succeeded
<1>3. \A n \in Nat : Succeeded(outcomes[n]) \in BOOLEAN
                     /\ Succeeded(outcomes'[n]) \in BOOLEAN
  BY DEF Succeeded
<1>4. Successes \in Seq(BOOLEAN) /\ Successes' \in Seq(BOOLEAN)
      /\ Len(Successes) = job - 1 /\ Len(Successes') = job
  BY <1>1, <1>2, <1>3
<1>5. \A n \in 1..(job - 1) : Successes'[n] = Successes[n]
  BY <1>1, <1>2
<1>6. Successes'[job] = (stage = None)
  BY <1>1, <1>2 DEF Succeeded
<1>7. Successes' = Append(Successes, stage = None)
  BY <1>1, <1>4, <1>5, <1>6
<1> QED BY <1>4, <1>7

\* Recording an outcome moves the abstract run by one file.
LEMMA RecordRefines ==
    ASSUME RunAssumption, IInv, Active,
           NEW stage \in FailedStages \cup {None},
           Record(stage),
           \/ /\ DOMAIN collected' = DOMAIN collected /\ stage # None
           \/ /\ DOMAIN collected' = DOMAIN collected \cup {job}
              /\ stage = None \/ job = StoresFile
    PROVE  Run!Next
<1>1. job \in Nat /\ job <= Len(Requested) + 1 /\ Len(Requested) \in Nat
  BY DEF IInv, JobInv, Jobs, RunAssumption
<1>2. Summary = "running"
  BY DEF Summary, Active
<1>3. Summary' = IF job = Len(Requested) + 1 THEN "done" ELSE "running"
  BY DEF Record, NextFile, Summary
<1>4. PICK succeeded \in BOOLEAN :
             /\ succeeded <=> stage = None
             /\ Successes' = Append(Successes, succeeded)
             /\ Len(Successes) = job - 1 /\ Len(Successes') = job
  BY RecordAppends
<1>5. job = StoresFile => Successes = <<>>
  <2>1. DOMAIN outcomes = 1..(job - 1)
    BY RecordKeeps
  <2> QED BY <1>1, <2>1 DEF Successes, StoresFile
<1>6. ASSUME DOMAIN collected' = DOMAIN collected, stage # None
      PROVE  Run!Record(FALSE, FALSE)
  <2>1. ~succeeded
    BY <1>4, <1>6
  <2>2. Run!Record(succeeded, succeeded)
    BY <1>1, <1>2, <1>3, <1>4, <1>6, <2>1 DEF Run!Record
  <2>3. succeeded = FALSE
    BY <2>1, Zenon
  <2> QED BY <2>2, <2>3, Zenon
<1>7. ASSUME DOMAIN collected' = DOMAIN collected \cup {job},
             stage = None \/ job = StoresFile
      PROVE  \E returned \in BOOLEAN : Run!Record(succeeded, returned)
  <2>1. PICK returned \in BOOLEAN : returned
    OBVIOUS
  <2>2. Run!Record(succeeded, returned)
    BY <1>1, <1>2, <1>3, <1>4, <1>5, <1>7, <2>1 DEF Run!Record
  <2> QED BY <2>2
<1> QED BY <1>6, <1>7 DEF Run!Next

\* Every step of a run is one of CollectionRun, or changes nothing it sees.
LEMMA StepRefines ==
    ASSUME RunAssumption, IInv, [Next]_vars
    PROVE  [Run!Next]_(Run!vars)
<1>1. ASSUME Start PROVE Run!Next
  <2>1. pc = "start" /\ pc' = "discover" /\ UNCHANGED results
    BY <1>1 DEF Start, NextFile, IInv, JobInv, RunAssumption
  <2>2. Summary = "starting" /\ Summary' = "running"
    BY <2>1 DEF Summary
  <2>3. Successes' = Successes /\ DOMAIN collected' = DOMAIN collected
    BY <2>1 DEF Successes, results, Succeeded
  <2> QED BY <2>2, <2>3 DEF Run!Next, Run!Start
<1>2. ASSUME UNCHANGED results,
             \/ Active /\ Active'
             \/ pc' = pc
      PROVE  UNCHANGED Run!vars
  <2>1. Summary' = Summary
    BY <1>2 DEF Summary, Active
  <2>2. Successes' = Successes /\ DOMAIN collected' = DOMAIN collected
    BY <1>2 DEF Successes, results, Succeeded
  <2> QED BY <2>1, <2>2 DEF Run!vars
<1>3. ASSUME Active, pc' = "aborted", UNCHANGED results PROVE Run!Next
  <2>1. Summary = "running" /\ Summary' = "aborted"
    BY <1>3 DEF Summary, Active
  <2>2. Successes' = Successes /\ DOMAIN collected' = DOMAIN collected
    BY <1>3 DEF Successes, results, Succeeded
  <2> QED BY <2>1, <2>2 DEF Run!Next, Run!Abort
<1>4. ASSUME FinishStores PROVE Run!Next
  <2> DEFINE records == StoreRecords(body.bytes.doc)
             stage == Stage(StoresRejected(records))
  <2>1. /\ Active /\ job = StoresFile /\ Return(records) /\ Record(stage)
        /\ stage \in FailedStages \cup {None}
    BY <1>4 DEF FinishStores, Active, Stage, FailedStages
  <2>2. DOMAIN collected' = DOMAIN collected \cup {job}
    BY <2>1, ReturnKeeps
  <2> QED BY <2>1, <2>2, RecordRefines
<1>5. ASSUME FinishPriceFull PROVE Run!Next
  <2> DEFINE payload == PriceFullRecords(body.bytes.doc)
             rejected == PriceFullRejected(payload, discovered.version.name)
  <2>1. /\ Active /\ Record(Stage(rejected)) /\ Stage(rejected) \in FailedStages \cup {None}
    BY <1>5 DEF FinishPriceFull, Active, Stage, FailedStages
  <2>2. CASE rejected
    <3>1. Stage(rejected) = "validation" /\ Stage(rejected) # None
      BY <2>2 DEF Stage, RunAssumption, FailedStages
    <3>2. DOMAIN collected' = DOMAIN collected
      BY <1>5, <2>2 DEF FinishPriceFull
    <3> QED BY <2>1, <3>1, <3>2, RecordRefines
  <2>3. CASE ~rejected
    <3>1. Stage(rejected) = None
      BY <2>3 DEF Stage
    <3>2. Return(payload)
      BY <1>5, <2>3 DEF FinishPriceFull
    <3>3. DOMAIN collected' = DOMAIN collected \cup {job}
      BY <2>1, <3>2, ReturnKeeps
    <3> QED BY <2>1, <3>1, <3>3, RecordRefines
  <2> QED BY <2>2, <2>3
<1>6. ASSUME Active, NEW stage \in FailedStages,
             Fails(stage)
      PROVE  Run!Next
  <2>1. Record(stage) /\ DOMAIN collected' = DOMAIN collected /\ stage # None
    BY <1>6 DEF Fails, RunAssumption, FailedStages
  <2> QED BY <1>6, <2>1, RecordRefines
<1>7. ASSUME Discover \/ Retry
             \/ \E answer \in {"served", "unreachable", "rejected"} : Answered(answer)
      PROVE  UNCHANGED Run!vars
  <2>1. UNCHANGED results /\ Active /\ Active'
    BY <1>7 DEF Discover, Retry, Answered, Active
  <2> QED BY <1>2, <2>1
<1>8. ASSUME UNCHANGED vars PROVE UNCHANGED Run!vars
  BY <1>2, <1>8 DEF vars, results
<1> QED
  BY <1>1, <1>3, <1>4, <1>5, <1>6, <1>7, <1>8, StepCases DEF Active

\* A run does nothing that CollectionRun does not promise: each file in turn
\* leaves one outcome, with its payload when it succeeded (the safety part of
\* ImplementsCollectionRun).
THEOREM RunKeepsItsPromise ==
    ASSUME RunAssumption
    PROVE  Spec => Run!Init /\ [][Run!Next]_(Run!vars)
<1>1. Init => Run!Init
  BY DEF Init, Run!Init, Summary, Successes
<1> QED BY <1>1, StepRefines, Invariant, PTL DEF Spec

=============================================================================
