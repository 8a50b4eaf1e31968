------------------------------ MODULE LogClient ------------------------------
(***************************************************************************)
(* log_client: queries to the arras log service.  A caller reads the log   *)
(* of a session, or of one of its computations, page by page as the        *)
(* library's README shows, all at once with a Complete call, or with tail, *)
(* while the service receives more of it.  The service is external: it     *)
(* keeps the items of a session in the order of their timestamps.          *)
(*                                                                         *)
(* An item is a log record of the computation asked for or of another one, *)
(* an entry that lacks a member of one, or text that is not JSON.  Urls    *)
(* are the query they stand for.                                           *)
(***************************************************************************)
EXTENDS Integers, Sequences, FiniteSets, SequencesExt

CONSTANTS
    RecordsPerPage,
    MaxItems,         \* items the service ever holds
    MaxFailures       \* queries that fail

\* Without records per page there are no pages.
ASSUME PageAssumption == RecordsPerPage \in Nat \ {0}

ItemKinds == {"record", "foreign", "entry", "garbage"}

VARIABLES
    lcItems,       \* the service: the items, oldest first, numbered in that order
    lcJob,         \* the caller: [kind, comp, asc, start, page, seen, status], seen being
                   \* what the service held when the first page was read
    lcGot,         \* numbers of the records the caller has received
    lcFailures

logClientVars == <<lcItems, lcJob, lcGot, lcFailures>>

LogClientInit ==
    /\ lcItems = << >>
    /\ lcJob \in [kind : {"pages", "complete", "tail"}, comp : BOOLEAN, asc : BOOLEAN, start : {0, 2},
                  page : {0}, seen : {0}, status : {"locate"}]
    /\ lcJob.kind = "tail" => lcJob.asc
    /\ lcJob.start > 0 => lcJob.kind = "tail"
    /\ lcGot = << >> /\ lcFailures = 0

\* A page is only asked for with records per page.
buildUrlDescending(job) ==    \* mutant: the order of sort is fixed
    [sort |-> "desc", comp |-> job.comp, start |-> job.start, page |-> job.page, paged |-> job.kind = "pages"]
buildUrl(job) ==
    [sort |-> IF job.asc THEN "asc" ELSE "desc", comp |-> job.comp, start |-> job.start, page |-> job.page,
     paged |-> job.kind = "pages"]

\* The elements of items that are in S, one after the other.
Selected(items, S) ==
    LET from[k \in 1 .. Len(items) + 1] ==
            IF k > Len(items) THEN << >>
            ELSE IF items[k] \in S THEN <<items[k]>> \o from[k + 1] ELSE from[k + 1]
    IN from[1]

\* The service's answer: item numbers in the order asked for.
Concerned(url) == {i \in 1 .. Len(lcItems) : i >= url.start /\ (url.comp => lcItems[i] # "foreign")}
Answer(url) ==
    LET n == Len(lcItems)
        sorted == Selected([i \in 1 .. n |-> IF url.sort = "asc" THEN i ELSE n + 1 - i], Concerned(url))
        last == (url.page + 1) * RecordsPerPage
    IN IF ~url.paged THEN sorted
       ELSE SubSeq(sorted, url.page * RecordsPerPage + 1, IF last < Len(sorted) THEN last ELSE Len(sorted))

objectIsLogRecord(i) == lcItems[i] \in {"record", "foreign"}

\* A page is one JSON text; what is not a record in it is skipped.
objectToLogRecords(answer) == Selected(answer, {i \in 1 .. Len(lcItems) : objectIsLogRecord(i)})

\* The complete log is one JSON text per line.  A last line without line feed is
\* dropped; a line that is not JSON makes the call throw.
CompleteLines(answer, terminated) ==
    IF terminated \/ answer = << >> THEN answer ELSE Front(answer)
Parsable(lines) == \A i \in Range(lines) : lcItems[i] # "garbage"

-----------------------------------------------------------------------------
ServiceReceives(kind) ==
    /\ Len(lcItems) < MaxItems
    /\ lcItems' = Append(lcItems, kind)
    /\ UNCHANGED <<lcJob, lcGot, lcFailures>>

\* The service's url comes from the configuration service; without DWA_CONFIG, or when
\* that does not answer, there is nothing to query.
getArrasLogsUrl ==
    /\ lcJob.status = "locate"
    /\ \E status \in {"running", "failed"} : lcJob' = [lcJob EXCEPT !.status = status]
    /\ UNCHANGED <<lcItems, lcGot, lcFailures>>

\* fetch and fetchObject: no answer, a code outside 200 .. 299 or no JSON is a
\* LogClientException, after which the caller asks again.
FetchFails ==
    /\ lcJob.status = "running" /\ lcFailures < MaxFailures
    /\ lcFailures' = lcFailures + 1
    /\ UNCHANGED <<lcItems, lcJob, lcGot>>

\* The loop of the README: until a page has no records.
NextPage(records) ==
    /\ lcGot' = lcGot \o records
    /\ lcJob' = [lcJob EXCEPT !.seen = IF lcJob.page = 0 THEN Len(lcItems) ELSE @,
                              !.status = IF records = << >> THEN "done" ELSE @,
                              !.page = IF records = << >> THEN @ ELSE @ + 1]

\* tail asks once.
Once(records) == lcGot' = records /\ lcJob' = [lcJob EXCEPT !.status = "done"]

\* One query that answers with one JSON text.
GetObject ==
    /\ lcJob.status = "running"
    /\ \E answer \in {Answer(buildUrl(lcJob))} :
          IF Parsable(answer) THEN IF lcJob.kind = "pages" THEN NextPage(objectToLogRecords(answer))
                                                      ELSE Once(objectToLogRecords(answer))
                              ELSE lcJob' = [lcJob EXCEPT !.status = "failed"] /\ lcGot' = lcGot
    /\ UNCHANGED <<lcItems, lcFailures>>

getLogsBySessionId == lcJob.kind = "pages" /\ ~lcJob.comp /\ GetObject

getLogsBySessionIdAndCompName == lcJob.kind = "pages" /\ lcJob.comp /\ GetObject

\* One query that answers with a line per item.
GetComplete(terminated) ==
    /\ lcJob.status = "running"
    /\ \E lines \in {CompleteLines(Answer(buildUrl(lcJob)), terminated)} :
          IF Parsable(lines)
          THEN lcGot' = objectToLogRecords(lines) /\ lcJob' = [lcJob EXCEPT !.status = "done"]
          ELSE lcGot' = lcGot /\ lcJob' = [lcJob EXCEPT !.status = "failed"]
    /\ UNCHANGED <<lcItems, lcFailures>>

getLogsBySessionIdComplete(terminated) == lcJob.kind = "complete" /\ ~lcJob.comp /\ GetComplete(terminated)

getLogsBySessionIdAndCompNameComplete(terminated) == lcJob.kind = "complete" /\ lcJob.comp /\ GetComplete(terminated)

\* All there is without a start, else one query for what there is from the start on.
tail(terminated) ==
    /\ lcJob.kind = "tail"
    /\ IF lcJob.start = 0 THEN GetComplete(terminated) ELSE GetObject

LogClientNext ==
    \/ \E kind \in ItemKinds : ServiceReceives(kind)
    \/ getArrasLogsUrl \/ FetchFails \/ getLogsBySessionId \/ getLogsBySessionIdAndCompName
    \/ \E terminated \in BOOLEAN :
          \/ getLogsBySessionIdComplete(terminated) \/ getLogsBySessionIdAndCompNameComplete(terminated)
          \/ tail(terminated)

LogClientSpec == LogClientInit /\ [][LogClientNext]_logClientVars

-----------------------------------------------------------------------------
(* Properties. *)

Asked(i) == lcJob.comp => lcItems[i] # "foreign"
PageOf(i) == (Cardinality({j \in 1 .. i : Asked(j)}) - 1) \div RecordsPerPage
HasRecord(page) == \E i \in DOMAIN lcItems : Asked(i) /\ PageOf(i) = page /\ objectIsLogRecord(i)

\* Reading page by page in ascending order, with failed queries repeated and more
\* of the log arriving between two pages, the caller receives records in their
\* order and none twice, only those of the computation it named, and at the end it
\* has every one that was there when it began, unless a page without a single
\* record came before it.
PagesComplete ==
    lcJob.kind = "pages" /\ lcJob.asc =>
        /\ \A i, j \in DOMAIN lcGot : i < j => lcGot[i] < lcGot[j]
        /\ \A i \in Range(lcGot) : Asked(i)
        /\ lcJob.status = "done" => \A i \in 1 .. lcJob.seen :
              objectIsLogRecord(i) /\ Asked(i) /\ (\A p \in 0 .. PageOf(i) : HasRecord(p)) => i \in Range(lcGot)
=============================================================================
